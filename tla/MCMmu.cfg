\* Software that changes page tables by the book, on one hart with every feature.
SPECIFICATION Spec
CONSTANTS
  NProcs = 1
  NFrames = 2
  NPages = 2
  TlbEntries = 1
  IcacheEntries = 1
  DISABLE_PGSIZE_CHECK = FALSE
  Spaces = {"a"}
  Ptes <- TwoEntries
  HasPmp = FALSE
  Values = {0, 1}
  Virtual = TRUE
  ResetsAnywhere = FALSE
  BreakBeforeMake = TRUE
INVARIANTS TypeOK HitsEntitled InstructionsEntitled
PROPERTY ScStoresToReserved
