\* Two harts that share a word.
SPECIFICATION Spec
CONSTANTS
  NProcs = 2
  NFrames = 2
  NPages = 1
  TlbEntries = 1
  IcacheEntries = 1
  DISABLE_PGSIZE_CHECK = TRUE
  Spaces = {}
  Ptes <- OneEntry
  HasPmp = FALSE
  Values = {0, 1}
  Virtual = FALSE
  ResetsAnywhere = FALSE
  BreakBeforeMake = TRUE
PROPERTY ScAtomic
