\* A debugger that resets a hart that is not in M mode.
SPECIFICATION Spec
CONSTANTS
  NProcs = 1
  NFrames = 2
  NPages = 2
  TlbEntries = 1
  IcacheEntries = 1
  DISABLE_PGSIZE_CHECK = TRUE
  Spaces = {"a"}
  Ptes <- OneEntry
  HasPmp = FALSE
  Values = {0}
  Virtual = TRUE
  ResetsAnywhere = TRUE
  BreakBeforeMake = TRUE
INVARIANT MachineModeIsBare
