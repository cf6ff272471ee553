\* Progress: two harts in one halt group, a debugger that never stops writing.
SPECIFICATION LiveSpec
CONSTANTS
  NProcs = 2
  NSel = 2
  Values = {0}
  ResetValue = 0
  Commands = {"exec"}
  Groups = {0, 1}
  AbstractRti = 1
  RequireAuth = TRUE
  SupportHasel = FALSE
  SupportHaltGroups = TRUE
  HaltOnReset = FALSE
  DmcontrolBits = {"haltreq", "resumereq"}
  AutoexecWrites = {}
  HawindowWrites = {}
  Liberties = {}
PROPERTIES CommandCompletes HaltRequestServed ResumeAcknowledged
