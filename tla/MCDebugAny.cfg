\* Any debugger, at any time: what holds then.
SPECIFICATION Spec
CONSTANTS
  NProcs = 2
  NSel = 2
  Values = {0}
  ResetValue = 0
  Commands = {"badcsr"}
  Groups = {0}
  AbstractRti = 0
  RequireAuth = FALSE
  SupportHasel = TRUE
  SupportHaltGroups = FALSE
  HaltOnReset = FALSE
  DmcontrolBits = {"haltreq", "resumereq", "hartreset", "hasel"}
  AutoexecWrites = {}
  HawindowWrites = {{1}}
  Liberties = {"reselect", "hartreset", "dmreset", "resumerunning"}
INVARIANT StatusTruthful
PROPERTY LeavesDebugModeOnRequest
