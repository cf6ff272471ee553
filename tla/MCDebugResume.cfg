\* A debugger that asks harts to resume without looking whether they are halted.
SPECIFICATION Spec
CONSTANTS
  NProcs = 2
  NSel = 2
  Values = {0}
  ResetValue = 0
  Commands = {"exec"}
  Groups = {0}
  AbstractRti = 1
  RequireAuth = FALSE
  SupportHasel = FALSE
  SupportHaltGroups = TRUE
  HaltOnReset = FALSE
  DmcontrolBits = {"haltreq", "resumereq"}
  AutoexecWrites = {}
  HawindowWrites = {}
  Liberties = {"resumerunning"}
INVARIANT ResumeOnlyHalted
