\* A careful debugger, two harts, every kind of command that reaches a hart.
SPECIFICATION Spec
CONSTANTS
  NProcs = 2
  NSel = 2
  Values = {0, 1}
  ResetValue = 0
  Commands = {"read", "write", "exec", "custom"}
  Groups = {0}
  AbstractRti = 1
  RequireAuth = FALSE
  SupportHasel = FALSE
  SupportHaltGroups = FALSE
  HaltOnReset = FALSE
  DmcontrolBits = {"haltreq", "resumereq", "hartreset"}
  AutoexecWrites = {{"data", "progbuf"}}
  HawindowWrites = {}
  Liberties = {}
INVARIANTS TypeOK CommandOwnsHart ResumeOnlyHalted
PROPERTY ProvidesCommandService
