\* One hart, all three privilege levels, the CLINT, a wired external interrupt.
SPECIFICATION Spec
CONSTANTS
  NHarts = 1
  MaxTime = 1
  External = {"SEI"}
  MieWrites <- EnableAll
  MidelegWrites <- DelegateExternal
  MedelegWrites <- DelegateTwo
  MipWrites <- SetOrClear
INVARIANTS InterruptsTypeOK TimerPinCurrent
PROPERTIES TrapsGoUp ReturnsRestore DebugModeTakesNoTraps DeliverableServed
