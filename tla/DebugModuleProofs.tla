------------------------- MODULE DebugModuleProofs -------------------------
(***************************************************************************)
(* What DebugModule promises for any number of harts, any values, any      *)
(* configuration and, where nothing else is said, any debugger.            *)
(***************************************************************************)
EXTENDS DebugModule, TLAPS

(***************************************************************************)
(* Facts about the operators of the actions.                               *)
(***************************************************************************)

(* A hart leaves its quantum in one of the modes of a hart in Debug Mode.  *)
LEMMA OutcomesInDebugMode ==
  \A buf : Outcomes(buf) \subseteq {"parked", "command", "trapped"}
  BY DEF Outcomes

(* An abstract command is refused with an error code, or not refused.      *)
LEMMA CommandErrorIsError == \A c : CommandError(c) \in CmdErrs
  BY DEF CommandError, CmdErrs, NONE, BUSY, NOTSUP, EXCEPTION, HALTRESUME

(* Only a command for a hart that is halted is not refused.                *)
LEMMA AcceptedCommandHalted ==
  \A c : CommandError(c) = NONE => hartsel \in Harts /\ halted[hartsel]
  BY DEF CommandError, NONE, NOTSUP, HALTRESUME

(* Clearing bits of cmderr leaves an error code.                           *)
LEMMA ClearedErrorsAreErrors ==
  ASSUME NEW e \in CmdErrs PROVE ClearedErrors(e) \subseteq CmdErrs
  BY DEF ClearedErrors, CmdErrs, NONE, BUSY, NOTSUP, EXCEPTION, HALTRESUME

(* The register of a hart keeps its type over a quantum.                   *)
LEMMA SetRegisterType ==
  ASSUME TypeOK, NEW h \in Harts, NEW buf, SetRegister(h, buf)
  PROVE  reg' \in [Harts -> Values]
  BY DEF TypeOK, SetRegister, RegisterAfter

(* So does dmdata.                                                         *)
LEMMA DataAfterType == \A h, buf : DataAfter(h, buf) \subseteq Values
  BY DEF DataAfter

(* The turn goes from hart to hart.                                        *)
LEMMA NextTurnType ==
  ASSUME TypeOK, NextTurn PROVE turn' \in Harts
  BY ProcsAssumption DEF TypeOK, NextTurn, Harts

(***************************************************************************)
(* Type correctness.                                                       *)
(***************************************************************************)

(* perform_abstract_command keeps the types of what it changes.            *)
LEMMA PerformType ==
  ASSUME TypeOK, NEW c \in Commands, NEW d \in Values, PerformAbstractCommand(c, d)
  PROVE  /\ busy' \in BOOLEAN /\ cmderr' \in CmdErrs
         /\ completed' \in BOOLEAN /\ rtiRemaining' \in 0 .. AbstractRti
         /\ abstractBuf' \in CommandKinds \cup {"none"}
         /\ data' \in Values /\ go' \in [Harts -> BOOLEAN]
  <1>1. CASE cmderr # NONE \/ busy
    BY <1>1 DEF PerformAbstractCommand, TypeOK, CmdErrs, NONE, BUSY, HALTRESUME
  <1>2. CASE CommandError(c) # NONE /\ ~(cmderr # NONE \/ busy)
    <2>1. c \in CommandKinds  BY CommandsAssumption
    <2>2. abstractBuf' \in {abstractBuf, c}  BY <1>2 DEF PerformAbstractCommand
    <2>3. cmderr' \in CmdErrs  BY <1>2, CommandErrorIsError DEF PerformAbstractCommand
    <2>4. QED  BY <1>2, <2>1, <2>2, <2>3 DEF PerformAbstractCommand, TypeOK
  <1>3. CASE CommandError(c) = NONE /\ ~(cmderr # NONE \/ busy)
    <2>1. c \in CommandKinds  BY CommandsAssumption
    <2>2. AbstractRti \in 0 .. AbstractRti  BY ConfigAssumption
    <2>3. QED  BY <1>3, <2>1, <2>2 DEF PerformAbstractCommand, TypeOK
  <1>4. QED  BY <1>1, <1>2, <1>3

(* A quantum of any hart keeps the types.                                  *)
LEMMA QuantumType ==
  ASSUME TypeOK, NEW h \in Harts, Quantum(h) PROVE TypeOK'
  <1>1. turn' \in Harts  BY NextTurnType DEF Quantum
  <1>2. CASE RunCommand(h)
    BY <1>1, <1>2, OutcomesInDebugMode, SetRegisterType, DataAfterType
       DEF TypeOK, RunCommand, StoreHalted, Modes, stateVars, flagVars, selVars, cmdVars
  <1>3. CASE RunResume(h)
    BY <1>1, <1>3, SetRegisterType
       DEF TypeOK, RunResume, StoreHalted, StoreResuming, Modes, stateVars, flagVars, selVars, cmdVars
  <1>4. CASE RunPark(h)
    BY <1>1, <1>4
       DEF TypeOK, RunPark, StoreHalted, Modes, stateVars, flagVars, selVars, cmdVars
  <1>5. CASE RunBuffer(h)
    BY <1>1, <1>5, OutcomesInDebugMode, SetRegisterType, DataAfterType
       DEF TypeOK, RunBuffer, Modes, stateVars, flagVars, selVars, cmdVars
  <1>6. CASE RunException(h)
    BY <1>1, <1>6
       DEF TypeOK, RunException, CmdErrs, NONE, HALTRESUME, EXCEPTION, Modes, stateVars, flagVars, selVars, cmdVars
  <1>7. CASE RunProgram(h)
    BY <1>1, <1>7, SetRegisterType
       DEF TypeOK, RunProgram, Modes, stateVars, flagVars, selVars, cmdVars
  <1>8. QED  BY <1>2, <1>3, <1>4, <1>5, <1>6, <1>7 DEF Quantum

(* A DMI access keeps the types.                                           *)
LEMMA DebuggerType ==
  ASSUME TypeOK, Debugger PROVE TypeOK'
  <1>1. ASSUME NEW active \in BOOLEAN, WriteDmactive(active) PROVE TypeOK'
    <2>1. 0 \in Selections /\ NONE \in CmdErrs
      BY ProcsAssumption DEF Selections, CmdErrs, NONE, HALTRESUME
    <2>2. /\ busy' \in BOOLEAN /\ cmderr' \in CmdErrs
          /\ autoexec' \subseteq {"data", "progbuf"} /\ authenticated' \in BOOLEAN
      BY <1>1, <2>1, ConfigAssumption DEF TypeOK, WriteDmactive, ResetRegisters
    <2>3. QED
      <3>1. haltRequest' \in [Harts -> {"none", "regular", "group"}]
        BY <1>1 DEF TypeOK, WriteDmactive, HaltRequestAfterReset
      <3>2. /\ hartsel' \in Selections /\ hasel' \in BOOLEAN
            /\ dmactive' \in BOOLEAN
        BY <1>1, <2>1 DEF TypeOK, WriteDmactive
      <3>3. QED
        BY <1>1, <2>2, <3>1, <3>2 DEF TypeOK, WriteDmactive, stateVars, flagVars
  <1>2. ASSUME NEW v \in DmcontrolWrites, WriteDmcontrol(v) PROVE TypeOK'
    <2>1. v.hartsel \in Selections /\ v.hasel \in BOOLEAN /\ NONE \in CmdErrs
      <3>1. /\ v.hartsel \in Selections
            /\ v.hasel \in IF SupportHasel THEN Bit("hasel") ELSE {FALSE}
        BY DEF DmcontrolWrites
      <3>2. Bit("hasel") \subseteq BOOLEAN  BY DEF Bit
      <3>3. NONE \in CmdErrs  BY DEF CmdErrs, NONE, HALTRESUME
      <3>4. QED  BY <3>1, <3>2, <3>3
    <2>2. /\ busy' \in BOOLEAN /\ cmderr' \in CmdErrs
          /\ autoexec' \subseteq {"data", "progbuf"} /\ authenticated' \in BOOLEAN
      BY <1>2, <2>1, ConfigAssumption DEF TypeOK, WriteDmcontrol, ResetRegisters
    <2>3. /\ resumeack' \in [Harts -> BOOLEAN] /\ havereset' \in [Harts -> BOOLEAN]
          /\ halted' \in [Harts -> BOOLEAN] /\ dcsrHalt' \in [Harts -> BOOLEAN]
          /\ resume' \in [Harts -> BOOLEAN]
      BY <1>2 DEF TypeOK, WriteDmcontrol, StaysHalted, StaysAcknowledged
    <2>4. haltRequest' \in [Harts -> {"none", "regular", "group"}]
      BY <1>2 DEF TypeOK, WriteDmcontrol, HaltRequestAfterReset
    <2>5. /\ mode' \in [Harts -> Modes] /\ reg' \in [Harts -> Values]
          /\ haltgroup' \in [Harts -> Groups]
      BY <1>2, GroupsAssumption, ValuesAssumption DEF TypeOK, WriteDmcontrol, Modes
    <2>6. QED
      BY <1>2, <2>1, <2>2, <2>3, <2>4, <2>5 DEF TypeOK, WriteDmcontrol
  <1>3. ASSUME NEW c \in Commands, WriteCommand(c) PROVE TypeOK'
    <2>1. data \in Values  BY DEF TypeOK
    <2>2. PerformAbstractCommand(c, data)  BY <1>3 DEF WriteCommand
    <2>3. QED  BY <1>3, <2>1, <2>2, PerformType
               DEF WriteCommand, TypeOK, hartVars, stateVars, selVars
  <1>4. ASSUME NEW d \in Values, AccessData(d) PROVE TypeOK'
    <2>1. CASE PerformAbstractCommand(command, d)
               /\ UNCHANGED <<hartVars, stateVars, resume, selVars, autoexec, command>>
      <3>1. command \in Commands  BY DEF TypeOK
      <3>2. QED  BY <2>1, <3>1, PerformType DEF TypeOK, hartVars, stateVars, selVars
    <2>2. CASE busy
      <3>1. cmderr' \in CmdErrs
        BY <1>4, <2>2 DEF AccessData, TypeOK, CmdErrs, NONE, BUSY, HALTRESUME
      <3>2. UNCHANGED <<hartVars, stateVars, flagVars, selVars, busy, completed,
                        rtiRemaining, autoexec, command, abstractBuf, data>>
        BY <1>4, <2>2 DEF AccessData
      <3>3. QED
        BY <3>1, <3>2 DEF TypeOK, hartVars, stateVars, flagVars, selVars
    <2>3. CASE ~busy /\ "data" \notin autoexec
      BY <1>4, <2>3 DEF AccessData, TypeOK, hartVars, stateVars, flagVars, selVars
    <2>4. QED  BY <1>4, <2>1, <2>2, <2>3 DEF AccessData
  <1>5. CASE AccessProgbuf
    <2>1. command \in Commands /\ data \in Values  BY DEF TypeOK
    <2>2. PerformAbstractCommand(command, data)  BY <1>5 DEF AccessProgbuf
    <2>3. QED  BY <1>5, <2>1, <2>2, PerformType
               DEF AccessProgbuf, TypeOK, hartVars, stateVars, selVars
  <1>6. ASSUME NEW e \in CmdErrs, WriteAbstractcs(e) PROVE TypeOK'
    BY <1>6 DEF WriteAbstractcs, TypeOK, hartVars, stateVars, flagVars, selVars
  <1>7. ASSUME NEW bits \in AutoexecWrites, WriteAbstractauto(bits) PROVE TypeOK'
    BY <1>7, DebuggerAssumption
       DEF WriteAbstractauto, TypeOK, hartVars, stateVars, flagVars, selVars
  <1>8. ASSUME NEW harts \in HawindowWrites, WriteHawindow(harts) PROVE TypeOK'
    BY <1>8, DebuggerAssumption
       DEF WriteHawindow, TypeOK, hartVars, stateVars, flagVars, cmdVars
  <1>9. ASSUME NEW right \in BOOLEAN, WriteAuthdata(right) PROVE TypeOK'
    BY <1>9 DEF WriteAuthdata, TypeOK, hartVars, stateVars, flagVars, cmdVars
  <1>10. ASSUME NEW g \in Groups, WriteDmcs2(g) PROVE TypeOK'
    BY <1>10 DEF WriteDmcs2, TypeOK, hartVars, flagVars, selVars, cmdVars
  <1>11. CASE RunTestIdle
    BY <1>11, ConfigAssumption
       DEF RunTestIdle, TypeOK, hartVars, stateVars, flagVars, selVars
  <1>12. ReadData => AccessData(data) /\ data \in Values  BY DEF ReadData, TypeOK
  <1>13. \A d \in Values : WriteData(d) => AccessData(d)  BY DEF WriteData
  <1>14. QED
    BY <1>1, <1>2, <1>3, <1>4, <1>5, <1>6, <1>7, <1>8, <1>9, <1>10, <1>11,
       <1>12, <1>13 DEF Debugger

(* Every variable keeps its type.                                          *)
THEOREM TypeCorrect == Spec => []TypeOK
  <1>1. Init => TypeOK
    <2>1. /\ 0 \in Harts /\ 0 \in Selections /\ NONE \in CmdErrs /\ 0 \in Groups
          /\ 0 \in 0 .. AbstractRti /\ ResetValue \in Values /\ "program" \in Modes
      BY ProcsAssumption, ValuesAssumption, GroupsAssumption, ConfigAssumption
         DEF Harts, Selections, Modes, CmdErrs, NONE, HALTRESUME
    <2>2. Commands \subseteq CommandKinds  BY CommandsAssumption
    <2>3. SUFFICES ASSUME Init PROVE TypeOK  OBVIOUS
    <2>4. /\ dcsrHalt \in [Harts -> BOOLEAN] /\ authenticated \in BOOLEAN
      BY <2>3, ConfigAssumption DEF Init
    <2>5. QED  BY <2>1, <2>2, <2>3, <2>4 DEF Init, TypeOK
  <1>2. TypeOK /\ [Next]_vars => TypeOK'
    <2>1. SUFFICES ASSUME TypeOK, [Next]_vars PROVE TypeOK'  OBVIOUS
    <2>2. CASE Debugger  BY <2>1, <2>2, DebuggerType
    <2>3. ASSUME NEW h \in Harts, Quantum(h) PROVE TypeOK'
      BY <2>1, <2>3, QuantumType
    <2>4. CASE UNCHANGED vars
      BY <2>1, <2>4
         DEF TypeOK, vars, hartVars, stateVars, flagVars, selVars, cmdVars
    <2>5. QED  BY <2>1, <2>2, <2>3, <2>4 DEF Next
  <1>3. QED  BY <1>1, <1>2, PTL DEF Spec

(***************************************************************************)
(* The Debug Module knows which harts are halted.                          *)
(***************************************************************************)

(* The debugger changes neither the mode nor the halted bit of a hart,     *)
(* except by a reset, which clears both.                                   *)
LEMMA DebuggerKeepsHalted ==
  ASSUME Debugger
  PROVE  \/ UNCHANGED <<mode, halted>>
         \/ \E resets \in SUBSET Harts :
              /\ mode' = [i \in Harts |-> IF i \in resets THEN "program" ELSE mode[i]]
              /\ halted' = [i \in Harts |-> i \notin resets /\ halted[i]]
  <1>1. ASSUME NEW v \in DmcontrolWrites, WriteDmcontrol(v)
        PROVE  \E resets \in SUBSET Harts :
              /\ mode' = [i \in Harts |-> IF i \in resets THEN "program" ELSE mode[i]]
              /\ halted' = [i \in Harts |-> i \notin resets /\ halted[i]]
    <2>1. HartReset(v) \in SUBSET Harts  BY DEF HartReset, HartSelected, Selected
    <2>2. QED  BY <1>1, <2>1 DEF WriteDmcontrol, StaysHalted
  <1>2. CASE ~(\E v \in DmcontrolWrites : WriteDmcontrol(v))
    BY <1>2 DEF Debugger, WriteDmactive, WriteCommand, ReadData, WriteData,
       AccessData, AccessProgbuf, WriteAbstractcs, WriteAbstractauto, WriteHawindow,
       WriteAuthdata, WriteDmcs2, RunTestIdle, hartVars, stateVars
  <1>3. QED  BY <1>1, <1>2

(* A quantum of hart h leaves the other harts' mode and halted bit alone.  *)
LEMMA QuantumIsLocal ==
  ASSUME TypeOK, NEW h \in Harts, Quantum(h), NEW i \in Harts, i # h
  PROVE  mode'[i] = mode[i] /\ halted'[i] = halted[i]
  BY DEF TypeOK, Quantum, RunCommand, RunResume, StoreResuming, RunPark, RunBuffer,
         RunException, RunProgram, stateVars

(* After its quantum, hart h is in Debug Mode if and only if it is marked  *)
(* halted: for a round of the ROM loop whatever was true before, otherwise *)
(* because neither changes.                                                *)
LEMMA QuantumHalted ==
  ASSUME TypeOK, NEW h \in Harts, Quantum(h), halted[h] <=> InDebugMode(h)
  PROVE  halted'[h] <=> mode'[h] # "program"
  <1>1. CASE RunCommand(h)
    BY <1>1, OutcomesInDebugMode DEF RunCommand, TypeOK
  <1>2. CASE RunResume(h)
    BY <1>2 DEF RunResume, StoreResuming, TypeOK
  <1>3. CASE RunPark(h)
    BY <1>3 DEF RunPark, TypeOK
  <1>4. CASE RunBuffer(h)
    BY <1>4, OutcomesInDebugMode DEF RunBuffer, TypeOK, InDebugMode, stateVars
  <1>5. CASE RunException(h)
    BY <1>5 DEF RunException, TypeOK, InDebugMode, stateVars
  <1>6. CASE RunProgram(h)
    BY <1>6 DEF RunProgram, TypeOK, InDebugMode, stateVars
  <1>7. QED  BY <1>1, <1>2, <1>3, <1>4, <1>5, <1>6 DEF Quantum

(* Whatever the debugger does, halted is true exactly for the harts in     *)
(* Debug Mode.                                                             *)
THEOREM HaltedTruthful == Spec => []HaltedIffDebugMode
  <1>1. Init => HaltedIffDebugMode
    BY DEF Init, HaltedIffDebugMode, InDebugMode
  <1>2. TypeOK /\ HaltedIffDebugMode /\ [Next]_vars => HaltedIffDebugMode'
    <2>1. SUFFICES ASSUME TypeOK, HaltedIffDebugMode, [Next]_vars, NEW i \in Harts
                   PROVE  halted'[i] <=> mode'[i] # "program"
      BY DEF HaltedIffDebugMode, InDebugMode
    <2>2. halted[i] <=> mode[i] # "program"
      BY <2>1 DEF HaltedIffDebugMode, InDebugMode
    <2>3. CASE Debugger
      BY <2>2, <2>3, DebuggerKeepsHalted
    <2>4. ASSUME NEW h \in Harts, Quantum(h) PROVE halted'[i] <=> mode'[i] # "program"
      <3>1. CASE i = h
        BY <2>1, <2>2, <2>4, <3>1, QuantumHalted DEF InDebugMode
      <3>2. CASE i # h
        BY <2>1, <2>2, <2>4, <3>2, QuantumIsLocal
      <3>3. QED  BY <3>1, <3>2
    <2>5. CASE UNCHANGED vars
      BY <2>2, <2>5 DEF vars, hartVars, stateVars
    <2>6. QED  BY <2>1, <2>3, <2>4, <2>5 DEF Next
  <1>3. QED  BY <1>1, <1>2, TypeCorrect, PTL DEF Spec

(***************************************************************************)
(* The protection of an abstract command.                                  *)
(***************************************************************************)

(* Issuing a command hands the hart it is for to that command.             *)
LEMMA PerformOwns ==
  ASSUME CommandOwnsHart, TypeOK, NEW c, NEW d, PerformAbstractCommand(c, d),
         UNCHANGED <<mode, hartsel>>
  PROVE  CommandOwnsHart'
  <1>1. CASE UNCHANGED <<go, busy, completed>>
    BY <1>1 DEF CommandOwnsHart, Executing
  <1>2. CASE ~busy /\ go' = [go EXCEPT ![hartsel] = TRUE] /\ ~completed' /\ busy'
    BY <1>2 DEF CommandOwnsHart, Executing, TypeOK
  <1>3. QED  BY <1>1, <1>2 DEF PerformAbstractCommand

(* While the Debug Module is busy, a write to DMCONTROL of a debugger that *)
(* neither reselects nor resets the Debug Module leaves alone all that the *)
(* command depends on but the hart itself, which it may reset.             *)
LEMMA DmcontrolOwns ==
  ASSUME CommandOwnsHart, "reselect" \notin Liberties, "dmreset" \notin Liberties,
         \/ \E active \in BOOLEAN : WriteDmactive(active)
         \/ \E v \in DmcontrolWrites : WriteDmcontrol(v)
  PROVE  CommandOwnsHart'
  <1>1. ASSUME NEW active \in BOOLEAN, WriteDmactive(active) PROVE CommandOwnsHart'
    <2>1. busy => ~Rises(active)
      BY <1>1 DEF WriteDmactive, CarefulActive, Rises
    <2>2. busy => busy' = busy /\ hartsel' = hartsel
      BY <1>1, <2>1 DEF WriteDmactive, ResetRegisters
    <2>3. UNCHANGED <<go, mode, completed>>
      BY <1>1 DEF WriteDmactive, flagVars
    <2>4. QED  BY <2>2, <2>3 DEF CommandOwnsHart, Executing
  <1>2. ASSUME NEW v \in DmcontrolWrites, WriteDmcontrol(v) PROVE CommandOwnsHart'
    <2>1. v.dmactive = TRUE  BY <1>2 DEF DmcontrolWrites
    <2>2. busy => ~Rises(v.dmactive) /\ v.hartsel = hartsel
      BY <1>2, <2>1 DEF WriteDmcontrol, Careful, CarefulActive, Rises
    <2>3. busy => busy' = busy /\ hartsel' = hartsel
      BY <1>2, <2>2 DEF WriteDmcontrol, ResetRegisters
    <2>4. UNCHANGED <<go, completed>>
      BY <1>2 DEF WriteDmcontrol
    <2>5. \A h \in Harts : mode'[h] = "program" \/ mode'[h] = mode[h]
      BY <1>2 DEF WriteDmcontrol
    <2>6. QED  BY <2>3, <2>4, <2>5 DEF CommandOwnsHart, Executing
  <1>3. QED  BY <1>1, <1>2

LEMMA DebuggerOwns ==
  ASSUME TypeOK, CommandOwnsHart, "reselect" \notin Liberties,
         "dmreset" \notin Liberties, Debugger
  PROVE  CommandOwnsHart'
  <1>1. ASSUME NEW c \in Commands, WriteCommand(c) PROVE CommandOwnsHart'
    BY <1>1, PerformOwns DEF WriteCommand, hartVars, selVars
  <1>2. ASSUME NEW d \in Values, AccessData(d) PROVE CommandOwnsHart'
    <2>1. UNCHANGED <<mode, hartsel>>
      BY <1>2 DEF AccessData, hartVars, selVars
    <2>2. \/ PerformAbstractCommand(command, d)
          \/ UNCHANGED <<go, busy, completed>>
      BY <1>2 DEF AccessData, flagVars
    <2>3. QED  BY <2>1, <2>2, PerformOwns DEF CommandOwnsHart, Executing
  <1>3. CASE AccessProgbuf
    BY <1>3, PerformOwns DEF AccessProgbuf, hartVars, selVars
  <1>4. CASE RunTestIdle
    BY <1>4 DEF RunTestIdle, CommandOwnsHart, Executing, hartVars, flagVars, selVars
  <1>5. CASE \/ \E e \in CmdErrs : WriteAbstractcs(e)
             \/ \E bits \in AutoexecWrites : WriteAbstractauto(bits)
             \/ \E harts \in HawindowWrites : WriteHawindow(harts)
             \/ \E right \in BOOLEAN : WriteAuthdata(right)
             \/ \E g \in Groups : WriteDmcs2(g)
    <2>1. UNCHANGED <<mode, go, busy, completed, hartsel>>
      BY <1>5 DEF WriteAbstractcs, WriteAbstractauto, WriteHawindow, WriteAuthdata,
                  WriteDmcs2, hartVars, flagVars, selVars, cmdVars
    <2>2. QED  BY <2>1 DEF CommandOwnsHart, Executing
  <1>6. ReadData => AccessData(data) /\ data \in Values  BY DEF ReadData, TypeOK
  <1>7. \A d \in Values : WriteData(d) => AccessData(d)  BY DEF WriteData
  <1>8. QED
    BY <1>1, <1>2, <1>3, <1>4, <1>5, <1>6, <1>7, DmcontrolOwns DEF Debugger

(* A quantum of h consumes the GO flag of h only, and completes a command  *)
(* only if the selected hart has none.                                     *)
LEMMA QuantumOwns ==
  ASSUME TypeOK, CommandOwnsHart, NEW h \in Harts, Quantum(h)
  PROVE  CommandOwnsHart'
  <1>1. SUFFICES ASSUME NEW i \in Harts, go'[i] \/ mode'[i] \in {"command", "trapped"}
                 PROVE  busy' /\ ~completed' /\ hartsel' = i
    BY DEF CommandOwnsHart, Executing
  <1>2. go[i] \/ mode[i] \in {"command", "trapped"} => busy /\ ~completed /\ hartsel = i
    BY DEF CommandOwnsHart, Executing
  <1>3. EntersRom(h) => mode[h] \notin {"command", "trapped"}
    BY DEF EntersRom
  <1>4. busy' = busy /\ hartsel' = hartsel
    BY DEF Quantum, RunCommand, RunResume, RunPark, RunBuffer, RunException,
           RunProgram, selVars, cmdVars
  <1>5. i # h => mode'[i] = mode[i]
    BY QuantumIsLocal
  <1>6. CASE RunCommand(h)
    BY <1>1, <1>2, <1>4, <1>5, <1>6 DEF RunCommand, StoreHalted, TypeOK
  <1>7. CASE RunResume(h) \/ RunPark(h)
    <2>1. mode'[h] \in {"program", "parked"} /\ go' = go
      BY <1>7 DEF RunResume, RunPark, TypeOK, flagVars
    <2>2. ~go[h] /\ completed' = (completed \/ (hartsel = h /\ ~go[h]))
      BY <1>7 DEF RunResume, WantsResume, RunPark, StoreHalted
    <2>3. i # h
      BY <1>1, <2>1, <2>2
    <2>4. QED  BY <1>1, <1>2, <1>4, <1>5, <2>1, <2>2, <2>3
  <1>8. CASE RunBuffer(h) \/ RunException(h) \/ RunProgram(h)
    <2>1. UNCHANGED <<go, completed>>
      BY <1>8 DEF RunBuffer, RunException, RunProgram, flagVars, cmdVars
    <2>2. mode'[i] = mode[i] \/ mode[i] \in {"command", "trapped"} \/ mode'[i] = "parked"
      BY <1>5, <1>8 DEF RunBuffer, RunException, RunProgram
    <2>3. QED  BY <1>1, <1>2, <1>4, <2>1, <2>2
  <1>9. QED  BY <1>6, <1>7, <1>8 DEF Quantum

(* If the debugger neither selects another hart nor resets the Debug       *)
(* Module while a command is busy, a hart executes a command only under    *)
(* the protection of busy, selected, and before completion is recorded.    *)
(* That it may reset harts meanwhile, or ask running harts to resume, is   *)
(* no danger to this.                                                      *)
THEOREM CommandOwnership ==
  ASSUME "reselect" \notin Liberties, "dmreset" \notin Liberties
  PROVE  Spec => []CommandOwnsHart
  <1>1. Init => CommandOwnsHart
    BY DEF Init, CommandOwnsHart, Executing
  <1>2. TypeOK /\ CommandOwnsHart /\ [Next]_vars => CommandOwnsHart'
    <2>1. SUFFICES ASSUME TypeOK, CommandOwnsHart, [Next]_vars PROVE CommandOwnsHart'
      OBVIOUS
    <2>2. CASE Debugger  BY <2>1, <2>2, DebuggerOwns
    <2>3. ASSUME NEW h \in Harts, Quantum(h) PROVE CommandOwnsHart'
      BY <2>1, <2>3, QuantumOwns
    <2>4. CASE UNCHANGED vars
      BY <2>1, <2>4 DEF CommandOwnsHart, Executing, vars, hartVars, flagVars,
                        selVars, cmdVars
    <2>5. QED  BY <2>1, <2>2, <2>3, <2>4 DEF Next
  <1>3. QED  BY <1>1, <1>2, TypeCorrect, PTL DEF Spec

(***************************************************************************)
(* Resumes.                                                                *)
(***************************************************************************)

(* A pending resume is not yet acknowledged, whatever the debugger does:   *)
(* the request clears the acknowledgement that the hart sets when it       *)
(* consumes the request.                                                   *)
THEOREM ResumeNotAcknowledgedEarly == Spec => []PendingResumeNotAcknowledged
  <1>1. Init => PendingResumeNotAcknowledged
    BY DEF Init, PendingResumeNotAcknowledged
  <1>2. TypeOK /\ PendingResumeNotAcknowledged /\ [Next]_vars
          => PendingResumeNotAcknowledged'
    <2>1. SUFFICES ASSUME TypeOK, PendingResumeNotAcknowledged, [Next]_vars,
                          NEW i \in Harts, resume'[i]
                   PROVE  ~resumeack'[i]
      BY DEF PendingResumeNotAcknowledged
    <2>2. resume[i] => ~resumeack[i]
      BY <2>1 DEF PendingResumeNotAcknowledged
    <2>3. ASSUME NEW v \in DmcontrolWrites, WriteDmcontrol(v) PROVE ~resumeack'[i]
      BY <2>1, <2>2, <2>3 DEF WriteDmcontrol, StaysAcknowledged
    <2>4. ASSUME NEW h \in Harts, RunResume(h) PROVE ~resumeack'[i]
      BY <2>1, <2>2, <2>4 DEF RunResume, StoreResuming, TypeOK
    <2>5. CASE UNCHANGED <<resume, resumeack>>
      BY <2>1, <2>2, <2>5
    <2>6. Debugger => UNCHANGED <<resume, resumeack>>
                      \/ \E v \in DmcontrolWrites : WriteDmcontrol(v)
      BY DEF Debugger, WriteDmactive, WriteCommand, ReadData, WriteData, AccessData,
             AccessProgbuf, WriteAbstractcs, WriteAbstractauto, WriteHawindow,
             WriteAuthdata, WriteDmcs2, RunTestIdle, stateVars, flagVars
    <2>7. \A h \in Harts : Quantum(h) => UNCHANGED <<resume, resumeack>> \/ RunResume(h)
      BY DEF Quantum, RunCommand, RunPark, RunBuffer, RunException, RunProgram,
             stateVars, flagVars
    <2>8. UNCHANGED vars => UNCHANGED <<resume, resumeack>>
      BY DEF vars, stateVars, flagVars
    <2>9. QED  BY <2>1, <2>3, <2>4, <2>5, <2>6, <2>7, <2>8 DEF Next
  <1>3. QED  BY <1>1, <1>2, TypeCorrect, PTL DEF Spec

(* What DMSTATUS says of a selection is true of each hart of it.           *)
THEOREM StatusIsTruthful == Spec => []StatusTruthful
  <1>1. TypeOK /\ HaltedIffDebugMode /\ PendingResumeNotAcknowledged => StatusTruthful
    <2>1. SUFFICES ASSUME HaltedIffDebugMode, PendingResumeNotAcknowledged,
                          NEW h \in Selected(hartsel, hasel)
                   PROVE  /\ DmStatus.allhalted \/ ~DmStatus.anyhalted
                               => InDebugMode(h) = DmStatus.allhalted
                          /\ DmStatus.allrunning => ~InDebugMode(h)
                          /\ DmStatus.allresumeack => ~resume[h]
      BY DEF StatusTruthful
    <2>2. h \in Harts  BY DEF Selected
    <2>3. /\ halted[h] <=> InDebugMode(h)
          /\ resume[h] => ~resumeack[h]
      BY <2>1, <2>2 DEF HaltedIffDebugMode, PendingResumeNotAcknowledged
    <2>4. /\ DmStatus.allhalted = (\A i \in Selected(hartsel, hasel) : halted[i])
          /\ DmStatus.anyhalted = (\E i \in Selected(hartsel, hasel) : halted[i])
          /\ DmStatus.allrunning = (\A i \in Selected(hartsel, hasel) : ~halted[i])
          /\ DmStatus.allresumeack = (\A i \in Selected(hartsel, hasel) : resumeack[i])
      BY DEF DmStatus
    <2>5. InDebugMode(h) \in BOOLEAN /\ DmStatus.allhalted \in BOOLEAN
      BY <2>4 DEF InDebugMode
    <2>6. (DmStatus.allhalted \/ ~DmStatus.anyhalted)
            => (InDebugMode(h) <=> DmStatus.allhalted)
      BY <2>1, <2>3, <2>4, Zenon
    <2>7. QED  BY <2>1, <2>3, <2>4, <2>5, <2>6, Zenon
  <1>2. QED  BY <1>1, TypeCorrect, HaltedTruthful, ResumeNotAcknowledgedEarly, PTL

(* No step but a requested resume or a reset takes a hart out of Debug     *)
(* Mode, and both leave the trace that the property names.                 *)
THEOREM LeavesOnRequest == Spec => LeavesDebugModeOnRequest
  <1> DEFINE Traced(h) ==
        InDebugMode(h) /\ ~InDebugMode(h)' =>
          \/ resume[h] /\ ~resume'[h] /\ resumeack'[h]
          \/ /\ havereset'[h] /\ haltgroup'[h] = 0
             /\ resumeack'[h] => resumeack[h]
             Promise == \A h \in Harts : Traced(h)
  <1>1. TypeOK /\ [Next]_vars => [Promise]_vars
    <2>1. SUFFICES ASSUME TypeOK, [Next]_vars, NEW i \in Harts,
                          mode[i] # "program", mode'[i] = "program"
                   PROVE  \/ resume[i] /\ ~resume'[i] /\ resumeack'[i]
                          \/ /\ havereset'[i] /\ haltgroup'[i] = 0
                             /\ resumeack'[i] => resumeack[i]
      BY DEF InDebugMode
    <2>2. ASSUME NEW v \in DmcontrolWrites, WriteDmcontrol(v)
          PROVE  /\ havereset'[i] /\ haltgroup'[i] = 0
                 /\ resumeack'[i] => resumeack[i]
      <3>1. mode'[i] = IF i \in HartReset(v) THEN "program" ELSE mode[i]
        BY <2>2 DEF WriteDmcontrol
      <3>2. i \in HartReset(v)  BY <2>1, <3>1
      <3>3. QED  BY <2>2, <3>2 DEF WriteDmcontrol, StaysAcknowledged
    <2>3. ASSUME NEW h \in Harts, Quantum(h)
          PROVE  resume[i] /\ ~resume'[i] /\ resumeack'[i]
      <3>1. i = h  BY <2>1, <2>3, QuantumIsLocal
      <3>2. RunResume(h)
        BY <2>1, <2>3, <3>1, OutcomesInDebugMode
           DEF Quantum, RunCommand, RunPark, RunBuffer, RunException, RunProgram, TypeOK
      <3>3. QED  BY <2>1, <3>1, <3>2 DEF RunResume, WantsResume, StoreResuming, TypeOK
    <2>4. Debugger => mode' = mode \/ \E v \in DmcontrolWrites : WriteDmcontrol(v)
      BY DEF Debugger, WriteDmactive, WriteCommand, ReadData, WriteData, AccessData,
             AccessProgbuf, WriteAbstractcs, WriteAbstractauto, WriteHawindow,
             WriteAuthdata, WriteDmcs2, RunTestIdle, hartVars
    <2>5. UNCHANGED vars => mode' = mode  BY DEF vars, hartVars
    <2>6. QED  BY <2>1, <2>2, <2>3, <2>4, <2>5 DEF Next
  <1>2. QED  BY <1>1, TypeCorrect, PTL DEF Spec, LeavesDebugModeOnRequest

(* A debugger that asks halted harts only to resume, and resets none that  *)
(* has a resume pending, leaves no resume pending for a running hart.      *)
THEOREM ResumesOnlyHalted ==
  ASSUME "hartreset" \notin Liberties, "resumerunning" \notin Liberties
  PROVE  Spec => []ResumeOnlyHalted
  <1>1. Init => ResumeOnlyHalted
    BY DEF Init, ResumeOnlyHalted
  <1>2. TypeOK /\ HaltedIffDebugMode /\ ResumeOnlyHalted /\ [Next]_vars => ResumeOnlyHalted'
    <2>1. SUFFICES ASSUME TypeOK, HaltedIffDebugMode, ResumeOnlyHalted, [Next]_vars,
                          NEW i \in Harts, resume'[i]
                   PROVE  mode'[i] # "program"
      BY DEF ResumeOnlyHalted, InDebugMode
    <2>2. /\ resume[i] => mode[i] # "program"
          /\ halted[i] <=> mode[i] # "program"
      BY <2>1 DEF HaltedIffDebugMode, ResumeOnlyHalted, InDebugMode
    <2>3. ASSUME NEW v \in DmcontrolWrites, WriteDmcontrol(v) PROVE mode'[i] # "program"
      <3>1. /\ resume'[i] = (resume[i] \/ (v.resumereq /\ i \in HartSelected(v)))
            /\ mode'[i] = IF i \in HartReset(v) THEN "program" ELSE mode[i]
            /\ Careful(v)
        BY <2>3 DEF WriteDmcontrol
      <3>2. /\ resume[i] => HartReset(v) = {}
            /\ v.resumereq /\ i \in HartSelected(v) => HartReset(v) = {} /\ halted[i]
        BY <3>1 DEF Careful
      <3>3. QED  BY <2>1, <2>2, <3>1, <3>2
    <2>4. ASSUME NEW h \in Harts, Quantum(h) PROVE mode'[i] # "program"
      <3>1. CASE RunResume(h)
        <4>1. i # h  BY <2>1, <3>1 DEF RunResume, StoreResuming, TypeOK
        <4>2. resume[i]  BY <2>1, <3>1, <4>1 DEF RunResume, StoreResuming, TypeOK
        <4>3. QED  BY <2>1, <2>2, <2>4, <4>1, <4>2, QuantumIsLocal
      <3>2. CASE ~RunResume(h)
        <4>1. resume' = resume
          BY <2>4, <3>2 DEF Quantum, RunCommand, RunPark, RunBuffer, RunException,
                            RunProgram, flagVars
        <4>2. mode[i] # "program"  BY <2>1, <2>2, <4>1
        <4>3. CASE i = h
          BY <2>1, <2>4, <3>2, <4>2, <4>3, OutcomesInDebugMode
             DEF Quantum, RunCommand, RunPark, RunBuffer, RunException, RunProgram, TypeOK
        <4>4. CASE i # h  BY <2>1, <2>4, <4>2, <4>4, QuantumIsLocal
        <4>5. QED  BY <4>3, <4>4
      <3>3. QED  BY <3>1, <3>2
    <2>5. Debugger => UNCHANGED <<resume, mode>>
                      \/ \E v \in DmcontrolWrites : WriteDmcontrol(v)
      BY DEF Debugger, WriteDmactive, WriteCommand, ReadData, WriteData, AccessData,
             AccessProgbuf, WriteAbstractcs, WriteAbstractauto, WriteHawindow,
             WriteAuthdata, WriteDmcs2, RunTestIdle, hartVars, flagVars
    <2>6. UNCHANGED vars => UNCHANGED <<resume, mode>>  BY DEF vars, hartVars, flagVars
    <2>7. QED  BY <2>1, <2>2, <2>3, <2>4, <2>5, <2>6 DEF Next
  <1>3. QED  BY <1>1, <1>2, TypeCorrect, HaltedTruthful, PTL DEF Spec

(***************************************************************************)
(* The Debug Module implements CommandService.                             *)
(***************************************************************************)

(* The commands for which the hart is needed.                              *)
HartCommands == {"read", "write", "badcsr", "exec"}

(* A hart that has its GO flag is halted and not executing anything yet,   *)
(* and what it is to perform is one of these commands, of those that the   *)
(* debugger writes.                                                        *)
CommandReady ==
  /\ abstractBuf \in Commands \cup {"none"}
  /\ \A h \in Harts :
       go[h] => halted[h] /\ ~Executing(h) /\ abstractBuf \in HartCommands

ServiceInv ==
  /\ TypeOK /\ HaltedIffDebugMode /\ CommandOwnsHart /\ CommandReady

(* A debugger that takes no liberties.                                     *)
CarefulDebugger == Liberties = {}

(* What issuing a command does, or refusing to.                            *)
LEMMA PerformReady ==
  ASSUME ServiceInv, NEW c \in Commands, NEW d \in Values,
         PerformAbstractCommand(c, d), UNCHANGED <<halted, mode>>
  PROVE  CommandReady'
  <1>1. CASE cmderr # NONE \/ busy
    BY <1>1 DEF PerformAbstractCommand, CommandReady, ServiceInv, Executing
  <1>2. CASE ~(cmderr # NONE \/ busy) /\ CommandError(c) # NONE
    <2>1. \A h \in Harts : ~go[h]
      BY <1>2 DEF ServiceInv, CommandOwnsHart
    <2>2. abstractBuf' \in {abstractBuf, c} /\ go' = go
      BY <1>2 DEF PerformAbstractCommand
    <2>3. QED  BY <2>1, <2>2 DEF CommandReady, ServiceInv
  <1>3. CASE ~(cmderr # NONE \/ busy) /\ CommandError(c) = NONE /\ c = "custom"
    BY <1>3 DEF PerformAbstractCommand, CommandReady, ServiceInv, Executing
  <1>4. CASE ~(cmderr # NONE \/ busy) /\ CommandError(c) = NONE /\ c # "custom"
    <2>1. \A h \in Harts : ~go[h]
      BY <1>4 DEF ServiceInv, CommandOwnsHart
    <2>2. hartsel \in Harts /\ halted[hartsel]  BY <1>4, AcceptedCommandHalted
    <2>3. abstractBuf' = c /\ go' = [go EXCEPT ![hartsel] = TRUE]
      BY <1>4 DEF PerformAbstractCommand
    <2>4. c \in HartCommands
      BY <1>4, CommandsAssumption, <2>2
         DEF CommandKinds, CommandError, HartCommands, NONE, NOTSUP
    <2>5. \A h \in Harts : go'[h] => h = hartsel
      BY <2>1, <2>3 DEF ServiceInv, TypeOK
    <2>6. ~Executing(hartsel)  BY <1>4, <2>2 DEF ServiceInv, CommandOwnsHart
    <2>7. QED  BY <2>2, <2>3, <2>4, <2>5, <2>6 DEF CommandReady, Executing
  <1>5. QED  BY <1>1, <1>2, <1>3, <1>4

LEMMA ReadyKept ==
  ASSUME CarefulDebugger, ServiceInv, [Next]_vars PROVE CommandReady'
  <1>1. ASSUME UNCHANGED <<abstractBuf, go, halted, mode>> PROVE CommandReady'
    BY <1>1 DEF ServiceInv, CommandReady, Executing
  <1>2. ASSUME NEW c \in Commands, NEW d \in Values,
               PerformAbstractCommand(c, d), UNCHANGED <<halted, mode>>
        PROVE  CommandReady'
    BY <1>2, PerformReady
  <1>3. ASSUME NEW v \in DmcontrolWrites, WriteDmcontrol(v) PROVE CommandReady'
    <2>1. abstractBuf' = abstractBuf /\ go' = go
      BY <1>3 DEF WriteDmcontrol
    <2>2. ASSUME NEW h \in Harts, go[h]
          PROVE  halted'[h] /\ mode'[h] = mode[h]
      <3>1. busy /\ halted[h]  BY <2>2 DEF ServiceInv, CommandOwnsHart, CommandReady
      <3>2. HartReset(v) = {}
        BY <1>3, <3>1 DEF WriteDmcontrol, Careful, CarefulDebugger
      <3>3. QED  BY <1>3, <3>1, <3>2 DEF WriteDmcontrol, StaysHalted
    <2>3. QED  BY <2>1, <2>2 DEF ServiceInv, CommandReady, Executing
  <1>4. command \in Commands /\ data \in Values  BY DEF ServiceInv, TypeOK
  <1>5. CASE Debugger
    <2>1. ASSUME NEW d \in Values, AccessData(d) PROVE CommandReady'
      BY <1>1, <1>2, <1>4, <2>1 DEF AccessData, stateVars, flagVars, hartVars
    <2>2. ASSUME NEW c \in Commands, WriteCommand(c) PROVE CommandReady'
      BY <1>2, <1>4, <2>2 DEF WriteCommand, stateVars, hartVars
    <2>3. CASE AccessProgbuf
      BY <1>2, <1>4, <2>3 DEF AccessProgbuf, stateVars, hartVars
    <2>4. CASE \/ \E active \in BOOLEAN : WriteDmactive(active)
               \/ \E e \in CmdErrs : WriteAbstractcs(e)
               \/ \E bits \in AutoexecWrites : WriteAbstractauto(bits)
               \/ \E harts \in HawindowWrites : WriteHawindow(harts)
               \/ \E right \in BOOLEAN : WriteAuthdata(right)
               \/ \E g \in Groups : WriteDmcs2(g)
               \/ RunTestIdle
      BY <1>1, <2>4 DEF WriteDmactive, WriteAbstractcs, WriteAbstractauto, WriteHawindow,
         WriteAuthdata, WriteDmcs2, RunTestIdle, stateVars, flagVars, cmdVars, hartVars
    <2>5. QED
      BY <1>3, <1>4, <1>5, <2>1, <2>2, <2>3, <2>4 DEF Debugger, ReadData, WriteData
  <1>6. ASSUME NEW h \in Harts, Quantum(h) PROVE CommandReady'
    <2>1. abstractBuf' = abstractBuf
      BY <1>6 DEF Quantum, RunCommand, RunResume, RunPark, RunBuffer, RunException,
         RunProgram, cmdVars
    <2>2. ASSUME NEW i \in Harts, go'[i]
          PROVE  go[i] /\ halted'[i] /\ mode'[i] \notin {"command", "trapped"}
      <3>1. go[i]
        BY <1>6, <2>2 DEF Quantum, RunCommand, RunResume, RunPark, RunBuffer,
           RunException, RunProgram, flagVars, ServiceInv, TypeOK
      <3>2. halted[i] /\ mode[i] \notin {"command", "trapped"}
        BY <3>1 DEF ServiceInv, CommandReady, Executing
      <3>3. ~ (i = h /\ RunResume(h))  BY <3>1 DEF RunResume, WantsResume
      <3>4. CASE i = h
        BY <1>6, <2>2, <3>1, <3>2, <3>3, <3>4 DEF Quantum, RunCommand, RunPark, RunBuffer,
           RunException, RunProgram, stateVars, ServiceInv, TypeOK
      <3>5. CASE i # h
        BY <1>6, <3>1, <3>2, <3>5, QuantumIsLocal DEF ServiceInv
      <3>6. QED  BY <3>1, <3>4, <3>5
    <2>3. QED  BY <2>1, <2>2 DEF ServiceInv, CommandReady, Executing
  <1>7. CASE UNCHANGED vars
    BY <1>1, <1>7 DEF vars, stateVars, flagVars, cmdVars, hartVars
  <1>8. QED  BY <1>5, <1>6, <1>7 DEF Next

(* The state of the service does not change with what it does not look at. *)
LEMMA ServiceStutters ==
  ASSUME UNCHANGED <<busy, go, mode, hartsel, abstractBuf, halted, reg, data,
                     cmderr>>
  PROVE  UNCHANGED Service!vars
  BY DEF Service!vars, Phase

(* Phases, by what the Debug Module and the harts are up to.               *)
LEMMA PhaseIs ==
  /\ Phase = "idle" <=> ~busy
  /\ busy /\ hartsel \in Harts /\ go[hartsel] => Phase = "issued"
  /\ busy /\ hartsel \in Harts /\ ~go[hartsel] /\ mode[hartsel] = "command"
       => Phase = "running"
  /\ busy /\ hartsel \in Harts /\ ~go[hartsel] /\ mode[hartsel] = "trapped"
       => Phase = "failing"
  /\ busy /\ (\A h \in Harts : ~go[h] /\ ~Executing(h)) => Phase = "done"
  BY DEF Phase, Executing

(* Without a command outstanding everything that the debugger does is a    *)
(* preparation.                                                            *)
LEMMA PreparesService ==
  ASSUME TypeOK, TypeOK', CommandReady', ~busy, ~busy',
         \A h \in Harts : /\ halted'[h] => halted[h]
                          /\ reg'[h] # reg[h] => ~halted'[h]
  PROVE  Service!Prepare
  <1>1. Phase = "idle" /\ Phase' = "idle"  BY DEF Phase
  <1>2. hartsel' \in Nat  BY ProcsAssumption DEF TypeOK, Selections
  <1>3. QED  BY <1>1, <1>2 DEF Service!Prepare, TypeOK, CommandReady

(* With one outstanding, an access that only touches the error code is the *)
(* debugger's meddling.                                                    *)
LEMMA MeddlesService ==
  ASSUME busy, cmderr' \in CmdErrs, cmderr = NONE => cmderr' \in {NONE, BUSY},
         UNCHANGED <<busy, go, mode, hartsel, abstractBuf, halted, reg, data>>
  PROVE  Service!Meddle
  <1>1. Phase # "idle" /\ Phase' = Phase  BY DEF Phase
  <1>2. QED  BY <1>1 DEF Service!Meddle

LEMMA PerformServes ==
  ASSUME ServiceInv, TypeOK', CommandReady', NEW c \in Commands, NEW d \in Values,
         PerformAbstractCommand(c, d), busy => d = data,
         UNCHANGED <<mode, hartsel, halted, reg>>
  PROVE  [Service!Next]_(Service!vars)
  <1>1. CASE busy
    <2>1. /\ cmderr' = IF cmderr = NONE THEN BUSY ELSE cmderr
          /\ UNCHANGED <<busy, go, abstractBuf, data>>
      BY <1>1 DEF PerformAbstractCommand
    <2>2. QED  BY <1>1, <2>1, MeddlesService DEF Service!Next, ServiceInv, TypeOK
  <1>2. CASE ~busy /\ ~busy'
    BY <1>2, PreparesService DEF ServiceInv, Service!Next
  <1>3. CASE ~busy /\ busy'
    <2>1. /\ CommandError(c) = NONE /\ abstractBuf' = c /\ data' = d
          /\ cmderr = NONE /\ cmderr' = cmderr
          /\ go' = [go EXCEPT ![hartsel] = TRUE]
      BY <1>3 DEF PerformAbstractCommand
    <2>2. hartsel \in Harts /\ halted[hartsel]  BY <2>1, AcceptedCommandHalted
    <2>3. go'[hartsel]  BY <2>1, <2>2 DEF ServiceInv, TypeOK
    <2>4. Phase = "idle" /\ Phase' = "issued"
      BY <1>3, <2>2, <2>3 DEF Phase
    <2>5. Service!Issue
      BY <2>1, <2>2, <2>4 DEF Service!Issue
    <2>6. QED  BY <2>5 DEF Service!Next
  <1>4. QED
    BY <1>1, <1>2, <1>3

(* The debugger's accesses.                                                *)
LEMMA DebuggerServes ==
  ASSUME CarefulDebugger, ServiceInv, TypeOK', CommandReady', Debugger
  PROVE  [Service!Next]_(Service!vars)
  <1>1. ASSUME NEW active \in BOOLEAN, WriteDmactive(active)
        PROVE  [Service!Next]_(Service!vars)
    <2>1. UNCHANGED <<go, mode, abstractBuf, halted, reg, data>>
      BY <1>1 DEF WriteDmactive, stateVars, flagVars
    <2>2. CASE busy
      <3>1. ~Rises(active)
        BY <1>1, <2>2 DEF WriteDmactive, CarefulActive, CarefulDebugger, Rises
      <3>2. busy' = busy /\ hartsel' = hartsel /\ cmderr' = cmderr
        BY <1>1, <3>1 DEF WriteDmactive, ResetRegisters
      <3>3. QED  BY <2>1, <3>2, ServiceStutters
    <2>3. CASE ~busy
      <3>1. ~busy'  BY <1>1, <2>3 DEF WriteDmactive, ResetRegisters
      <3>2. QED  BY <2>1, <2>3, <3>1, PreparesService DEF ServiceInv, Service!Next
    <2>4. QED  BY <2>2, <2>3
  <1>2. ASSUME NEW v \in DmcontrolWrites, WriteDmcontrol(v)
        PROVE  [Service!Next]_(Service!vars)
    <2>1. UNCHANGED <<go, abstractBuf, data>>
      BY <1>2 DEF WriteDmcontrol
    <2>2. CASE busy
      <3>1. HartReset(v) = {} /\ v.hartsel = hartsel /\ (v.dmactive => ~Rises(v.dmactive))
        BY <1>2, <2>2 DEF WriteDmcontrol, Careful, CarefulActive, CarefulDebugger, Rises
      <3>2. v.dmactive  BY DEF DmcontrolWrites
      <3>3. busy' = busy /\ hartsel' = hartsel /\ cmderr' = cmderr
        BY <1>2, <3>1, <3>2 DEF WriteDmcontrol, ResetRegisters
      <3>4. mode' = mode /\ halted' = halted /\ reg' = reg
        BY <1>2, <3>1 DEF WriteDmcontrol, StaysHalted, ServiceInv, TypeOK
      <3>5. QED  BY <2>1, <3>3, <3>4, ServiceStutters
    <2>3. CASE ~busy
      <3>1. ~busy'  BY <1>2, <2>3 DEF WriteDmcontrol, ResetRegisters
      <3>2. \A h \in Harts : /\ halted'[h] => halted[h]
                             /\ reg'[h] # reg[h] => ~halted'[h]
        BY <1>2 DEF WriteDmcontrol, StaysHalted
      <3>3. QED  BY <2>3, <3>1, <3>2, PreparesService DEF ServiceInv, Service!Next
    <2>4. QED  BY <2>2, <2>3
  <1>3. command \in Commands /\ data \in Values  BY DEF ServiceInv, TypeOK
  <1>4. ASSUME NEW c \in Commands, WriteCommand(c) PROVE [Service!Next]_(Service!vars)
    BY <1>3, <1>4, PerformServes DEF WriteCommand, hartVars, stateVars, selVars
  <1>5. ASSUME NEW d \in Values, AccessData(d) PROVE [Service!Next]_(Service!vars)
    <2>1. CASE busy
      <3>1. /\ cmderr' = IF cmderr = NONE THEN BUSY ELSE cmderr
            /\ UNCHANGED <<busy, go, mode, hartsel, abstractBuf, halted, reg, data>>
        BY <1>5, <2>1 DEF AccessData, hartVars, stateVars, flagVars, selVars
      <3>2. QED  BY <2>1, <3>1, MeddlesService DEF Service!Next, TypeOK
    <2>2. CASE ~busy /\ "data" \in autoexec
      BY <1>3, <1>5, <2>2, PerformServes DEF AccessData, hartVars, stateVars, selVars
    <2>3. CASE ~busy /\ "data" \notin autoexec
      <3>1. ~busy' /\ UNCHANGED <<halted, reg>>
        BY <1>5, <2>3 DEF AccessData, hartVars, stateVars
      <3>2. QED  BY <2>3, <3>1, PreparesService DEF ServiceInv, Service!Next
    <2>4. QED  BY <2>1, <2>2, <2>3
  <1>6. CASE AccessProgbuf
    BY <1>3, <1>6, PerformServes DEF AccessProgbuf, hartVars, stateVars, selVars
  <1>7. CASE \/ \E bits \in AutoexecWrites : WriteAbstractauto(bits)
             \/ \E harts \in HawindowWrites : WriteHawindow(harts)
             \/ \E right \in BOOLEAN : WriteAuthdata(right)
             \/ \E g \in Groups : WriteDmcs2(g)
    <2>1. UNCHANGED <<busy, go, mode, hartsel, abstractBuf, halted, reg, data, cmderr>>
      BY <1>7 DEF WriteAbstractauto, WriteHawindow, WriteAuthdata,
                  WriteDmcs2, hartVars, stateVars, flagVars, selVars, cmdVars
    <2>2. QED  BY <2>1, ServiceStutters
  <1>8. ASSUME NEW e \in CmdErrs, WriteAbstractcs(e)
         PROVE  [Service!Next]_(Service!vars)
    <2>1. /\ cmderr' = e
          /\ UNCHANGED <<busy, go, mode, hartsel, abstractBuf, halted, reg, data>>
      BY <1>8 DEF WriteAbstractcs, hartVars, stateVars, flagVars, selVars
    <2>2. CASE busy
      <3>1. cmderr = NONE => e = NONE
        BY <1>8 DEF WriteAbstractcs, ClearedErrors, NONE, EXCEPTION
      <3>2. QED  BY <2>1, <2>2, <3>1, MeddlesService DEF Service!Next
    <2>3. CASE ~busy
      BY <2>1, <2>3, PreparesService DEF ServiceInv, Service!Next
    <2>4. QED  BY <2>2, <2>3
  <1>9. CASE RunTestIdle
    <2>1. UNCHANGED <<go, mode, hartsel, abstractBuf, halted, reg, data, cmderr>>
      BY <1>9 DEF RunTestIdle, hartVars, stateVars, flagVars, selVars
    <2>2. CASE busy' = busy  BY <2>1, <2>2, ServiceStutters
    <2>3. CASE busy /\ ~busy' /\ completed
      <3>1. \A h \in Harts : ~go[h] /\ ~Executing(h)
        BY <2>3 DEF ServiceInv, CommandOwnsHart
      <3>2. Phase = "done"  BY <2>3, <3>1, PhaseIs
      <3>3. Phase' = "idle"  BY <2>3 DEF Phase
      <3>4. QED  BY <2>1, <3>2, <3>3 DEF Service!Complete, Service!Next
    <2>4. busy' = (busy /\ ~(rtiRemaining' = 0 /\ completed))  BY <1>9 DEF RunTestIdle
    <2>5. QED  BY <2>2, <2>3, <2>4 DEF ServiceInv, TypeOK
  <1>10. ReadData => AccessData(data) /\ data \in Values  BY <1>3 DEF ReadData
  <1>11. \A d \in Values : WriteData(d) => AccessData(d)  BY DEF WriteData
  <1>12. QED
    BY <1>1, <1>2, <1>4, <1>5, <1>6, <1>7, <1>8, <1>9, <1>10, <1>11 DEF Debugger

(* A quantum of a hart performs the command it was given, goes on with it, *)
(* or is none of the command's business.                                   *)
LEMMA QuantumServes ==
  ASSUME ServiceInv, TypeOK', NEW h \in Harts, Quantum(h)
  PROVE  [Service!Next]_(Service!vars)
  <1>1. /\ go[h] \/ Executing(h) => busy /\ hartsel = h
        /\ go[h] => halted[h] /\ ~Executing(h) /\ abstractBuf \in HartCommands
        /\ halted[h] <=> mode[h] # "program"
    BY DEF ServiceInv, CommandOwnsHart, CommandReady, HaltedIffDebugMode, InDebugMode
  <1>2. UNCHANGED <<busy, hartsel, abstractBuf>>
    BY DEF Quantum, RunCommand, RunResume, RunPark, RunBuffer, RunException,
           RunProgram, selVars, cmdVars
  <1>3. \A i \in Harts \ {h} :
          mode'[i] = mode[i] /\ halted'[i] = halted[i] /\ reg'[i] = reg[i]
    <2>1. \A i \in Harts \ {h} : mode'[i] = mode[i] /\ halted'[i] = halted[i]
      BY QuantumIsLocal DEF ServiceInv
    <2>2. reg' = reg \/ \E r \in Values : reg' = [reg EXCEPT ![h] = r]
      BY DEF Quantum, RunCommand, RunResume, RunPark, RunBuffer, RunException,
             RunProgram, SetRegister, RegisterAfter
    <2>3. QED  BY <2>1, <2>2 DEF ServiceInv, TypeOK
  <1>4. CASE RunCommand(h)
    <2>1. go[h] /\ hartsel = h /\ busy /\ halted[h]  BY <1>1, <1>4 DEF RunCommand
    <2>2. Phase = "issued"  BY <2>1 DEF Phase
    <2>3. ~go'[h] /\ mode'[h] \in Outcomes(abstractBuf)
      BY <1>4, OutcomesInDebugMode DEF RunCommand, ServiceInv, TypeOK
    <2>4. Phase' = IF mode'[h] = "parked" THEN "done"
                   ELSE IF mode'[h] = "command" THEN "running" ELSE "failing"
      BY <1>2, <2>1, <2>3, OutcomesInDebugMode DEF Phase
    <2>5. Phase' \in IF abstractBuf = "exec" THEN {"running", "failing", "done"}
                     ELSE IF abstractBuf = "badcsr" THEN {"failing"} ELSE {"done"}
      BY <1>1, <2>1, <2>3, <2>4 DEF Outcomes, HartCommands
    <2>6. halted' = halted /\ cmderr' = cmderr
      BY <1>4, <2>1 DEF RunCommand, ServiceInv, TypeOK
    <2>7. data' \in IF abstractBuf = "exec" THEN Values
                    ELSE IF abstractBuf = "read" THEN {reg[h]} ELSE {data}
      BY <1>4 DEF RunCommand, DataAfter
    <2>8. /\ abstractBuf = "write" => reg'[h] = data
          /\ abstractBuf \in {"read", "badcsr"} => reg'[h] = reg[h]
      BY <1>4 DEF RunCommand, SetRegister, RegisterAfter, ServiceInv, TypeOK
    <2>9. Service!Perform
      BY <1>2, <1>3, <2>1, <2>2, <2>5, <2>6, <2>7, <2>8
         DEF Service!Perform, Service!OthersKeep, Service!BufferPhases
    <2>10. QED  BY <2>9 DEF Service!Next
  <1>5. CASE RunResume(h) \/ RunPark(h) \/ RunProgram(h)
    <2>1. ~go[h] /\ ~Executing(h)
      BY <1>1, <1>5 DEF RunResume, WantsResume, RunPark, RunProgram, EntersRom, Executing
    <2>2. go' = go /\ data' = data /\ cmderr' = cmderr /\ ~Executing(h)'
      BY <1>5 DEF RunResume, RunPark, RunProgram, Executing, flagVars, cmdVars,
                  ServiceInv, TypeOK
    <2>3. \A i \in Harts : /\ (mode'[i] = "command") = (mode[i] = "command")
                          /\ (mode'[i] = "trapped") = (mode[i] = "trapped")
      BY <1>3, <2>1, <2>2 DEF Executing
    <2>4. Phase' = Phase  BY <1>2, <2>2, <2>3 DEF Phase
    <2>5. h = hartsel => Phase \in {"idle", "done"}  BY <2>1 DEF Phase, Executing
    <2>6. halted[h] /\ halted'[h] => reg'[h] = reg[h]
      <3>1. CASE RunResume(h)
        BY <3>1 DEF RunResume, StoreResuming, ServiceInv, TypeOK
      <3>2. CASE RunPark(h)  BY <3>2 DEF RunPark
      <3>3. CASE RunProgram(h)  BY <1>1, <3>3 DEF RunProgram
      <3>4. QED  BY <1>5, <3>1, <3>2, <3>3
    <2>7. Service!HartStep(h)
      BY <1>2, <1>3, <2>2, <2>4, <2>5, <2>6 DEF Service!HartStep, Service!OthersKeep
    <2>8. QED  BY <2>7 DEF Service!Next
  <1>6. CASE RunBuffer(h)
    <2>1. mode[h] = "command" /\ ~go[h] /\ busy /\ hartsel = h
      BY <1>1, <1>6 DEF RunBuffer, Executing
    <2>2. /\ go' = go /\ halted' = halted /\ cmderr' = cmderr
          /\ data' \in Values
          /\ mode'[h] \in {"parked", "command", "trapped"}
      BY <1>6, DataAfterType, OutcomesInDebugMode
         DEF RunBuffer, flagVars, stateVars, ServiceInv, TypeOK
    <2>3. Phase = "running"  BY <2>1 DEF Phase
    <2>4. Phase' \in {"running", "failing", "done"}
      BY <1>2, <2>1, <2>2 DEF Phase
    <2>5. Service!Continue
      BY <1>2, <1>3, <2>1, <2>2, <2>3, <2>4
         DEF Service!Continue, Service!OthersKeep, Service!BufferPhases
    <2>6. QED  BY <2>5 DEF Service!Next
  <1>7. CASE RunException(h)
    <2>1. mode[h] = "trapped" /\ ~go[h] /\ busy /\ hartsel = h
      BY <1>1, <1>7 DEF RunException, Executing
    <2>2. /\ UNCHANGED <<go, halted, data, reg>>
          /\ cmderr' = IF cmderr = NONE THEN EXCEPTION ELSE cmderr
          /\ mode'[h] = "parked"
      BY <1>7 DEF RunException, flagVars, stateVars, ServiceInv, TypeOK
    <2>3. Phase = "failing" /\ Phase' = "done"
      BY <1>2, <2>1, <2>2 DEF Phase
    <2>4. Service!Fail  BY <1>2, <2>2, <2>3 DEF Service!Fail
    <2>5. QED  BY <2>4 DEF Service!Next
  <1>8. QED  BY <1>4, <1>5, <1>6, <1>7 DEF Quantum

(* With a careful debugger the Debug Module, the ROM and the harts behave  *)
(* as the service that performs each abstract command once, on the hart    *)
(* selected when it was issued, with the data left for it unless its own   *)
(* program buffer stores there, and reports one that ends in an exception. *)
THEOREM CommandServiceImplemented ==
  ASSUME CarefulDebugger PROVE Spec => ProvidesCommandService
  <1>1. Init => Service!Init
    <2>1. SUFFICES ASSUME Init PROVE Service!Init  OBVIOUS
    <2>2. Phase = "idle"  BY <2>1 DEF Init, Phase
    <2>3. NONE \in CmdErrs  BY DEF CmdErrs, NONE, HALTRESUME
    <2>4. QED  BY <2>1, <2>2, <2>3, ValuesAssumption DEF Init, Service!Init
  <1>2. Init => CommandReady
    BY DEF Init, CommandReady
  <1>3. TypeOK /\ HaltedIffDebugMode /\ CommandOwnsHart /\ CommandReady /\ [Next]_vars
          => CommandReady'
    BY ReadyKept DEF ServiceInv
  <1>4. TypeOK /\ TypeOK' /\ HaltedIffDebugMode /\ CommandOwnsHart /\ CommandReady
          /\ CommandReady' /\ [Next]_vars => [Service!Next]_(Service!vars)
    <2>1. SUFFICES ASSUME ServiceInv, TypeOK', CommandReady', [Next]_vars
                   PROVE  [Service!Next]_(Service!vars)
      BY DEF ServiceInv
    <2>2. CASE Debugger  BY <2>1, <2>2, DebuggerServes
    <2>3. ASSUME NEW h \in Harts, Quantum(h) PROVE [Service!Next]_(Service!vars)
      BY <2>1, <2>3, QuantumServes
    <2>4. CASE UNCHANGED vars
      BY <2>4, ServiceStutters
         DEF vars, hartVars, stateVars, flagVars, selVars, cmdVars
    <2>5. QED  BY <2>1, <2>2, <2>3, <2>4 DEF Next
  <1>5. "reselect" \notin Liberties /\ "dmreset" \notin Liberties
    BY DEF CarefulDebugger
  <1>6. Spec => []CommandOwnsHart  BY <1>5, CommandOwnership
  <1>7. QED
    BY <1>1, <1>2, <1>3, <1>4, <1>6, TypeCorrect, HaltedTruthful, PTL
       DEF Spec, ProvidesCommandService, Service!Spec
=============================================================================
