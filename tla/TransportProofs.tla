-------------------------- MODULE TransportProofs ---------------------------
(***************************************************************************)
(* Theorems about the JTAG transport of JtagDtm, for every number of       *)
(* cycles that it requires in Run-Test/Idle, about the coroutines of       *)
(* Context, for any number of contexts, and about the socket of            *)
(* RemoteBitbang, for buffers of any size.                                 *)
(***************************************************************************)
EXTENDS MCTransport, TLAPS

(***************************************************************************)
(* The JTAG transport                                                      *)
(***************************************************************************)

(* What the table of the state machine says about scans of a data register *)
LEMMA TapMoves ==
  ASSUME NEW s \in TapStates, NEW k \in {1, 2}
  PROVE  /\ TapNext[s][k] \in TapStates
         /\ TapNext[s][k] \in InDrScan \ {"CAPTURE_DR"} => s \in InDrScan \ {"UPDATE_DR"}
         /\ s \in InDrScan \ {"UPDATE_DR"} => TapNext[s][k] \in InDrScan \ {"CAPTURE_DR"}
         /\ s = "SHIFT_IR" => TapNext[s][k] # "CAPTURE_DR"
<1>1. TapStates = {"TEST_LOGIC_RESET", "RUN_TEST_IDLE",
                   "SELECT_DR_SCAN", "CAPTURE_DR", "SHIFT_DR", "EXIT1_DR",
                   "PAUSE_DR", "EXIT2_DR", "UPDATE_DR",
                   "SELECT_IR_SCAN", "CAPTURE_IR", "SHIFT_IR", "EXIT1_IR",
                   "PAUSE_IR", "EXIT2_IR", "UPDATE_IR"}
  BY DEF TapStates, TapNext
<1>2. CASE s \in {"TEST_LOGIC_RESET", "RUN_TEST_IDLE"}
  BY <1>1, <1>2 DEF TapNext, InDrScan
<1>3. CASE s \in {"SELECT_DR_SCAN", "CAPTURE_DR", "SHIFT_DR", "EXIT1_DR"}
  BY <1>1, <1>3 DEF TapNext, InDrScan
<1>4. CASE s \in {"PAUSE_DR", "EXIT2_DR", "UPDATE_DR"}
  BY <1>1, <1>4 DEF TapNext, InDrScan
<1>5. CASE s \in {"SELECT_IR_SCAN", "CAPTURE_IR", "SHIFT_IR", "EXIT1_IR"}
  BY <1>1, <1>5 DEF TapNext, InDrScan
<1>6. CASE s \in {"PAUSE_IR", "EXIT2_IR", "UPDATE_IR"}
  BY <1>1, <1>6 DEF TapNext, InDrScan
<1> QED
  BY <1>1, <1>2, <1>3, <1>4, <1>5, <1>6

LEMMA ScanStatesPass ==
  /\ "CAPTURE_DR" \in TapStates \ Stable /\ "UPDATE_DR" \in TapStates \ Stable
  /\ "TEST_LOGIC_RESET" \in TapStates
  BY DEF TapStates, Stable, TapNext
-----------------------------------------------------------------------------
(* One bound more than the cycles are worth, for the falling edge to come *)
Due == IF tap = "RUN_TEST_IDLE" /\ tck THEN 1 ELSE 0

(* While a scan of DBUS is under way the instruction register stays, and   *)
(* busy_stuck says what the scan captured; its access comes at the falling *)
(* edge in Update-DR, which is the only one there.  Once the transport has *)
(* been reset, what remains to be idled is what has not been idled.        *)
ScanInv ==
  /\ scan \in {"granted", "busy"} /\ tap \in InDrScan => ir = "DBUS" /\ (busyStuck <=> scan = "busy")
  /\ tap = "CAPTURE_DR" => performed = 0
  /\ scan = "busy" => performed = 0
  /\ scan = "granted" => performed = IF tap \in InDrScan \ {"UPDATE_DR"} \/ (tap = "UPDATE_DR" /\ tck)
                                      THEN 0 ELSE 1

RtiInv == initialised => rtiRemaining + idled <= RequiredRtiCycles + Due

JtagInv == JtagTypeOK /\ ScanInv /\ RtiInv

(* Values that belong to their types *)
LEMMA JtagConstants ==
  /\ 0 \in 0 .. RequiredRtiCycles /\ 0 \in 0 .. 2
  /\ {0, RequiredRtiCycles} \cup (0 .. Garbage) \subseteq 0 .. RequiredRtiCycles + Garbage
  /\ {0, SUCCESS, FAILED, BUSY} \subseteq Words
  BY JtagAssumption DEF Words, SUCCESS, FAILED, BUSY

LEMMA JtagInitInv == JtagInit => JtagInv
<1> SUFFICES ASSUME JtagInit PROVE JtagInv
  OBVIOUS
<1>1. JtagTypeOK
  BY JtagConstants, ScanStatesPass, Zenon DEF JtagInit, JtagTypeOK
<1> QED
  BY <1>1 DEF JtagInit, JtagInv, ScanInv, RtiInv, InDrScan

LEMMA RisingEdgeInv ==
  ASSUME JtagInv, NEW tms \in BOOLEAN, RisingEdge(tms)
  PROVE  JtagInv'
<1> USE JtagAssumption
<1> DEFINE k == IF tms THEN 2 ELSE 1
<1>1. /\ tap \in TapStates /\ k \in {1, 2}
      /\ tap' = TapNext[tap][k] /\ ~tck /\ tck' = TRUE
  BY DEF JtagInv, JtagTypeOK, RisingEdge
<1>2. /\ tap' \in TapStates
      /\ tap' \in InDrScan \ {"CAPTURE_DR"} => tap \in InDrScan \ {"UPDATE_DR"}
      /\ tap \in InDrScan \ {"UPDATE_DR"} => tap' \in InDrScan \ {"CAPTURE_DR"}
      /\ tap = "SHIFT_IR" => tap' # "CAPTURE_DR"
  <2> HIDE DEF k
  <2> QED
    BY <1>1, TapMoves
<1>3. dr' \in Words /\ ir' \in Irs
  BY DEF RisingEdge, JtagInv, JtagTypeOK
<1>4. /\ tap' = "CAPTURE_DR" => scan' = "none" /\ performed' = 0
      /\ tap' # "CAPTURE_DR" => scan' = scan /\ performed' = performed
      /\ tap # "SHIFT_IR" => ir' = ir
      /\ UNCHANGED <<dmi, rtiRemaining, busyStuck, initialised>>
  BY DEF RisingEdge
<1>5. /\ idled' \in 0 .. RequiredRtiCycles
      /\ idled' <= idled + (IF tap' = "RUN_TEST_IDLE" THEN 1 ELSE 0)
  BY DEF RisingEdge, Least, JtagInv, JtagTypeOK
<1>6. JtagTypeOK'
  BY <1>1, <1>2, <1>3, <1>4, <1>5 DEF JtagInv, JtagTypeOK
<1>7. ScanInv'
  BY <1>1, <1>2, <1>4 DEF JtagInv, ScanInv, InDrScan
<1>8. RtiInv'
  <2>1. Due = 0
    BY <1>1 DEF Due
  <2>2. Due' = IF tap' = "RUN_TEST_IDLE" THEN 1 ELSE 0
    BY <1>1 DEF Due
  <2>3. /\ idled' <= idled + Due' /\ Due' \in {0, 1}
        /\ rtiRemaining \in Nat /\ idled \in Nat /\ idled' \in Nat
    BY <1>5, <2>2 DEF JtagInv, JtagTypeOK
  <2>4. ASSUME initialised PROVE rtiRemaining + idled' <= RequiredRtiCycles + Due'
    <3>1. rtiRemaining + idled <= RequiredRtiCycles
      BY <2>1, <2>3, <2>4 DEF JtagInv, RtiInv
    <3>2. Due' \in Nat
      BY <2>3
    <3>3. \A a, b, c, d, r \in Nat : a + b <= r /\ c <= b + d => a + c <= r + d
      OBVIOUS
    <3> QED
      BY <2>3, <3>1, <3>2, <3>3
  <2> QED
    BY <1>4, <2>4, Zenon DEF RtiInv
<1> QED
  BY <1>6, <1>7, <1>8 DEF JtagInv

(* reset, by command or by dmihardreset *)
LEMMA ResetTapInv ==
  ASSUME JtagInv, ResetTap, UNCHANGED <<ir, dr, performed, idled>>, tck' \in BOOLEAN
  PROVE  JtagInv'
<1>1. JtagTypeOK'
  BY JtagConstants, ScanStatesPass, Zenon DEF ResetTap, JtagInv, JtagTypeOK
<1>2. ScanInv' /\ RtiInv'
  BY JtagAssumption DEF ResetTap, JtagInv, JtagTypeOK, ScanInv, RtiInv, Due, InDrScan
<1> QED
  BY <1>1, <1>2 DEF JtagInv

LEMMA CaptureInv ==
  ASSUME JtagInv, tap = "CAPTURE_DR", Capture, tck' \in BOOLEAN
  PROVE  JtagInv'
<1> USE JtagAssumption
<1>1. /\ UNCHANGED <<tap, ir, dmi, rtiRemaining, performed, idled, initialised>>
      /\ dr' \in Words /\ busyStuck' \in BOOLEAN /\ scan' \in {"none", "granted", "busy"}
      /\ ir = "DBUS" => scan' = (IF busyStuck' THEN "busy" ELSE "granted")
      /\ ir # "DBUS" => UNCHANGED <<busyStuck, scan>>
  <2>1. CASE ir = "DBUS"
    <3>1. /\ busyStuck' = (rtiRemaining > 0 \/ busyStuck)
          /\ dr' = IF busyStuck' THEN BUSY ELSE dmi
          /\ scan' = IF busyStuck' THEN "busy" ELSE "granted"
          /\ UNCHANGED <<tap, ir, dmi, rtiRemaining, performed, idled, initialised>>
      BY <2>1 DEF Capture
    <3>2. busyStuck' \in BOOLEAN
      BY <3>1, Zenon
    <3>3. dr' \in Words
      BY <3>1 DEF JtagInv, JtagTypeOK, Words, BUSY
    <3> QED
      BY <2>1, <3>1, <3>2, <3>3
  <2>2. CASE ir = "DTMCONTROL"
    BY <2>2 DEF Capture, JtagInv, JtagTypeOK, Words
  <2>3. CASE ir \notin {"DBUS", "DTMCONTROL"}
    BY <2>3 DEF Capture, JtagInv, JtagTypeOK
  <2> QED
    BY <2>1, <2>2, <2>3
<1>2. JtagTypeOK'
  BY <1>1 DEF JtagInv, JtagTypeOK
<1>3. ScanInv'
  BY <1>1 DEF JtagInv, ScanInv, InDrScan
<1>4. RtiInv'
  BY <1>1 DEF JtagInv, RtiInv, Due
<1> QED
  BY <1>2, <1>3, <1>4 DEF JtagInv

LEMMA UpdateInv ==
  ASSUME JtagInv, tap = "UPDATE_DR", tck, tck' = FALSE, Update
  PROVE  JtagInv'
<1> USE JtagAssumption
<1>1. CASE ir = "DBUS" /\ ~busyStuck
  <2>1. Access
    BY <1>1 DEF Update
  <2>2. /\ dmi' \in Words /\ rtiRemaining' = RequiredRtiCycles /\ idled' = 0
        /\ performed' = Least(performed + 1, 2)
        /\ UNCHANGED <<tap, ir, dr, busyStuck, scan, initialised>>
    BY <2>1 DEF Access, Words, SUCCESS, FAILED
  <2>3. performed' \in 0 .. 2 /\ (performed = 0 => performed' = 1)
    BY <2>2 DEF JtagInv, JtagTypeOK, Least
  <2>4. JtagTypeOK'
    BY <2>2, <2>3, JtagConstants, Zenon DEF JtagInv, JtagTypeOK
  <2>5. ScanInv'
    BY <1>1, <2>2, <2>3 DEF JtagInv, JtagTypeOK, ScanInv, InDrScan
  <2>6. RtiInv'
    BY <2>2 DEF RtiInv, Due
  <2> QED
    BY <2>4, <2>5, <2>6 DEF JtagInv
<1>2. CASE ir = "DTMCONTROL"
  <2>1. Control
    BY <1>2 DEF Update
  <2>2. CASE DmiHardReset(dr)
    BY <2>1, <2>2, ResetTapInv DEF Control
  <2>3. CASE ~DmiHardReset(dr)
    <3>1. /\ busyStuck' \in BOOLEAN
          /\ UNCHANGED <<tap, rtiRemaining, dmi, scan, initialised, ir, dr, performed, idled>>
      BY <2>1, <2>3 DEF Control
    <3>2. scan = "none"
      BY <1>2 DEF JtagInv, JtagTypeOK, ScanInv, InDrScan
    <3> QED
      BY <3>1, <3>2 DEF JtagInv, JtagTypeOK, ScanInv, RtiInv, Due
  <2> QED
    BY <2>2, <2>3
<1>3. CASE ~(ir = "DBUS" /\ ~busyStuck) /\ ir # "DTMCONTROL"
  <2>1. UNCHANGED <<tap, ir, dr, dmi, rtiRemaining, busyStuck, scan, performed, idled, initialised>>
    BY <1>3 DEF Update, exceptClock
  <2>2. scan # "granted"
    BY <1>3 DEF JtagInv, ScanInv, InDrScan
  <2> QED
    BY <2>1, <2>2 DEF JtagInv, JtagTypeOK, ScanInv, RtiInv, Due
<1> QED
  BY <1>1, <1>2, <1>3

LEMMA FallingEdgeInv ==
  ASSUME JtagInv, NEW level \in BOOLEAN, FallingEdge(level)
  PROVE  JtagInv'
<1> USE JtagAssumption
<1>1. /\ tck \/ ~level
      /\ level = tck => tap \in Stable
      /\ tck' = level
  BY DEF FallingEdge
<1>2. tap \in {"CAPTURE_DR", "UPDATE_DR"} => tck /\ tck' = FALSE
  BY <1>1, ScanStatesPass DEF JtagInv, JtagTypeOK
<1>3. CASE tap = "RUN_TEST_IDLE"
  <2>1. /\ rtiRemaining' = IF rtiRemaining > 0 THEN rtiRemaining - 1 ELSE 0
        /\ UNCHANGED <<tap, ir, dr, dmi, busyStuck, scan, performed, idled, initialised>>
    BY <1>3 DEF FallingEdge, CountedDown
  <2>2. JtagTypeOK'
    BY <1>1, <2>1 DEF JtagInv, JtagTypeOK
  <2>3. ScanInv'
    BY <1>3, <2>1 DEF JtagInv, ScanInv, InDrScan
  <2>4. RtiInv'
    <3>1. ASSUME tck PROVE RtiInv'
      BY <1>3, <2>1, <3>1 DEF JtagInv, JtagTypeOK, RtiInv, Due
    <3>2. ASSUME ~tck PROVE RtiInv'
      BY <1>1, <1>3, <2>1, <3>2 DEF JtagInv, JtagTypeOK, RtiInv, Due
    <3> QED
      BY <3>1, <3>2
  <2> QED
    BY <2>2, <2>3, <2>4 DEF JtagInv
<1>4. CASE tap = "TEST_LOGIC_RESET"
  <2>1. ir' = "IDCODE" /\ UNCHANGED <<tap, dr, dmi, rtiRemaining, busyStuck, scan, performed, idled, initialised>>
    BY <1>4 DEF FallingEdge
  <2>2. JtagTypeOK'
    BY <1>1, <2>1 DEF JtagInv, JtagTypeOK, Irs
  <2> QED
    BY <1>4, <2>1, <2>2 DEF JtagInv, ScanInv, RtiInv, Due, InDrScan
<1>5. CASE tap = "CAPTURE_DR"
  BY <1>1, <1>5, CaptureInv DEF FallingEdge
<1>6. CASE tap = "UPDATE_DR"
  BY <1>2, <1>6, UpdateInv DEF FallingEdge
<1>7. CASE tap \notin {"RUN_TEST_IDLE", "TEST_LOGIC_RESET", "CAPTURE_DR", "UPDATE_DR"}
  <2>1. UNCHANGED <<tap, ir, dr, dmi, rtiRemaining, busyStuck, scan, performed, idled, initialised>>
    BY <1>7 DEF FallingEdge, exceptClock
  <2> QED
    BY <1>1, <1>7, <2>1 DEF JtagInv, JtagTypeOK, ScanInv, RtiInv, Due
<1> QED
  BY <1>3, <1>4, <1>5, <1>6, <1>7

LEMMA JtagStepInv == JtagInv /\ [JtagNext]_jtagVars => JtagInv'
<1> SUFFICES ASSUME JtagInv, [JtagNext]_jtagVars PROVE JtagInv'
  OBVIOUS
<1>1. CASE ResetCommand
  BY <1>1, ResetTapInv DEF ResetCommand, JtagInv, JtagTypeOK
<1>2. CASE UNCHANGED jtagVars
  BY <1>2 DEF jtagVars, exceptClock, JtagInv, JtagTypeOK, ScanInv, RtiInv, Due
<1> QED
  BY <1>1, <1>2, RisingEdgeInv, FallingEdgeInv DEF JtagNext

(* The registers of the transport keep their types; rti_remaining stays in *)
(* the range that the constructor left it in or an access set.             *)
THEOREM JtagTypeCorrect == JtagSpec => []JtagTypeOK
<1>1. JtagInit => JtagInv
  BY JtagInitInv
<1>2. JtagInv /\ [JtagNext]_jtagVars => JtagInv'
  BY JtagStepInv
<1>3. JtagInv => JtagTypeOK
  BY DEF JtagInv
<1> QED
  BY <1>1, <1>2, <1>3, PTL DEF JtagSpec

(* A scan that was granted performs its access once, one that was refused  *)
(* none, whatever the debugger shifts and clocks.                          *)
THEOREM JtagAccessOncePerGrantedScan == JtagSpec => []AccessOncePerGrantedScan
<1>1. JtagInit => JtagInv
  BY JtagInitInv
<1>2. JtagInv /\ [JtagNext]_jtagVars => JtagInv'
  BY JtagStepInv
<1>3. JtagInv => AccessOncePerGrantedScan
  BY DEF JtagInv, ScanInv, AccessOncePerGrantedScan, InDrScan
<1> QED
  BY <1>1, <1>2, <1>3, PTL DEF JtagSpec

(* After a reset, the required cycles in Run-Test/Idle are enough, for     *)
(* every number that the transport may require.                            *)
THEOREM JtagIdlingSuffices == JtagSpec => IdlingSuffices
<1> DEFINE Promise == tap = "CAPTURE_DR" /\ tck /\ ~tck' /\ ir = "DBUS"
                      /\ initialised /\ ~busyStuck /\ idled = RequiredRtiCycles
                      => scan' = "granted"
<1>1. JtagInit => JtagInv
  BY JtagInitInv
<1>2. JtagInv /\ [JtagNext]_jtagVars => JtagInv'
  BY JtagStepInv
<1>3. JtagInv /\ [JtagNext]_jtagVars => [Promise]_jtagVars
  <2> SUFFICES ASSUME JtagInv, JtagNext,
                      tap = "CAPTURE_DR" /\ tck /\ ~tck' /\ ir = "DBUS",
                      initialised /\ ~busyStuck /\ idled = RequiredRtiCycles
               PROVE  scan' = "granted"
    BY DEF jtagVars, exceptClock
  <2>1. ~(rtiRemaining > 0)
    BY JtagAssumption DEF JtagInv, JtagTypeOK, RtiInv, Due
  <2>2. PICK level \in BOOLEAN : FallingEdge(level)
    BY DEF JtagNext, RisingEdge, ResetCommand
  <2>3. Capture
    BY <2>2 DEF FallingEdge
  <2> QED
    BY <2>1, <2>3 DEF Capture
<1> QED
  BY <1>1, <1>2, <1>3, PTL DEF JtagSpec, IdlingSuffices
-----------------------------------------------------------------------------
(***************************************************************************)
(* Coroutines: the processor is a token (HasProcessor)                     *)
(***************************************************************************)

(* Every thread is at one of the places of switch_to and init.             *)
LEMMA ContextStepType == ContextTypeOK /\ [ContextNext]_contextVars => ContextTypeOK'
<1> SUFFICES ASSUME ContextTypeOK, [ContextNext]_contextVars PROVE ContextTypeOK'
  OBVIOUS
<1> USE DEF ContextTypeOK, Places
<1>1. ASSUME NEW c \in Contexts, NEW t \in Contexts, CallSwitchTo(c, t) PROVE ContextTypeOK'
  BY <1>1 DEF CallSwitchTo, Move, Lock, Unlock
<1>2. ASSUME NEW c \in Contexts, NEW t \in Contexts, CallInit(c, t) PROVE ContextTypeOK'
  BY <1>2 DEF CallInit, Move, Lock, Unlock
<1>3. ASSUME NEW c \in Contexts, WakeSpuriously(c) PROVE ContextTypeOK'
  BY <1>3 DEF WakeSpuriously, Move, Lock, Unlock
<1>4. ASSUME NEW c \in Contexts, InitLock(c) PROVE ContextTypeOK'
  BY <1>4 DEF InitLock, Move, Lock, Unlock
<1>5. ASSUME NEW c \in Contexts, InitClear(c) PROVE ContextTypeOK'
  BY <1>5 DEF InitClear, Move, Lock, Unlock
<1>6. ASSUME NEW c \in Contexts, Create(c) PROVE ContextTypeOK'
  BY <1>6 DEF Create, Move, Lock, Unlock
<1>7. ASSUME NEW c \in Contexts, ClearFlag(c) PROVE ContextTypeOK'
  BY <1>7 DEF ClearFlag, Move, Lock, Unlock
<1>8. ASSUME NEW c \in Contexts, SetFlag(c) PROVE ContextTypeOK'
  BY <1>8 DEF SetFlag, Move, Lock, Unlock
<1>9. ASSUME NEW c \in Contexts, LockTarget(c) PROVE ContextTypeOK'
  BY <1>9 DEF LockTarget, Move, Lock, Unlock
<1>10. ASSUME NEW c \in Contexts, Signal(c) PROVE ContextTypeOK'
  BY <1>10 DEF Signal, Move, Lock, Unlock
<1>11. ASSUME NEW c \in Contexts, UnlockTarget(c) PROVE ContextTypeOK'
  BY <1>11 DEF UnlockTarget, Move, Lock, Unlock
<1>12. ASSUME NEW c \in Contexts, LockOwn(c) PROVE ContextTypeOK'
  BY <1>12 DEF LockOwn, Move, Lock, Unlock
<1>13. ASSUME NEW c \in Contexts, Test(c) PROVE ContextTypeOK'
  BY <1>13 DEF Test, Move, Lock, Unlock
<1>14. ASSUME NEW c \in Contexts, Wait(c) PROVE ContextTypeOK'
  BY <1>14 DEF Wait, Move, Lock, Unlock
<1>15. ASSUME NEW c \in Contexts, Relock(c) PROVE ContextTypeOK'
  BY <1>15 DEF Relock, Move, Lock, Unlock
<1>16. ASSUME NEW c \in Contexts, UnlockOwn(c) PROVE ContextTypeOK'
  BY <1>16 DEF UnlockOwn, Move, Lock, Unlock
<1>17. CASE UNCHANGED contextVars
  BY <1>17 DEF contextVars
<1> QED
  BY <1>1, <1>2, <1>3, <1>4, <1>5, <1>6, <1>7, <1>8, <1>9, 
     <1>10, <1>11, <1>12, <1>13, <1>14, <1>15, <1>16, <1>17
     DEF ContextNext, Proceed

(* Flags, locks, signals and the places of the threads keep their types.   *)
THEOREM ContextTypeCorrect == ContextSpec => []ContextTypeOK
<1>1. ContextInit => ContextTypeOK
  BY ContextAssumption DEF ContextInit, ContextTypeOK, Places
<1> QED
  BY <1>1, ContextStepType, PTL DEF ContextSpec

(* At most one context has the processor, and one has.                     *)
OneHasProcessor == \A c, d \in Contexts : HasProcessor(c) /\ HasProcessor(d) => c = d
SomeoneHasProcessor == \E c \in Contexts : HasProcessor(c)

(* It is the flag that lets a context run, and that is gone when it hands  *)
(* the processor over.                                                     *)
RunsByFlag ==
  \A c \in Contexts :
    /\ at[c] \in {"unlock own", "user", "init lock", "init clear"} => flag[c]
    /\ at[c] \in {"create", "set"} => ~flag[c]

(* A context switches to another one that there is, and creates one that   *)
(* there is not and that, as init asserts, has no flag.                    *)
TargetsMeant ==
  \A c \in Contexts :
    /\ at[c] \in {"clear", "set", "lock target", "signal", "unlock target"} =>
         target[c] # c /\ at[target[c]] # "uncreated"
    /\ at[c] \in {"init lock", "init clear", "create"} => at[target[c]] = "uncreated"
    /\ at[c] = "uncreated" => ~flag[c]

(* Which mutex a thread holds at which place                               *)
MutexHeld ==
  \A c \in Contexts :
    /\ at[c] \in {"init clear", "create", "test", "wait", "unlock own"} => mutex[c] = c
    /\ at[c] \in {"signal", "unlock target"} => mutex[target[c]] = c

ContextInv ==
  /\ ContextTypeOK /\ OneHasProcessor /\ SomeoneHasProcessor
  /\ RunsByFlag /\ TargetsMeant /\ MutexHeld /\ NoWakeupLost

LEMMA ContextStepProcessor == ContextTypeOK /\ OneHasProcessor /\ RunsByFlag /\ [ContextNext]_contextVars => (OneHasProcessor /\ RunsByFlag)'
<1> SUFFICES ASSUME ContextTypeOK /\ OneHasProcessor /\ RunsByFlag, [ContextNext]_contextVars PROVE (OneHasProcessor /\ RunsByFlag)'
  OBVIOUS
<1> USE DEF ContextTypeOK, OneHasProcessor, RunsByFlag, HasProcessor
<1>1. ASSUME NEW c \in Contexts, NEW t \in Contexts, CallSwitchTo(c, t) PROVE (OneHasProcessor /\ RunsByFlag)'
  BY <1>1 DEF CallSwitchTo, Move, Lock, Unlock
<1>2. ASSUME NEW c \in Contexts, NEW t \in Contexts, CallInit(c, t) PROVE (OneHasProcessor /\ RunsByFlag)'
  BY <1>2 DEF CallInit, Move, Lock, Unlock
<1>3. ASSUME NEW c \in Contexts, WakeSpuriously(c) PROVE (OneHasProcessor /\ RunsByFlag)'
  BY <1>3 DEF WakeSpuriously, Move, Lock, Unlock
<1>4. ASSUME NEW c \in Contexts, InitLock(c) PROVE (OneHasProcessor /\ RunsByFlag)'
  BY <1>4 DEF InitLock, Move, Lock, Unlock
<1>5. ASSUME NEW c \in Contexts, InitClear(c) PROVE (OneHasProcessor /\ RunsByFlag)'
  BY <1>5 DEF InitClear, Move, Lock, Unlock
<1>6. ASSUME NEW c \in Contexts, Create(c) PROVE (OneHasProcessor /\ RunsByFlag)'
  BY <1>6 DEF Create, Move, Lock, Unlock
<1>7. ASSUME NEW c \in Contexts, ClearFlag(c) PROVE (OneHasProcessor /\ RunsByFlag)'
  BY <1>7 DEF ClearFlag, Move, Lock, Unlock
<1>8. ASSUME NEW c \in Contexts, SetFlag(c) PROVE (OneHasProcessor /\ RunsByFlag)'
  BY <1>8 DEF SetFlag, Move, Lock, Unlock
<1>9. ASSUME NEW c \in Contexts, LockTarget(c) PROVE (OneHasProcessor /\ RunsByFlag)'
  BY <1>9 DEF LockTarget, Move, Lock, Unlock
<1>10. ASSUME NEW c \in Contexts, Signal(c) PROVE (OneHasProcessor /\ RunsByFlag)'
  BY <1>10 DEF Signal, Move, Lock, Unlock
<1>11. ASSUME NEW c \in Contexts, UnlockTarget(c) PROVE (OneHasProcessor /\ RunsByFlag)'
  BY <1>11 DEF UnlockTarget, Move, Lock, Unlock
<1>12. ASSUME NEW c \in Contexts, LockOwn(c) PROVE (OneHasProcessor /\ RunsByFlag)'
  BY <1>12 DEF LockOwn, Move, Lock, Unlock
<1>13. ASSUME NEW c \in Contexts, Test(c) PROVE (OneHasProcessor /\ RunsByFlag)'
  <2>1. flag' = flag /\ at[c] = "test"
    BY <1>13 DEF Test, Move
  <2>2. at' = [at EXCEPT ![c] = IF flag[c] THEN "unlock own" ELSE "wait"]
    BY <1>13 DEF Test, Move
  <2>3. ASSUME NEW d \in Contexts
        PROVE  /\ flag'[d] = flag[d]
               /\ at'[d] = IF d = c THEN (IF flag[c] THEN "unlock own" ELSE "wait") ELSE at[d]
    BY <2>1, <2>2
  <2>4. \A d \in Contexts : HasProcessor(d)' => HasProcessor(d)
    BY <2>3
  <2> QED
    BY <2>3, <2>4
<1>14. ASSUME NEW c \in Contexts, Wait(c) PROVE (OneHasProcessor /\ RunsByFlag)'
  BY <1>14 DEF Wait, Move, Lock, Unlock
<1>15. ASSUME NEW c \in Contexts, Relock(c) PROVE (OneHasProcessor /\ RunsByFlag)'
  BY <1>15 DEF Relock, Move, Lock, Unlock
<1>16. ASSUME NEW c \in Contexts, UnlockOwn(c) PROVE (OneHasProcessor /\ RunsByFlag)'
  BY <1>16 DEF UnlockOwn, Move, Lock, Unlock
<1>17. CASE UNCHANGED contextVars
  BY <1>17 DEF contextVars
<1> QED
  BY <1>1, <1>2, <1>3, <1>4, <1>5, <1>6, <1>7, <1>8, <1>9, 
     <1>10, <1>11, <1>12, <1>13, <1>14, <1>15, <1>16, <1>17
     DEF ContextNext, Proceed

LEMMA ContextStepSomeone == ContextTypeOK /\ SomeoneHasProcessor /\ [ContextNext]_contextVars => SomeoneHasProcessor'
<1> SUFFICES ASSUME ContextTypeOK /\ SomeoneHasProcessor, [ContextNext]_contextVars PROVE SomeoneHasProcessor'
  OBVIOUS
<1> USE DEF ContextTypeOK, SomeoneHasProcessor, HasProcessor
<1>1. ASSUME NEW c \in Contexts, NEW t \in Contexts, CallSwitchTo(c, t) PROVE SomeoneHasProcessor'
  BY <1>1 DEF CallSwitchTo, Move, Lock, Unlock
<1>2. ASSUME NEW c \in Contexts, NEW t \in Contexts, CallInit(c, t) PROVE SomeoneHasProcessor'
  BY <1>2 DEF CallInit, Move, Lock, Unlock
<1>3. ASSUME NEW c \in Contexts, WakeSpuriously(c) PROVE SomeoneHasProcessor'
  BY <1>3 DEF WakeSpuriously, Move, Lock, Unlock
<1>4. ASSUME NEW c \in Contexts, InitLock(c) PROVE SomeoneHasProcessor'
  BY <1>4 DEF InitLock, Move, Lock, Unlock
<1>5. ASSUME NEW c \in Contexts, InitClear(c) PROVE SomeoneHasProcessor'
  BY <1>5 DEF InitClear, Move, Lock, Unlock
<1>6. ASSUME NEW c \in Contexts, Create(c) PROVE SomeoneHasProcessor'
  BY <1>6 DEF Create, Move, Lock, Unlock
<1>7. ASSUME NEW c \in Contexts, ClearFlag(c) PROVE SomeoneHasProcessor'
  BY <1>7 DEF ClearFlag, Move, Lock, Unlock
<1>8. ASSUME NEW c \in Contexts, SetFlag(c) PROVE SomeoneHasProcessor'
  BY <1>8 DEF SetFlag, Move, Lock, Unlock
<1>9. ASSUME NEW c \in Contexts, LockTarget(c) PROVE SomeoneHasProcessor'
  BY <1>9 DEF LockTarget, Move, Lock, Unlock
<1>10. ASSUME NEW c \in Contexts, Signal(c) PROVE SomeoneHasProcessor'
  BY <1>10 DEF Signal, Move, Lock, Unlock
<1>11. ASSUME NEW c \in Contexts, UnlockTarget(c) PROVE SomeoneHasProcessor'
  BY <1>11 DEF UnlockTarget, Move, Lock, Unlock
<1>12. ASSUME NEW c \in Contexts, LockOwn(c) PROVE SomeoneHasProcessor'
  BY <1>12 DEF LockOwn, Move, Lock, Unlock
<1>13. ASSUME NEW c \in Contexts, Test(c) PROVE SomeoneHasProcessor'
  BY <1>13 DEF Test, Move, Lock, Unlock
<1>14. ASSUME NEW c \in Contexts, Wait(c) PROVE SomeoneHasProcessor'
  BY <1>14 DEF Wait, Move, Lock, Unlock
<1>15. ASSUME NEW c \in Contexts, Relock(c) PROVE SomeoneHasProcessor'
  BY <1>15 DEF Relock, Move, Lock, Unlock
<1>16. ASSUME NEW c \in Contexts, UnlockOwn(c) PROVE SomeoneHasProcessor'
  BY <1>16 DEF UnlockOwn, Move, Lock, Unlock
<1>17. CASE UNCHANGED contextVars
  BY <1>17 DEF contextVars
<1> QED
  BY <1>1, <1>2, <1>3, <1>4, <1>5, <1>6, <1>7, <1>8, <1>9, 
     <1>10, <1>11, <1>12, <1>13, <1>14, <1>15, <1>16, <1>17
     DEF ContextNext, Proceed

LEMMA ContextStepTargets == ContextTypeOK /\ OneHasProcessor /\ RunsByFlag /\ TargetsMeant /\ [ContextNext]_contextVars => TargetsMeant'
<1> SUFFICES ASSUME ContextTypeOK /\ OneHasProcessor /\ RunsByFlag /\ TargetsMeant, [ContextNext]_contextVars PROVE TargetsMeant'
  OBVIOUS
<1> USE DEF ContextTypeOK, OneHasProcessor, RunsByFlag, HasProcessor, TargetsMeant
<1>1. ASSUME NEW c \in Contexts, NEW t \in Contexts, CallSwitchTo(c, t) PROVE TargetsMeant'
  BY <1>1 DEF CallSwitchTo, Move, Lock, Unlock
<1>2. ASSUME NEW c \in Contexts, NEW t \in Contexts, CallInit(c, t) PROVE TargetsMeant'
  BY <1>2 DEF CallInit, Move, Lock, Unlock
<1>3. ASSUME NEW c \in Contexts, WakeSpuriously(c) PROVE TargetsMeant'
  BY <1>3 DEF WakeSpuriously, Move, Lock, Unlock
<1>4. ASSUME NEW c \in Contexts, InitLock(c) PROVE TargetsMeant'
  BY <1>4 DEF InitLock, Move, Lock, Unlock
<1>5. ASSUME NEW c \in Contexts, InitClear(c) PROVE TargetsMeant'
  BY <1>5 DEF InitClear, Move, Lock, Unlock
<1>6. ASSUME NEW c \in Contexts, Create(c) PROVE TargetsMeant'
  BY <1>6 DEF Create, Move, Lock, Unlock
<1>7. ASSUME NEW c \in Contexts, ClearFlag(c) PROVE TargetsMeant'
  BY <1>7 DEF ClearFlag, Move, Lock, Unlock
<1>8. ASSUME NEW c \in Contexts, SetFlag(c) PROVE TargetsMeant'
  BY <1>8 DEF SetFlag, Move, Lock, Unlock
<1>9. ASSUME NEW c \in Contexts, LockTarget(c) PROVE TargetsMeant'
  BY <1>9 DEF LockTarget, Move, Lock, Unlock
<1>10. ASSUME NEW c \in Contexts, Signal(c) PROVE TargetsMeant'
  BY <1>10 DEF Signal, Move, Lock, Unlock
<1>11. ASSUME NEW c \in Contexts, UnlockTarget(c) PROVE TargetsMeant'
  BY <1>11 DEF UnlockTarget, Move, Lock, Unlock
<1>12. ASSUME NEW c \in Contexts, LockOwn(c) PROVE TargetsMeant'
  BY <1>12 DEF LockOwn, Move, Lock, Unlock
<1>13. ASSUME NEW c \in Contexts, Test(c) PROVE TargetsMeant'
  BY <1>13 DEF Test, Move, Lock, Unlock
<1>14. ASSUME NEW c \in Contexts, Wait(c) PROVE TargetsMeant'
  BY <1>14 DEF Wait, Move, Lock, Unlock
<1>15. ASSUME NEW c \in Contexts, Relock(c) PROVE TargetsMeant'
  BY <1>15 DEF Relock, Move, Lock, Unlock
<1>16. ASSUME NEW c \in Contexts, UnlockOwn(c) PROVE TargetsMeant'
  BY <1>16 DEF UnlockOwn, Move, Lock, Unlock
<1>17. CASE UNCHANGED contextVars
  BY <1>17 DEF contextVars
<1> QED
  BY <1>1, <1>2, <1>3, <1>4, <1>5, <1>6, <1>7, <1>8, <1>9, 
     <1>10, <1>11, <1>12, <1>13, <1>14, <1>15, <1>16, <1>17
     DEF ContextNext, Proceed

LEMMA ContextStepMutex == ContextTypeOK /\ TargetsMeant /\ MutexHeld /\ [ContextNext]_contextVars => MutexHeld'
<1> SUFFICES ASSUME ContextTypeOK /\ TargetsMeant /\ MutexHeld, [ContextNext]_contextVars PROVE MutexHeld'
  OBVIOUS
<1> USE DEF ContextTypeOK, TargetsMeant, MutexHeld
<1>1. ASSUME NEW c \in Contexts, NEW t \in Contexts, CallSwitchTo(c, t) PROVE MutexHeld'
  BY <1>1, ContextAssumption DEF CallSwitchTo, Move, Lock, Unlock
<1>2. ASSUME NEW c \in Contexts, NEW t \in Contexts, CallInit(c, t) PROVE MutexHeld'
  BY <1>2, ContextAssumption DEF CallInit, Move, Lock, Unlock
<1>3. ASSUME NEW c \in Contexts, WakeSpuriously(c) PROVE MutexHeld'
  BY <1>3, ContextAssumption DEF WakeSpuriously, Move, Lock, Unlock
<1>4. ASSUME NEW c \in Contexts, InitLock(c) PROVE MutexHeld'
  BY <1>4, ContextAssumption DEF InitLock, Move, Lock, Unlock
<1>5. ASSUME NEW c \in Contexts, InitClear(c) PROVE MutexHeld'
  BY <1>5, ContextAssumption DEF InitClear, Move, Lock, Unlock
<1>6. ASSUME NEW c \in Contexts, Create(c) PROVE MutexHeld'
  BY <1>6, ContextAssumption DEF Create, Move, Lock, Unlock
<1>7. ASSUME NEW c \in Contexts, ClearFlag(c) PROVE MutexHeld'
  BY <1>7, ContextAssumption DEF ClearFlag, Move, Lock, Unlock
<1>8. ASSUME NEW c \in Contexts, SetFlag(c) PROVE MutexHeld'
  BY <1>8, ContextAssumption DEF SetFlag, Move, Lock, Unlock
<1>9. ASSUME NEW c \in Contexts, LockTarget(c) PROVE MutexHeld'
  BY <1>9, ContextAssumption DEF LockTarget, Move, Lock, Unlock
<1>10. ASSUME NEW c \in Contexts, Signal(c) PROVE MutexHeld'
  BY <1>10, ContextAssumption DEF Signal, Move, Lock, Unlock
<1>11. ASSUME NEW c \in Contexts, UnlockTarget(c) PROVE MutexHeld'
  BY <1>11, ContextAssumption DEF UnlockTarget, Move, Lock, Unlock
<1>12. ASSUME NEW c \in Contexts, LockOwn(c) PROVE MutexHeld'
  BY <1>12, ContextAssumption DEF LockOwn, Move, Lock, Unlock
<1>13. ASSUME NEW c \in Contexts, Test(c) PROVE MutexHeld'
  BY <1>13, ContextAssumption DEF Test, Move, Lock, Unlock
<1>14. ASSUME NEW c \in Contexts, Wait(c) PROVE MutexHeld'
  BY <1>14, ContextAssumption DEF Wait, Move, Lock, Unlock
<1>15. ASSUME NEW c \in Contexts, Relock(c) PROVE MutexHeld'
  BY <1>15, ContextAssumption DEF Relock, Move, Lock, Unlock
<1>16. ASSUME NEW c \in Contexts, UnlockOwn(c) PROVE MutexHeld'
  BY <1>16, ContextAssumption DEF UnlockOwn, Move, Lock, Unlock
<1>17. CASE UNCHANGED contextVars
  BY <1>17, ContextAssumption DEF contextVars
<1> QED
  BY <1>1, <1>2, <1>3, <1>4, <1>5, <1>6, <1>7, <1>8, <1>9, 
     <1>10, <1>11, <1>12, <1>13, <1>14, <1>15, <1>16, <1>17
     DEF ContextNext, Proceed

(* Threads stay where they were needed, and no other begins to wait with   *)
(* its flag set.                                                           *)
WakeupsKept ==
  \A c \in Contexts :
    /\ at'[c] \in {"wait", "asleep"} /\ flag'[c] => at[c] \in {"wait", "asleep"} /\ flag[c]
    /\ at[c] \in {"lock target", "signal"} =>
         at'[c] \in {"lock target", "signal"} /\ target'[c] = target[c]

LEMMA ContextStepWakeups ==
  ContextTypeOK /\ TargetsMeant /\ MutexHeld /\ NoWakeupLost /\ [ContextNext]_contextVars
  => NoWakeupLost'
<1> SUFFICES ASSUME ContextTypeOK, TargetsMeant, MutexHeld, NoWakeupLost,
                    [ContextNext]_contextVars
             PROVE  NoWakeupLost'
  OBVIOUS
<1>0. ASSUME WakeupsKept PROVE NoWakeupLost'
  <2> SUFFICES ASSUME NEW c \in Contexts, at'[c] \in {"wait", "asleep"}, flag'[c]
               PROVE  \E d \in Contexts : target'[d] = c /\ at'[d] \in {"lock target", "signal"}
    BY DEF NoWakeupLost
  <2>1. at[c] \in {"wait", "asleep"} /\ flag[c]
    BY <1>0 DEF WakeupsKept
  <2>2. PICK d \in Contexts : target[d] = c /\ at[d] \in {"lock target", "signal"}
    BY <2>1 DEF NoWakeupLost
  <2> QED
    BY <1>0, <2>2 DEF WakeupsKept
<1>1. ASSUME NEW c \in Contexts, NEW t \in Contexts, CallSwitchTo(c, t) PROVE WakeupsKept
  BY <1>1 DEF CallSwitchTo, Move, WakeupsKept, ContextTypeOK
<1>2. ASSUME NEW c \in Contexts, NEW t \in Contexts, CallInit(c, t) PROVE WakeupsKept
  BY <1>2 DEF CallInit, Move, WakeupsKept, ContextTypeOK
<1>3. ASSUME NEW c \in Contexts, WakeSpuriously(c) PROVE WakeupsKept
  BY <1>3 DEF WakeSpuriously, Move, WakeupsKept, ContextTypeOK
<1>4. ASSUME NEW c \in Contexts, InitLock(c) PROVE WakeupsKept
  BY <1>4 DEF InitLock, Move, WakeupsKept, ContextTypeOK
<1>5. ASSUME NEW c \in Contexts, InitClear(c) PROVE WakeupsKept
  BY <1>5 DEF InitClear, Move, WakeupsKept, ContextTypeOK
<1>6. ASSUME NEW c \in Contexts, Create(c) PROVE WakeupsKept
  BY <1>6 DEF Create, Move, WakeupsKept, ContextTypeOK, TargetsMeant
<1>7. ASSUME NEW c \in Contexts, ClearFlag(c) PROVE WakeupsKept
  BY <1>7 DEF ClearFlag, Move, WakeupsKept, ContextTypeOK
<1>8. ASSUME NEW c \in Contexts, SetFlag(c) PROVE NoWakeupLost'
  <2>1. at[c] = "set" /\ at' = [at EXCEPT ![c] = "lock target"]
        /\ flag' = [flag EXCEPT ![target[c]] = TRUE] /\ target' = target
    BY <1>8 DEF SetFlag, Move
  <2>2. ASSUME NEW d \in Contexts, at'[d] \in {"wait", "asleep"}, flag'[d], d # target[c]
        PROVE  \E e \in Contexts : target'[e] = d /\ at'[e] \in {"lock target", "signal"}
    <3>1. at[d] \in {"wait", "asleep"} /\ flag[d]
      BY <2>1, <2>2 DEF ContextTypeOK
    <3>2. PICK e \in Contexts : target[e] = d /\ at[e] \in {"lock target", "signal"}
      BY <3>1 DEF NoWakeupLost
    <3>3. e # c /\ at'[e] = at[e] /\ target'[e] = d
      BY <2>1, <3>2 DEF ContextTypeOK
    <3> QED
      BY <3>2, <3>3
  <2>3. target'[c] = target[c] /\ at'[c] = "lock target"
    BY <2>1 DEF ContextTypeOK
  <2> QED
    BY <2>2, <2>3 DEF NoWakeupLost
<1>9. ASSUME NEW c \in Contexts, LockTarget(c) PROVE WakeupsKept
  BY <1>9 DEF LockTarget, Move, WakeupsKept, ContextTypeOK
<1>10. ASSUME NEW c \in Contexts, Signal(c) PROVE NoWakeupLost'
  <2>1. at[c] = "signal" /\ flag' = flag /\ target' = target
    BY <1>10 DEF Signal
  <2>2. target[c] # c /\ target[c] \in Contexts
    BY <2>1 DEF ContextTypeOK, TargetsMeant
  <2>3. ASSUME NEW d \in Contexts
        PROVE  at'[d] = IF d = c THEN "unlock target"
                        ELSE IF d = target[c] /\ at[d] = "asleep" THEN "awoken" ELSE at[d]
    BY <1>10, <2>2 DEF Signal, ContextTypeOK
  <2>4. at'[target[c]] \notin {"wait", "asleep"}
    <3>1. mutex[target[c]] = c
      BY <2>1 DEF MutexHeld
    <3>2. at[target[c]] # "wait"
      BY <2>2, <3>1 DEF MutexHeld
    <3>3. at'[target[c]] = IF at[target[c]] = "asleep" THEN "awoken" ELSE at[target[c]]
      BY <2>2, <2>3
    <3> QED
      BY <3>2, <3>3
  <2>5. ASSUME NEW d \in Contexts, d # target[c], at'[d] \in {"wait", "asleep"}, flag'[d]
        PROVE  \E e \in Contexts : target'[e] = d /\ at'[e] \in {"lock target", "signal"}
    <3>1. at[d] \in {"wait", "asleep"} /\ flag[d]
      BY <2>1, <2>3, <2>5
    <3>2. PICK e \in Contexts : target[e] = d /\ at[e] \in {"lock target", "signal"}
      BY <3>1 DEF NoWakeupLost
    <3>3. e # c /\ at'[e] = at[e]
      BY <2>3, <2>5, <3>2
    <3> QED
      BY <2>1, <3>2, <3>3
  <2> QED
    BY <2>4, <2>5 DEF NoWakeupLost
<1>11. ASSUME NEW c \in Contexts, UnlockTarget(c) PROVE WakeupsKept
  BY <1>11 DEF UnlockTarget, Move, WakeupsKept, ContextTypeOK
<1>12. ASSUME NEW c \in Contexts, LockOwn(c) PROVE WakeupsKept
  BY <1>12 DEF LockOwn, Move, WakeupsKept, ContextTypeOK
<1>13. ASSUME NEW c \in Contexts, Test(c) PROVE WakeupsKept
  BY <1>13 DEF Test, Move, WakeupsKept, ContextTypeOK
<1>14. ASSUME NEW c \in Contexts, Wait(c) PROVE WakeupsKept
  BY <1>14 DEF Wait, Move, WakeupsKept, ContextTypeOK
<1>15. ASSUME NEW c \in Contexts, Relock(c) PROVE WakeupsKept
  BY <1>15 DEF Relock, Move, WakeupsKept, ContextTypeOK
<1>16. ASSUME NEW c \in Contexts, UnlockOwn(c) PROVE WakeupsKept
  BY <1>16 DEF UnlockOwn, Move, WakeupsKept, ContextTypeOK
<1>17. CASE UNCHANGED contextVars
  BY <1>17 DEF contextVars, NoWakeupLost
<1> QED
  BY <1>0, <1>1, <1>2, <1>3, <1>4, <1>5, <1>6, <1>7, <1>8, <1>9, 
     <1>10, <1>11, <1>12, <1>13, <1>14, <1>15, <1>16, <1>17
     DEF ContextNext, Proceed

LEMMA ContextInvInductive ==
  /\ ContextInit => ContextInv
  /\ ContextInv /\ [ContextNext]_contextVars => ContextInv'
<1>1. ASSUME ContextInit PROVE ContextInv
  <2>1. ASSUME NEW c \in Contexts
        PROVE  /\ flag[c] <=> c = MainContext
               /\ at[c] = IF c = MainContext THEN "user" ELSE "uncreated"
    BY <1>1 DEF ContextInit
  <2>2. HasProcessor(MainContext) /\ \A c \in Contexts : HasProcessor(c) => c = MainContext
    BY <2>1, ContextAssumption DEF HasProcessor
  <2>3. ContextTypeOK /\ OneHasProcessor /\ SomeoneHasProcessor
    BY <1>1, <2>2, ContextAssumption
       DEF ContextInit, ContextTypeOK, Places, OneHasProcessor, SomeoneHasProcessor
  <2>4. RunsByFlag /\ TargetsMeant /\ MutexHeld /\ NoWakeupLost
    BY <2>1 DEF RunsByFlag, TargetsMeant, MutexHeld, NoWakeupLost
  <2> QED
    BY <2>3, <2>4 DEF ContextInv
<1>2. ASSUME ContextInv, [ContextNext]_contextVars PROVE ContextInv'
  BY <1>2, ContextStepType, ContextStepProcessor, ContextStepSomeone, ContextStepTargets,
     ContextStepMutex, ContextStepWakeups DEF ContextInv
<1> QED
  BY <1>1, <1>2

(* Whatever the order in which threads find each other's flags, locks and  *)
(* signals, and however they wake, at most one context runs its own code.  *)
THEOREM ContextsRunAlone == ContextSpec => []OneContextRuns
<1>1. ContextInv => OneContextRuns
  BY DEF ContextInv, OneHasProcessor, RunsByFlag, HasProcessor, OneContextRuns
<1> QED
  BY <1>1, ContextInvInductive, PTL DEF ContextSpec

(* A thread whose flag was set after it looked is still to be signalled.   *)
THEOREM ContextsLoseNoWakeup == ContextSpec => []NoWakeupLost
<1>1. ContextInv => NoWakeupLost
  BY DEF ContextInv
<1> QED
  BY <1>1, ContextInvInductive, PTL DEF ContextSpec
-----------------------------------------------------------------------------
(***************************************************************************)
(* Threads, flags and signals implement coroutines.                        *)
(***************************************************************************)
LEMMA RunningHasIt ==
  ASSUME ContextInv, NEW r \in Contexts, HasProcessor(r)
  PROVE  Running = r
BY DEF ContextInv, OneHasProcessor, Running

LEMMA RunningHasItNext ==
  ASSUME ContextInv', NEW r \in Contexts, HasProcessor(r)'
  PROVE  Running' = r
BY DEF ContextInv, OneHasProcessor, Running

(* The one that has the processor keeps it, and what it does with it.      *)
LEMMA ServiceStutters ==
  ASSUME ContextInv, ContextInv', NEW r \in Contexts, HasProcessor(r), HasProcessor(r)',
         StageAt(at[r]) = StageAt(at[r])',
         StageAt(at[r]) \in {"creating", "switching"} => target'[r] = target[r],
         \A c \in Contexts : at'[c] = "uncreated" <=> at[c] = "uncreated"
  PROVE  UNCHANGED Service!vars
<1>1. Running = r /\ Running' = r
  BY RunningHasIt, RunningHasItNext
<1>2. Stage' = Stage
  BY <1>1 DEF Stage
<1>3. To' = To
  BY <1>1, <1>2 DEF To, Stage
<1>4. Created' = Created
  BY DEF Created
<1> QED
  BY <1>1, <1>2, <1>3, <1>4 DEF Service!vars

LEMMA CallSwitchToServes ==
  ASSUME ContextInv, ContextInv', NEW c \in Contexts, NEW t \in Contexts, CallSwitchTo(c, t)
  PROVE  Service!SwitchTo(t)
<1>1. /\ at[c] = "user" /\ at' = [at EXCEPT ![c] = "clear"] /\ flag' = flag
      /\ t # c /\ at[t] # "uncreated" /\ target' = [target EXCEPT ![c] = t]
  BY DEF CallSwitchTo, Move
<1>2. ContextTypeOK
  BY DEF ContextInv
<1>3. HasProcessor(c) /\ HasProcessor(c)'
  BY <1>1, <1>2 DEF ContextInv, ContextTypeOK, RunsByFlag, HasProcessor
<1>4. Running = c /\ Running' = c
  BY <1>3, RunningHasIt, RunningHasItNext
<1>5. at'[c] = "clear" /\ target'[c] = t /\ \A d \in Contexts \ {c} : at'[d] = at[d]
  BY <1>1, <1>2 DEF ContextTypeOK
<1>6. Stage = "own code" /\ Stage' = "switching" /\ To' = t
  BY <1>1, <1>4, <1>5 DEF Stage, To, StageAt
<1>7. Created' = Created /\ t \in Created \ {Running}
  BY <1>1, <1>4, <1>5 DEF Created
<1> QED
  BY <1>4, <1>6, <1>7 DEF Service!SwitchTo

LEMMA CallInitServes ==
  ASSUME ContextInv, ContextInv', NEW c \in Contexts, NEW t \in Contexts, CallInit(c, t)
  PROVE  Service!Create(t)
<1>1. /\ at[c] = "user" /\ at' = [at EXCEPT ![c] = "init lock"] /\ flag' = flag
      /\ at[t] = "uncreated" /\ target' = [target EXCEPT ![c] = t]
  BY DEF CallInit, Move
<1>2. ContextTypeOK
  BY DEF ContextInv
<1>3. HasProcessor(c) /\ HasProcessor(c)'
  BY <1>1, <1>2 DEF ContextInv, ContextTypeOK, RunsByFlag, HasProcessor
<1>4. Running = c /\ Running' = c
  BY <1>3, RunningHasIt, RunningHasItNext
<1>5. at'[c] = "init lock" /\ target'[c] = t /\ \A d \in Contexts \ {c} : at'[d] = at[d]
  BY <1>1, <1>2 DEF ContextTypeOK
<1>6. Stage = "own code" /\ Stage' = "creating" /\ To' = t
  BY <1>1, <1>4, <1>5 DEF Stage, To, StageAt
<1>7. Created' = Created /\ t \notin Created
  BY <1>1, <1>4, <1>5 DEF Created
<1> QED
  BY <1>4, <1>6, <1>7 DEF Service!Create

LEMMA CreateServes ==
  ASSUME ContextInv, ContextInv', NEW c \in Contexts, Create(c)
  PROVE  Service!Begin
<1> DEFINE t == target[c]
<1>1. /\ at[c] = "create" /\ at' = [at EXCEPT ![c] = "test", ![t] = "clear"]
      /\ flag' = flag /\ target' = [target EXCEPT ![t] = c]
  BY DEF Create
<1>2. ContextTypeOK /\ t \in Contexts /\ at[t] = "uncreated" /\ t # c
  BY <1>1 DEF ContextInv, ContextTypeOK, TargetsMeant
<1>3. at'[t] = "clear" /\ target'[t] = c /\ \A d \in Contexts : at'[d] = "uncreated" <=> at[d] = "uncreated" /\ d # t
  BY <1>1, <1>2 DEF ContextTypeOK
<1>4. Running = c /\ Running' = t
  BY <1>1, <1>2, <1>3, RunningHasIt, RunningHasItNext DEF HasProcessor
<1> HIDE DEF t
<1>5. Stage = "creating" /\ To = t
  BY <1>1, <1>4 DEF Stage, To, StageAt, t
<1>6. Stage' = "switching" /\ To' = c
  BY <1>3, <1>4 DEF Stage, To, StageAt
<1>7. Created' = Created \cup {t} /\ t \notin Created
  BY <1>2, <1>3 DEF Created
<1> QED
  BY <1>4, <1>5, <1>6, <1>7 DEF Service!Begin

LEMMA SetFlagServes ==
  ASSUME ContextInv, ContextInv', NEW c \in Contexts, SetFlag(c)
  PROVE  Service!HandOver
<1> DEFINE t == target[c]
<1>1. /\ at[c] = "set" /\ at' = [at EXCEPT ![c] = "lock target"]
      /\ flag' = [flag EXCEPT ![t] = TRUE] /\ target' = target
  BY DEF SetFlag, Move
<1>2. ContextTypeOK /\ t \in Contexts /\ at[t] # "uncreated" /\ t # c
  BY <1>1 DEF ContextInv, ContextTypeOK, TargetsMeant
<1>3. flag'[t] /\ at'[t] = at[t] /\ \A d \in Contexts : at'[d] = "uncreated" <=> at[d] = "uncreated"
  BY <1>1, <1>2 DEF ContextTypeOK
<1>4. Running = c /\ Running' = t
  BY <1>1, <1>2, <1>3, RunningHasIt, RunningHasItNext DEF HasProcessor
<1> HIDE DEF t
<1>5. Stage = "switching" /\ To = t
  BY <1>1, <1>4 DEF Stage, To, StageAt, t
<1>6. ~HasProcessor(t)
  BY <1>1, <1>2 DEF ContextInv, OneHasProcessor, HasProcessor
<1>7. at[t] \notin {"user", "init lock", "init clear", "create", "clear", "set"}
  BY <1>2, <1>6 DEF ContextInv, RunsByFlag, HasProcessor
<1>8. Stage' = "arriving" /\ To' = t
  BY <1>3, <1>4, <1>7 DEF Stage, To, StageAt
<1>9. Created' = Created /\ t \in Created \ {c}
  BY <1>2, <1>3 DEF Created
<1> QED
  BY <1>4, <1>5, <1>8, <1>9 DEF Service!HandOver

LEMMA UnlockOwnServes ==
  ASSUME ContextInv, ContextInv', NEW c \in Contexts, UnlockOwn(c)
  PROVE  Service!Arrive
<1>1. /\ at[c] = "unlock own" /\ at' = [at EXCEPT ![c] = "user"] /\ flag' = flag /\ target' = target
  BY DEF UnlockOwn, Move
<1>2. ContextTypeOK
  BY DEF ContextInv
<1>3. HasProcessor(c) /\ HasProcessor(c)'
  BY <1>1, <1>2 DEF ContextInv, RunsByFlag, HasProcessor
<1>4. Running = c /\ Running' = c
  BY <1>3, RunningHasIt, RunningHasItNext
<1>5. at'[c] = "user" /\ \A d \in Contexts : at'[d] = "uncreated" <=> at[d] = "uncreated"
  BY <1>1, <1>2 DEF ContextTypeOK
<1>6. Stage = "arriving" /\ Stage' = "own code" /\ To' = To
  BY <1>1, <1>4, <1>5 DEF Stage, To, StageAt
<1>7. Created' = Created
  BY <1>5 DEF Created
<1> QED
  BY <1>4, <1>6, <1>7 DEF Service!Arrive

(* Every other step leaves the processor where it is.                      *)
LEMMA OthersServe ==
  ASSUME ContextInv, ContextInv', NEW c \in Contexts,
         \/ WakeSpuriously(c) \/ InitLock(c) \/ InitClear(c) \/ ClearFlag(c)
         \/ LockTarget(c) \/ Signal(c) \/ UnlockTarget(c) \/ LockOwn(c)
         \/ Test(c) \/ Wait(c) \/ Relock(c)
  PROVE  UNCHANGED Service!vars
<1> PICK r \in Contexts : HasProcessor(r)
  BY DEF ContextInv, SomeoneHasProcessor
<1> DEFINE Same == /\ HasProcessor(r)' /\ StageAt(at[r]) = StageAt(at[r])' /\ target' = target
                   /\ \A d \in Contexts : at'[d] = "uncreated" <=> at[d] = "uncreated"
<1> USE DEF ContextInv, ContextTypeOK, HasProcessor, StageAt
<1>1. ASSUME WakeSpuriously(c) PROVE Same
  BY <1>1 DEF WakeSpuriously, Move
<1>2. ASSUME InitLock(c) PROVE Same
  BY <1>2 DEF InitLock, Move
<1>3. ASSUME InitClear(c) PROVE Same
  BY <1>3 DEF InitClear, Move
<1>4. ASSUME ClearFlag(c) PROVE Same
  BY <1>4 DEF ClearFlag, Move
<1>5. ASSUME LockTarget(c) PROVE Same
  BY <1>5 DEF LockTarget, Move
<1>6. ASSUME Signal(c) PROVE Same
  BY <1>6 DEF Signal, Move
<1>7. ASSUME UnlockTarget(c) PROVE Same
  BY <1>7 DEF UnlockTarget, Move
<1>8. ASSUME LockOwn(c) PROVE Same
  BY <1>8 DEF LockOwn, Move
<1>9. ASSUME Test(c) PROVE Same
  BY <1>9 DEF Test, Move
<1>10. ASSUME Wait(c) PROVE Same
  BY <1>10 DEF Wait, Move
<1>11. ASSUME Relock(c) PROVE Same
  BY <1>11 DEF Relock, Move
<1>20. Same
  BY <1>1, <1>2, <1>3, <1>4, <1>5, <1>6, <1>7, <1>8, <1>9, <1>10, <1>11
<1> QED
  BY <1>20, ServiceStutters

(* Each step of a thread is a step of the coroutines or none.              *)
LEMMA ContextStepServes ==
  ContextInv /\ ContextInv' /\ [ContextNext]_contextVars => [Service!Next]_(Service!vars)
<1> SUFFICES ASSUME ContextInv, ContextInv', [ContextNext]_contextVars
             PROVE  Service!Next \/ UNCHANGED Service!vars
  OBVIOUS
<1>1. CASE UNCHANGED contextVars
  BY <1>1 DEF contextVars, Service!vars, Created, Running, Stage, To, HasProcessor, StageAt
<1>2. ASSUME NEW c \in Contexts, NEW t \in Contexts, CallSwitchTo(c, t) \/ CallInit(c, t)
      PROVE  Service!Next
  BY <1>2, CallSwitchToServes, CallInitServes DEF Service!Next
<1>3. ASSUME NEW c \in Contexts, Create(c) \/ SetFlag(c) \/ UnlockOwn(c) PROVE Service!Next
  BY <1>3, CreateServes, SetFlagServes, UnlockOwnServes DEF Service!Next
<1>4. ASSUME NEW c \in Contexts, WakeSpuriously(c) \/ Proceed(c)
      PROVE  Service!Next \/ UNCHANGED Service!vars
  BY <1>3, <1>4, OthersServe DEF Proceed
<1> QED
  BY <1>1, <1>2, <1>4 DEF ContextNext

(* The processor is always one context's, goes to the one that a switch    *)
(* names and from a new one back to its creator.                           *)
THEOREM CoroutinesImplemented == ContextSpec => ProvidesCoroutines
<1>1. ContextInit => Service!Init
  <2> SUFFICES ASSUME ContextInit PROVE Service!Init
    OBVIOUS
  <2>1. at[MainContext] = "user" /\ HasProcessor(MainContext) /\ Created = {MainContext}
    BY ContextAssumption DEF ContextInit, HasProcessor, Created
  <2>2. Running = MainContext
    BY <2>1, ContextInvInductive, ContextAssumption, RunningHasIt
  <2>3. Stage = "own code" /\ To = MainContext
    BY <2>1, <2>2 DEF Stage, StageAt, To
  <2> QED
    BY <2>1, <2>2, <2>3 DEF Service!Init
<1> QED
  BY <1>1, ContextInvInductive, ContextStepServes, PTL DEF ContextSpec, ProvidesCoroutines, Service!Spec
-----------------------------------------------------------------------------
(***************************************************************************)
(* The socket of the debugger                                              *)
(***************************************************************************)

(* The commands that read has returned and that are not yet executed       *)
Unexecuted == IF recvStart < recvEnd THEN recvEnd - recvStart ELSE 0

(* They are the next ones, in order                                        *)
CommandsNext ==
  /\ delivered = executed + Unexecuted
  /\ \A k \in Slots : recvStart <= k /\ k < recvEnd => recvBuf[k] = executed + 1 + (k - recvStart)

(* Where the loops are, and what their conditions have established         *)
LoopsInv ==
  /\ place = "commands" => recvStart < recvEnd /\ ~enteredRti /\ total + Unexecuted <= 2 * BufSize
  /\ place \in {"answers", "check"} => enteredRti \/ recvStart >= recvEnd
  /\ total <= 2 * BufSize
  /\ inRti => tapIdle
  /\ settled => enteredRti

(* As many answers as commands at most, and those not sent are the next    *)
AnswersInv ==
  /\ sendOffset <= recvStart \/ place \in {"idle", "check", "aborted"}
  /\ place = "commands" => sent = 0
  /\ ~partial =>
       /\ ~garbled
       /\ place \in {"idle", "check"} => answered = asked
       /\ place = "commands" \/ (place = "answers" /\ sent < sendOffset) =>
            /\ sent = 0 /\ asked = answered + sendOffset
            /\ \A k \in Slots : k < sendOffset => sendBuf[k] = answered + k + 1
       /\ place = "answers" /\ sent >= sendOffset => answered = asked

BitbangInv == BitbangTypeOK /\ CommandsNext /\ LoopsInv /\ AnswersInv

LEMMA BitbangConstants == BufSize \in Nat /\ BufSize >= 1 /\ MaxCommands \in Nat
BY BitbangAssumption

LEMMA BitbangInitInv == BitbangInit => BitbangInv
<1> SUFFICES ASSUME BitbangInit PROVE BitbangInv
  OBVIOUS
<1> USE BitbangConstants DEF BitbangInit
<1>1. BitbangTypeOK
  <2>1. [k \in Slots |-> 0] \in [Slots -> Nat]
    OBVIOUS
  <2>2. /\ recvBuf \in [Slots -> Nat] /\ sendBuf \in [Slots -> Nat]
        /\ client \in {"none", "open", "closed"} /\ clientFd \in BOOLEAN
        /\ place \in {"idle", "commands", "answers", "check", "aborted"}
    BY <2>1
  <2>3. /\ arrivals \in 0 .. MaxCommands /\ delivered \in 0 .. MaxCommands
        /\ recvStart \in 0 .. BufSize /\ recvEnd \in -1 .. BufSize /\ sendOffset \in 0 .. BufSize
        /\ sent \in Nat /\ total \in Nat /\ executed \in Nat /\ asked \in Nat /\ answered \in Nat
    OBVIOUS
  <2>4. /\ quit \in BOOLEAN /\ inRti \in BOOLEAN /\ enteredRti \in BOOLEAN /\ tapIdle \in BOOLEAN
        /\ garbled \in BOOLEAN /\ partial \in BOOLEAN /\ settled \in BOOLEAN
    BY Zenon
  <2> QED
    BY <2>2, <2>3, <2>4, Zenon DEF BitbangTypeOK
<1>2. CommandsNext
  BY DEF CommandsNext, Unexecuted, Slots
<1>3. LoopsInv /\ AnswersInv
  BY DEF LoopsInv, AnswersInv
<1> QED
  BY <1>1, <1>2, <1>3 DEF BitbangInv

LEMMA ClientInv == BitbangInv /\ Client => BitbangInv'
<1> SUFFICES ASSUME BitbangInv, Client PROVE BitbangInv'
  OBVIOUS
<1> USE DEF Client, BitbangInv, recvVars, sendVars, tickVars, answerVars
<1>1. BitbangTypeOK'
  BY BitbangConstants DEF BitbangTypeOK
<1>2. CommandsNext'
  BY DEF CommandsNext, Unexecuted
<1>3. LoopsInv' /\ AnswersInv'
  BY DEF LoopsInv, AnswersInv, Unexecuted
<1> QED
  BY <1>1, <1>2, <1>3

(* Accepting a client changes only who is connected                        *)
LEMMA AcceptInv == BitbangInv /\ Accept => BitbangInv'
<1> SUFFICES ASSUME BitbangInv, Accept PROVE BitbangInv'
  OBVIOUS
<1> USE DEF Accept, BitbangInv, recvVars, sendVars, tickVars, answerVars
<1>1. BitbangTypeOK'
  BY DEF BitbangTypeOK
<1>2. CommandsNext'
  BY DEF CommandsNext, Unexecuted
<1>3. LoopsInv' /\ AnswersInv'
  BY DEF LoopsInv, AnswersInv, Unexecuted
<1> QED
  BY <1>1, <1>2, <1>3

LEMMA TickInv == BitbangInv /\ Tick => BitbangInv'
<1> SUFFICES ASSUME BitbangInv, Tick PROVE BitbangInv'
  OBVIOUS
<1> USE BitbangConstants DEF BitbangInv
<1>1. /\ place = "idle" /\ total' = 0 /\ quit' = FALSE /\ inRti' = tapIdle
      /\ enteredRti' = FALSE /\ settled' = FALSE
      /\ \/ recvStart < recvEnd /\ place' = "commands" /\ sendOffset' = 0 /\ sent' = 0
         \/ ~(recvStart < recvEnd) /\ place' = "check" /\ sendOffset' = sendOffset /\ sent' = sent
      /\ UNCHANGED <<client, arrivals, delivered, clientFd, recvBuf, recvStart, recvEnd, sendBuf,
                     tapIdle, executed, asked, answered, garbled, partial>>
  BY DEF Tick, NewBatch, socketVars, recvVars, answerVars
<1>2. BitbangTypeOK'
  <2>1. /\ sendOffset' \in 0 .. BufSize /\ sent' \in Nat /\ total' \in Nat
        /\ place' \in {"idle", "commands", "answers", "check", "aborted"}
    BY <1>1 DEF BitbangTypeOK
  <2>2. quit' \in BOOLEAN /\ inRti' \in BOOLEAN /\ enteredRti' \in BOOLEAN /\ settled' \in BOOLEAN
    BY <1>1, Zenon DEF BitbangTypeOK
  <2> QED
    BY <1>1, <2>1, <2>2, Zenon DEF BitbangTypeOK
<1>3. CommandsNext'
  BY <1>1 DEF CommandsNext, Unexecuted
<1>4. LoopsInv'
  BY <1>1 DEF LoopsInv, Unexecuted, BitbangTypeOK
<1>5. AnswersInv'
  <2>1. ~partial => ~garbled /\ answered = asked
    BY <1>1 DEF AnswersInv
  <2>2. CASE place' = "commands"
    <3>1. sendOffset' = 0 /\ sent' = 0 /\ sendOffset' <= recvStart'
      BY <1>1, <2>2 DEF BitbangTypeOK
    <3>2. \A k \in Slots : ~(k < sendOffset')
      BY <3>1 DEF Slots
    <3>3. ~partial' => asked' = answered' + sendOffset'
      BY <1>1, <2>1, <3>1 DEF BitbangTypeOK
    <3> QED
      BY <1>1, <2>1, <2>2, <3>1, <3>2, <3>3 DEF AnswersInv
  <2>3. CASE place' = "check"
    BY <1>1, <2>1, <2>3 DEF AnswersInv
  <2> QED
    BY <1>1, <2>2, <2>3
<1> QED
  BY <1>2, <1>3, <1>4, <1>5

(* The command that is executed is the next one, and its answer fits       *)
LEMMA ExecuteFacts ==
  ASSUME BitbangInv, Execute
  PROVE  /\ recvStart \in Slots /\ recvStart < recvEnd
         /\ executed' = executed + 1
         /\ sendOffset \in Slots
<1> USE BitbangConstants DEF BitbangInv
<1>1. place = "commands" /\ executed' = recvBuf[recvStart]
  BY DEF Execute
<1>2. recvStart < recvEnd /\ recvStart \in Slots
  BY <1>1 DEF LoopsInv, BitbangTypeOK, Slots
<1>3. recvBuf[recvStart] = executed + 1
  BY <1>2 DEF CommandsNext, BitbangTypeOK
<1>4. sendOffset \in Slots
  BY <1>1, <1>2 DEF AnswersInv, BitbangTypeOK, Slots
<1> QED
  BY <1>1, <1>2, <1>3, <1>4

LEMMA ExecuteInv == BitbangInv /\ Execute => BitbangInv'
<1> SUFFICES ASSUME BitbangInv, Execute PROVE BitbangInv'
  OBVIOUS
<1> USE BitbangConstants DEF BitbangInv
<1>1. recvStart \in Slots /\ recvStart < recvEnd /\ executed' = executed + 1 /\ sendOffset \in Slots
  BY ExecuteFacts
<1>2. PICK kind \in {"pins", "ask", "quit", "other"} : Command(kind)
  BY DEF Execute
<1>3. /\ recvStart' = recvStart + 1 /\ total' = total + 1 /\ place = "commands"
      /\ enteredRti' = (~inRti /\ tapIdle') /\ inRti' = FALSE
      /\ place' = IF enteredRti' \/ recvStart' = recvEnd THEN "answers" ELSE "commands"
      /\ settled' = (settled \/ (tapIdle' /\ ~tapIdle))
      /\ UNCHANGED <<client, arrivals, delivered, clientFd, recvBuf, recvEnd, sent, answered, garbled, partial>>
  BY DEF Execute, socketVars
<1>4. \/ UNCHANGED <<sendBuf, sendOffset, asked>>
      \/ /\ sendBuf' = [sendBuf EXCEPT ![sendOffset] = asked + 1]
         /\ sendOffset' = sendOffset + 1 /\ asked' = asked + 1
  BY <1>2 DEF Command
<1>5. tapIdle' \in BOOLEAN /\ quit' \in BOOLEAN
  BY <1>2 DEF Command, BitbangTypeOK
<1>6. /\ recvStart \in Nat /\ recvStart < BufSize /\ recvEnd \in Int /\ recvEnd <= BufSize
      /\ sendOffset \in Nat /\ sendOffset < BufSize /\ total \in Nat
      /\ asked \in Nat /\ executed \in Nat /\ answered \in Nat
  BY <1>1 DEF BitbangTypeOK, Slots
<1>7. BitbangTypeOK'
  <2>1. sendBuf' \in [Slots -> Nat] /\ sendOffset' \in 0 .. BufSize /\ asked' \in Nat
    BY <1>4, <1>6 DEF BitbangTypeOK
  <2>2. recvStart' \in 0 .. BufSize /\ total' \in Nat /\ executed' \in Nat
    BY <1>1, <1>3, <1>6
  <2>3. /\ place' \in {"idle", "commands", "answers", "check", "aborted"}
        /\ enteredRti' \in BOOLEAN /\ inRti' \in BOOLEAN /\ settled' \in BOOLEAN
    BY <1>3 DEF BitbangTypeOK
  <2> QED
    BY <1>3, <1>5, <2>1, <2>2, <2>3 DEF BitbangTypeOK
<1>8. Unexecuted = recvEnd - recvStart /\ Unexecuted' = recvEnd - recvStart - 1
  BY <1>1, <1>3, <1>6 DEF Unexecuted
<1>9. CommandsNext'
  <2>1. delivered' = executed' + Unexecuted'
    BY <1>1, <1>3, <1>6, <1>8 DEF CommandsNext
  <2>2. ASSUME NEW k \in Slots, recvStart' <= k, k < recvEnd'
        PROVE  recvBuf'[k] = executed' + 1 + (k - recvStart')
    <3>1. k \in Nat /\ recvStart <= k /\ k < recvEnd
      BY <1>3, <1>6, <2>2 DEF Slots
    <3>2. recvBuf[k] = executed + 1 + (k - recvStart)
      BY <3>1 DEF CommandsNext
    <3> QED
      BY <1>1, <1>3, <1>6, <3>1, <3>2
  <2> QED
    BY <2>1, <2>2 DEF CommandsNext
<1>10. LoopsInv'
  <2>1. ~enteredRti /\ ~settled /\ total + Unexecuted <= 2 * BufSize /\ (inRti => tapIdle)
    BY <1>3 DEF LoopsInv
  <2>2. total' + Unexecuted' <= 2 * BufSize /\ total' <= 2 * BufSize
    BY <1>1, <1>3, <1>6, <1>8, <2>1
  <2>3. place' = "commands" => recvStart' < recvEnd' /\ ~enteredRti'
    BY <1>1, <1>3, <1>6
  <2>4. place' \in {"answers", "check"} => enteredRti' \/ recvStart' >= recvEnd'
    BY <1>1, <1>3, <1>6
  <2>5. settled' => enteredRti'
    BY <1>3, <2>1
  <2> QED
    BY <1>3, <2>2, <2>3, <2>4, <2>5 DEF LoopsInv
<1>11. AnswersInv'
  <2>1. sendOffset <= recvStart /\ sent = 0
    BY <1>3 DEF AnswersInv
  <2>2. sendOffset' <= recvStart' /\ sent' = 0 /\ sendOffset' \in Nat
    BY <1>3, <1>4, <1>6, <2>1
  <2>3. ASSUME ~partial
        PROVE  /\ ~garbled' /\ asked' = answered' + sendOffset'
               /\ \A k \in Slots : k < sendOffset' => sendBuf'[k] = answered' + k + 1
    <3>1. /\ ~garbled /\ asked = answered + sendOffset
          /\ \A k \in Slots : k < sendOffset => sendBuf[k] = answered + k + 1
      BY <1>3, <2>3 DEF AnswersInv
    <3>2. CASE UNCHANGED <<sendBuf, sendOffset, asked>>
      BY <1>3, <3>1, <3>2
    <3>3. CASE /\ sendBuf' = [sendBuf EXCEPT ![sendOffset] = asked + 1]
               /\ sendOffset' = sendOffset + 1 /\ asked' = asked + 1
      <4>1. asked' = answered' + sendOffset'
        BY <1>3, <1>6, <3>1, <3>3
      <4>2. ASSUME NEW k \in Slots, k < sendOffset' PROVE sendBuf'[k] = answered' + k + 1
        <5>1. k \in Nat /\ (k < sendOffset \/ k = sendOffset)
          BY <1>6, <3>3, <4>2 DEF Slots
        <5>2. sendBuf'[k] = IF k = sendOffset THEN asked + 1 ELSE sendBuf[k]
          BY <3>3 DEF BitbangTypeOK
        <5> QED
          BY <1>3, <1>6, <3>1, <5>1, <5>2
      <4> QED
        BY <1>3, <3>1, <4>1, <4>2
    <3> QED
      BY <1>4, <3>2, <3>3
  <2>4. place' \in {"commands", "answers"} /\ partial' = partial
    BY <1>3
  <2>5. answered' \in Nat /\ (sent' >= sendOffset' => sendOffset' = 0)
    BY <1>3, <1>6, <2>2
  <2> QED
    BY <2>2, <2>3, <2>4, <2>5 DEF AnswersInv
<1> QED
  BY <1>7, <1>9, <1>10, <1>11

LEMMA WriteInv ==
  ASSUME BitbangInv, NEW n \in 1 .. sendOffset, Write(n)
  PROVE  BitbangInv'
<1> USE BitbangConstants DEF BitbangInv
<1>1. /\ place = "answers" /\ place' = place /\ sent < sendOffset
      /\ sent' = sent + n /\ answered' = answered + n
      /\ garbled' = (garbled \/ \E k \in 0 .. n - 1 : Byte(sent + k) # answered + k + 1)
      /\ partial' = (partial \/ n < sendOffset)
      /\ UNCHANGED <<client, arrivals, delivered, clientFd, recvBuf, recvStart, recvEnd, sendBuf, sendOffset,
                     total, quit, inRti, enteredRti, settled, tapIdle, executed, asked>>
  BY DEF Write, socketVars, recvVars, tickVars
<1>2. n \in Nat /\ n >= 1 /\ sendOffset \in Nat /\ sendOffset <= BufSize /\ n <= sendOffset
      /\ sent \in Nat /\ answered \in Nat /\ asked \in Nat
  BY DEF BitbangTypeOK
<1>3. BitbangTypeOK'
  <2>1. sent' \in Nat /\ answered' \in Nat
    BY <1>1, <1>2
  <2>2. garbled' \in BOOLEAN /\ partial' \in BOOLEAN
    BY <1>1, Zenon DEF BitbangTypeOK
  <2> QED
    BY <1>1, <2>1, <2>2, Zenon DEF BitbangTypeOK
<1>4. CommandsNext' /\ LoopsInv'
  BY <1>1 DEF CommandsNext, LoopsInv, Unexecuted
<1>5. AnswersInv'
  <2>1. sendOffset' <= recvStart' \/ place' \in {"idle", "check", "aborted"}
    BY <1>1 DEF AnswersInv
  <2>2. ASSUME ~partial'
        PROVE  ~garbled' /\ sent' >= sendOffset' /\ answered' = asked'
    <3>1. ~partial /\ n = sendOffset
      <4>1. ~partial /\ ~(n < sendOffset)
        BY <1>1, <2>2, Zenon
      <4> QED
        BY <1>2, <4>1
    <3>2. /\ ~garbled /\ sent = 0 /\ asked = answered + sendOffset
          /\ \A k \in Slots : k < sendOffset => sendBuf[k] = answered + k + 1
      BY <1>1, <3>1 DEF AnswersInv
    <3>3. ASSUME NEW k \in 0 .. n - 1 PROVE Byte(sent + k) = answered + k + 1
      <4>1. k \in Slots /\ k < sendOffset /\ sent + k = k /\ k < BufSize
        BY <1>2, <3>1, <3>2 DEF Slots
      <4> QED
        BY <3>2, <4>1 DEF Byte
    <3>4. ~garbled'
      BY <1>1, <3>2, <3>3, Zenon
    <3>5. sent' >= sendOffset' /\ answered' = asked'
      BY <1>1, <1>2, <3>1, <3>2
    <3> QED
      BY <3>4, <3>5
  <2>3. place' = "answers" /\ sent' \in Nat /\ sendOffset' \in Nat
    BY <1>1, <1>2
  <2> QED
    BY <2>1, <2>2, <2>3 DEF AnswersInv
<1> QED
  BY <1>3, <1>4, <1>5

(* The steps between the loops                                             *)
LEMMA BetweenInv == BitbangInv /\ (AnswersSent \/ Yield \/ Abort) => BitbangInv'
<1> SUFFICES ASSUME BitbangInv, AnswersSent \/ Yield \/ Abort PROVE BitbangInv'
  OBVIOUS
<1> USE BitbangConstants DEF BitbangInv
<1>1. /\ UNCHANGED <<client, arrivals, delivered, clientFd, recvBuf, recvStart, recvEnd, sendBuf, sendOffset,
                     sent, total, quit, inRti, enteredRti, settled, tapIdle, executed,
                     asked, answered, garbled, partial>>
      /\ \/ place = "answers" /\ sent >= sendOffset /\ place' = "check"
         \/ place = "check" /\ place' = "idle"
         \/ place' = "aborted"
  BY DEF AnswersSent, Yield, Abort, socketVars, recvVars, sendVars, tickVars, answerVars
<1>2. BitbangTypeOK'
  BY <1>1 DEF BitbangTypeOK
<1>3. CommandsNext' /\ LoopsInv'
  BY <1>1 DEF CommandsNext, LoopsInv, Unexecuted
<1>4. AnswersInv'
  BY <1>1 DEF AnswersInv, BitbangTypeOK
<1> QED
  BY <1>2, <1>3, <1>4

(* The buffer is refilled when all of it has been executed only            *)
LEMMA ReadInv ==
  ASSUME BitbangInv, NEW n \in 1 .. BufSize, Read(n)
  PROVE  BitbangInv'
<1> USE BitbangConstants DEF BitbangInv
<1>1. /\ place = "check" /\ ~(total > BufSize) /\ ~enteredRti /\ n <= arrivals - delivered
      /\ recvStart' = 0 /\ recvEnd' = n
      /\ recvBuf' = [k \in Slots |-> IF k < n THEN delivered + k + 1 ELSE recvBuf[k]]
      /\ delivered' = delivered + n /\ sendOffset' = 0 /\ sent' = 0 /\ place' = "commands"
      /\ UNCHANGED <<client, arrivals, clientFd, sendBuf, total, quit, inRti, enteredRti, settled,
                     tapIdle, executed, asked, answered, garbled, partial>>
  BY DEF Read, Yields, NewBatch, tickVars, answerVars
<1>2. /\ n \in Nat /\ n >= 1 /\ n <= BufSize /\ total \in Nat /\ executed \in Nat
      /\ delivered \in Nat /\ arrivals \in Nat /\ arrivals <= MaxCommands
      /\ asked \in Nat /\ answered \in Nat
  BY DEF BitbangTypeOK
<1>3. recvStart >= recvEnd /\ delivered = executed
  <2>1. recvStart >= recvEnd /\ recvStart \in Int /\ recvEnd \in Int
    BY <1>1 DEF LoopsInv, BitbangTypeOK
  <2>2. Unexecuted = 0
    BY <2>1 DEF Unexecuted
  <2> QED
    BY <1>2, <2>1, <2>2 DEF CommandsNext
<1>4. BitbangTypeOK'
  <2>1. recvBuf' \in [Slots -> Nat]
    <3>1. \A k \in Slots : k \in Nat /\ recvBuf[k] \in Nat
      BY DEF Slots, BitbangTypeOK
    <3>2. \A k \in Slots : delivered + k + 1 \in Nat
      BY <1>2, <3>1
    <3> QED
      BY <1>1, <3>1, <3>2
  <2>2. /\ delivered' \in 0 .. MaxCommands /\ recvStart' \in 0 .. BufSize /\ recvEnd' \in -1 .. BufSize
        /\ sendOffset' \in 0 .. BufSize /\ sent' \in Nat
        /\ place' \in {"idle", "commands", "answers", "check", "aborted"}
    BY <1>1, <1>2
  <2> QED
    BY <1>1, <2>1, <2>2, Zenon DEF BitbangTypeOK
<1>5. Unexecuted' = n
  BY <1>1, <1>2 DEF Unexecuted
<1>6. CommandsNext'
  <2>1. delivered' = executed' + Unexecuted'
    BY <1>1, <1>2, <1>3, <1>5
  <2>2. ASSUME NEW k \in Slots, recvStart' <= k, k < recvEnd'
        PROVE  recvBuf'[k] = executed' + 1 + (k - recvStart')
    <3>1. k \in Nat /\ recvBuf'[k] = delivered + k + 1
      BY <1>1, <2>2 DEF Slots
    <3> QED
      BY <1>1, <1>2, <1>3, <3>1
  <2> QED
    BY <2>1, <2>2 DEF CommandsNext
<1>7. LoopsInv'
  <2>1. recvStart' < recvEnd' /\ ~enteredRti' /\ total' + Unexecuted' <= 2 * BufSize /\ total' <= 2 * BufSize
    BY <1>1, <1>2, <1>5
  <2>2. (inRti' => tapIdle') /\ (settled' => enteredRti')
    BY <1>1 DEF LoopsInv
  <2> QED
    BY <1>1, <2>1, <2>2 DEF LoopsInv
<1>8. AnswersInv'
  <2>1. ~partial => ~garbled /\ answered = asked
    BY <1>1 DEF AnswersInv
  <2>2. \A k \in Slots : ~(k < sendOffset')
    BY <1>1 DEF Slots
  <2>3. ~partial' => asked' = answered' + sendOffset'
    BY <1>1, <1>2, <2>1
  <2>4. sendOffset' <= recvStart'
    BY <1>1
  <2> QED
    BY <1>1, <2>1, <2>2, <2>3, <2>4 DEF AnswersInv
<1> QED
  BY <1>4, <1>6, <1>7, <1>8

LEMMA ReadNothingInv == BitbangInv /\ ReadNothing => BitbangInv'
<1> SUFFICES ASSUME BitbangInv, ReadNothing PROVE BitbangInv'
  OBVIOUS
<1> USE BitbangConstants DEF BitbangInv
<1>1. /\ place = "check" /\ ~enteredRti /\ place' = "idle"
      /\ recvStart' = 0 /\ (recvEnd' = -1 \/ recvEnd' = 0)
      /\ client' \in {client, "none"} /\ clientFd' \in {clientFd, FALSE}
      /\ UNCHANGED <<arrivals, delivered, recvBuf, sendBuf, sendOffset, sent, total, quit, inRti, enteredRti,
                     settled, tapIdle, executed, asked, answered, garbled, partial>>
  BY DEF ReadNothing, Yields, sendVars, tickVars, answerVars
<1>2. recvStart >= recvEnd /\ recvStart \in Int /\ recvEnd \in Int /\ executed \in Nat
  BY <1>1 DEF LoopsInv, BitbangTypeOK
<1>3. Unexecuted = 0 /\ Unexecuted' = 0
  BY <1>1, <1>2 DEF Unexecuted
<1>4. BitbangTypeOK'
  <2>1. recvStart' \in 0 .. BufSize /\ recvEnd' \in -1 .. BufSize
    BY <1>1
  <2>2. client' \in {"none", "open", "closed"} /\ clientFd' \in BOOLEAN
        /\ place' \in {"idle", "commands", "answers", "check", "aborted"}
    BY <1>1 DEF BitbangTypeOK
  <2> QED
    BY <1>1, <2>1, <2>2, Zenon DEF BitbangTypeOK
<1>5. CommandsNext'
  <2>1. \A k \in Slots : ~(recvStart' <= k /\ k < recvEnd')
    BY <1>1 DEF Slots
  <2> QED
    BY <1>1, <1>3, <2>1 DEF CommandsNext
<1>6. LoopsInv'
  BY <1>1 DEF LoopsInv
<1>7. AnswersInv'
  BY <1>1 DEF AnswersInv
<1> QED
  BY <1>4, <1>5, <1>6, <1>7

LEMMA BitbangStepInv == BitbangInv /\ [BitbangNext]_bitbangVars => BitbangInv'
<1> SUFFICES ASSUME BitbangInv, [BitbangNext]_bitbangVars PROVE BitbangInv'
  OBVIOUS
<1>1. CASE Client  BY <1>1, ClientInv
<1>2. CASE Accept  BY <1>2, AcceptInv
<1>3. CASE Tick  BY <1>3, TickInv
<1>4. CASE Execute  BY <1>4, ExecuteInv
<1>5. CASE AnswersSent \/ Yield \/ Abort  BY <1>5, BetweenInv
<1>6. CASE ReadNothing  BY <1>6, ReadNothingInv
<1>7. ASSUME NEW n \in 1 .. BufSize, Read(n) PROVE BitbangInv'
  BY <1>7, ReadInv
<1>8. ASSUME NEW n \in 1 .. sendOffset, Write(n) PROVE BitbangInv'
  BY <1>8, WriteInv
<1>9. CASE UNCHANGED bitbangVars
  BY <1>9 DEF BitbangInv, BitbangTypeOK, CommandsNext, LoopsInv, AnswersInv, Unexecuted, bitbangVars,
              socketVars, recvVars, sendVars, tickVars, answerVars
<1> QED
  BY <1>1, <1>2, <1>3, <1>4, <1>5, <1>6, <1>7, <1>8, <1>9 DEF BitbangNext, Server, Aborted

LEMMA BitbangInvAlways == BitbangSpec => []BitbangInv
BY BitbangInitInv, BitbangStepInv, PTL DEF BitbangSpec

(* The variables of the socket keep their types, for any size of the       *)
(* buffers: recv_start and recv_end never leave the buffer.                *)
THEOREM BitbangTypeCorrect == BitbangSpec => []BitbangTypeOK
<1>1. BitbangInv => BitbangTypeOK
  BY DEF BitbangInv
<1> QED
  BY <1>1, BitbangInvAlways, PTL

(* Each command is executed once and in order, whatever the size of the    *)
(* buffers, wherever ticks stop and clients come and go; and none after    *)
(* the TAP has come into Run-Test/Idle, until the tick has ended.          *)
THEOREM BitbangCommandsInTurn == BitbangSpec => CommandsInTurn
<1>1. BitbangInv /\ [BitbangNext]_bitbangVars
      => [Execute => executed' = executed + 1 /\ ~settled]_bitbangVars
  BY ExecuteFacts DEF BitbangInv, LoopsInv, Execute
<1> QED
  BY <1>1, BitbangInvAlways, PTL DEF BitbangSpec, CommandsInTurn

(* Whatever the client sends, the next answer has room in send_buf, since  *)
(* there are no more answers than commands of the receive buffer that are  *)
(* done; the answers reach the client in order, each once, before the tick *)
(* ends, as long as the socket takes what it is offered; and a tick        *)
(* executes two buffers of commands at most: what the last tick has left   *)
(* or one read, and then one more read.                                    *)
THEOREM BitbangServes == BitbangSpec => []SocketServes
<1>1. BitbangInv => AnswersInOrder
  BY DEF BitbangInv, AnswersInv, AnswersInOrder
<1>2. BitbangInv => AnswersFit
  BY BitbangConstants DEF BitbangInv, BitbangTypeOK, AnswersInv, LoopsInv, AnswersFit
<1>3. BitbangInv => TickIsBounded
  BY DEF BitbangInv, LoopsInv, TickIsBounded
<1> QED
  BY <1>1, <1>2, <1>3, BitbangInvAlways, PTL DEF SocketServes
-----------------------------------------------------------------------------
(***************************************************************************)
(* The three, one at a time, as they are checked                           *)
(***************************************************************************)
TransportInv == JtagInv /\ BitbangInv /\ ContextInv

LEMMA TransportStepKeepsTwo ==
  [Next]_vars => [JtagNext]_jtagVars /\ [BitbangNext]_bitbangVars /\ [ContextNext]_contextVars
BY Zenon DEF Next, JtagStep, SocketStep, ContextStep, vars

LEMMA TransportInvInductive ==
  /\ Init => TransportInv
  /\ TransportInv /\ [Next]_vars => TransportInv'
<1>1. Init => TransportInv
  BY JtagInitInv, BitbangInitInv, ContextInvInductive, Zenon DEF Init, TransportInv
<1>2. TransportInv /\ [Next]_vars => TransportInv'
  BY TransportStepKeepsTwo, JtagStepInv, BitbangStepInv, ContextInvInductive, Zenon DEF TransportInv
<1> QED
  BY <1>1, <1>2

(* The registers of the transport, the buffers of the socket and the       *)
(* flags, mutexes and places of the threads keep their types.              *)
THEOREM TransportTypeCorrect == Spec => []TypeOK
<1>1. TransportInv => TypeOK
  BY Zenon DEF TransportInv, JtagInv, BitbangInv, ContextInv, TypeOK
<1> QED
  BY <1>1, TransportInvInductive, PTL DEF Spec
=============================================================================
