------------------------------ MODULE JtagDtm -------------------------------
(***************************************************************************)
(* The JTAG debug transport (riscv/jtag_dtm.cc): the TAP state machine,    *)
(* the instruction and data registers, and the DMI accesses that scans of  *)
(* the register DBUS make, with the busy protocol between them.            *)
(*                                                                         *)
(* Of a word of DBUS only the operation counts, of DTMCONTROL only the two *)
(* reset bits.  The bits that the debugger shifts in, and how many, are    *)
(* its choice: after a clock in a shift state the register holds any word. *)
(*                                                                         *)
(* set_pins does the work of the falling edge on every call that is not a  *)
(* rising edge.  A debugger repeats a level of the clock in the stable     *)
(* states only (the end of a movement leaves the clock low, and the next   *)
(* one starts with it low).                                                *)
(***************************************************************************)
EXTENDS Integers

CONSTANTS
  RequiredRtiCycles,  \* required_rti_cycles
  Garbage             \* bound: what an uninitialised rti_remaining may hold

ASSUME JtagAssumption == RequiredRtiCycles \in Nat /\ Garbage \in Nat

(* The states, each with its successors for TMS = 0 and TMS = 1 *)
TapNext == [
  TEST_LOGIC_RESET |-> <<"RUN_TEST_IDLE", "TEST_LOGIC_RESET">>,
  RUN_TEST_IDLE    |-> <<"RUN_TEST_IDLE", "SELECT_DR_SCAN">>,
  SELECT_DR_SCAN   |-> <<"CAPTURE_DR", "SELECT_IR_SCAN">>,
  CAPTURE_DR       |-> <<"SHIFT_DR", "EXIT1_DR">>,
  SHIFT_DR         |-> <<"SHIFT_DR", "EXIT1_DR">>,
  EXIT1_DR         |-> <<"PAUSE_DR", "UPDATE_DR">>,
  PAUSE_DR         |-> <<"PAUSE_DR", "EXIT2_DR">>,
  EXIT2_DR         |-> <<"SHIFT_DR", "UPDATE_DR">>,
  UPDATE_DR        |-> <<"RUN_TEST_IDLE", "SELECT_DR_SCAN">>,
  SELECT_IR_SCAN   |-> <<"CAPTURE_IR", "TEST_LOGIC_RESET">>,
  CAPTURE_IR       |-> <<"SHIFT_IR", "EXIT1_IR">>,
  SHIFT_IR         |-> <<"SHIFT_IR", "EXIT1_IR">>,
  EXIT1_IR         |-> <<"PAUSE_IR", "UPDATE_IR">>,
  PAUSE_IR         |-> <<"PAUSE_IR", "EXIT2_IR">>,
  EXIT2_IR         |-> <<"SHIFT_IR", "UPDATE_IR">>,
  UPDATE_IR        |-> <<"RUN_TEST_IDLE", "SELECT_DR_SCAN">>]

TapStates == DOMAIN TapNext
Stable == {s \in TapStates : TapNext[s][1] = s \/ TapNext[s][2] = s}
InDrScan == {"CAPTURE_DR", "SHIFT_DR", "EXIT1_DR", "PAUSE_DR", "EXIT2_DR", "UPDATE_DR"}

Irs == {"IDCODE", "DTMCONTROL", "DBUS", "BYPASS", "unsupported"}

(* The two bits of a word that count: the operation that a word of DBUS    *)
(* asks for (NOP, READ, WRITE, RESERVED) or the status that it reports     *)
(* (SUCCESS, RESERVED, FAILED, BUSY); DMIRESET and DMIHARDRESET.  As in    *)
(* the code, NOP and SUCCESS are the same word, and FAILED is a WRITE.     *)
Words == 0 .. 3
READ == 1
WRITE == 2
SUCCESS == 0
FAILED == 2
BUSY == 3
DmiReset(word) == word % 2 = 1
DmiHardReset(word) == word >= 2

VARIABLES
  tap,           \* _state
  tck, ir, dr, dmi, rtiRemaining, busyStuck,
  scan,          \* history: what the running or last scan of DBUS captured
  performed,     \* history: the DMI accesses of that scan
  idled,         \* history: clocks in Run-Test/Idle since the last access
  initialised    \* history: reset() has been called

exceptClock == <<tap, ir, dr, dmi, rtiRemaining, busyStuck,
                 scan, performed, idled, initialised>>
jtagVars == <<tck, exceptClock>>

JtagTypeOK ==
  /\ tap \in TapStates /\ tck \in BOOLEAN /\ ir \in Irs
  /\ dr \in Words /\ dmi \in Words
  /\ rtiRemaining \in 0 .. RequiredRtiCycles + Garbage /\ busyStuck \in BOOLEAN
  /\ scan \in {"none", "granted", "busy"} /\ performed \in 0 .. 2
  /\ idled \in 0 .. RequiredRtiCycles /\ initialised \in BOOLEAN

(* The constructor leaves ir, dr, rti_remaining and busy_stuck unset *)
JtagInit ==
  /\ tap = "TEST_LOGIC_RESET" /\ tck = FALSE
  /\ ir \in Irs
  /\ dr = 0 /\ dmi = SUCCESS
  /\ rtiRemaining \in 0 .. Garbage
  /\ busyStuck \in BOOLEAN
  /\ scan = "none" /\ performed = 0 /\ idled = 0 /\ initialised = FALSE

Least(a, b) == IF a < b THEN a ELSE b

(* A rising edge: the bit comes in and the state machine moves *)
RisingEdge(tms) ==
  /\ ~tck /\ tck' = TRUE
  /\ tap' = TapNext[tap][IF tms THEN 2 ELSE 1]
  /\ IF tap = "SHIFT_DR" /\ ir \in {"DTMCONTROL", "DBUS"} THEN dr' \in Words ELSE dr' = dr
  /\ IF tap = "SHIFT_IR" THEN ir' \in Irs ELSE ir' = ir
  /\ idled' = IF tap' = "RUN_TEST_IDLE" THEN Least(idled + 1, RequiredRtiCycles) ELSE idled
  /\ IF tap' = "CAPTURE_DR" THEN scan' = "none" /\ performed' = 0
                            ELSE UNCHANGED <<scan, performed>>
  /\ UNCHANGED <<dmi, rtiRemaining, busyStuck, initialised>>

(* capture_dr *)
Capture ==
  /\ \/ /\ ir = "DBUS"
        /\ busyStuck' = (rtiRemaining > 0 \/ busyStuck)
        /\ dr' = IF busyStuck' THEN BUSY ELSE dmi
        /\ scan' = IF busyStuck' THEN "busy" ELSE "granted"
     \/ ir = "DTMCONTROL" /\ dr' = 0 /\ UNCHANGED <<busyStuck, scan>>
     \/ ir \notin {"DBUS", "DTMCONTROL"} /\ UNCHANGED <<dr, busyStuck, scan>>
  /\ UNCHANGED <<tap, ir, dmi, rtiRemaining, performed, idled, initialised>>

(* reset *)
ResetTap ==
  /\ tap' = "TEST_LOGIC_RESET"
  /\ busyStuck' = FALSE
  /\ rtiRemaining' = 0
  /\ dmi' = 0
  /\ scan' = "none" /\ initialised' = TRUE

(* A mutant of Access: one cycle more than required *)
AccessForLonger ==
  /\ \E success \in BOOLEAN :
       /\ dr \notin {READ, WRITE} => success
       /\ dmi' = IF success THEN SUCCESS ELSE FAILED
  /\ rtiRemaining' = RequiredRtiCycles + 1
  /\ performed' = Least(performed + 1, 2)
  /\ idled' = 0
  /\ UNCHANGED <<tap, ir, dr, busyStuck, scan, initialised>>

(* update_dr; the Debug Module may refuse an access *)
Access ==
  /\ \E success \in BOOLEAN :
       /\ dr \notin {READ, WRITE} => success
       /\ dmi' = IF success THEN SUCCESS ELSE FAILED
  /\ rtiRemaining' = RequiredRtiCycles
  /\ performed' = Least(performed + 1, 2)
  /\ idled' = 0
  /\ UNCHANGED <<tap, ir, dr, busyStuck, scan, initialised>>

Control ==
  /\ IF DmiHardReset(dr) THEN ResetTap
     ELSE /\ busyStuck' = (busyStuck /\ ~DmiReset(dr))
          /\ UNCHANGED <<tap, rtiRemaining, dmi, scan, initialised>>
  /\ UNCHANGED <<ir, dr, performed, idled>>

(* A mutant of Update: busy_stuck is not looked at *)
UpdateWhenBusy ==
  \/ ir = "DBUS" /\ Access
  \/ ir = "DTMCONTROL" /\ Control
  \/ ir \notin {"DBUS", "DTMCONTROL"} /\ UNCHANGED exceptClock

Update ==
  \/ ir = "DBUS" /\ ~busyStuck /\ Access
  \/ ir = "DTMCONTROL" /\ Control
  \/ ir \notin {"DBUS", "DTMCONTROL"} /\ UNCHANGED exceptClock
  \/ ir = "DBUS" /\ busyStuck /\ UNCHANGED exceptClock

(* A mutant of CountedDown: zero is not looked at *)
CountedDownFreely == rtiRemaining - 1

(* A clock in Run-Test/Idle *)
CountedDown == IF rtiRemaining > 0 THEN rtiRemaining - 1 ELSE 0

(* Any other call *)
FallingEdge(level) ==
  /\ tck \/ ~level
  /\ level = tck => tap \in Stable
  /\ tck' = level
  /\ \/ /\ tap = "RUN_TEST_IDLE"
        /\ rtiRemaining' = CountedDown
        /\ UNCHANGED <<tap, ir, dr, dmi, busyStuck, scan, performed, idled, initialised>>
     \/ /\ tap = "TEST_LOGIC_RESET"
        /\ ir' = "IDCODE"
        /\ UNCHANGED <<tap, dr, dmi, rtiRemaining, busyStuck, scan, performed, idled, initialised>>
     \/ tap = "CAPTURE_DR" /\ Capture
     \/ tap = "UPDATE_DR" /\ Update
     \/ /\ tap \notin {"RUN_TEST_IDLE", "TEST_LOGIC_RESET", "CAPTURE_DR", "UPDATE_DR"}
        /\ UNCHANGED exceptClock

(* The command 'r' of the socket *)
ResetCommand ==
  /\ ResetTap
  /\ UNCHANGED <<tck, ir, dr, performed, idled>>

JtagNext ==
  \/ \E tms \in BOOLEAN : RisingEdge(tms)
  \/ \E level \in BOOLEAN : FallingEdge(level)
  \/ ResetCommand

JtagSpec == JtagInit /\ [][JtagNext]_jtagVars
-----------------------------------------------------------------------------
(* A scan of DBUS that captured something else than busy performs its      *)
(* access, once; a scan that captured busy performs none, so that exactly  *)
(* the operations whose scans said busy have to be repeated.               *)
AccessOncePerGrantedScan ==
  /\ scan = "busy" => performed = 0
  /\ scan = "granted" => performed <= (IF tap \in InDrScan \ {"UPDATE_DR"} THEN 0 ELSE 1)
  /\ scan = "granted" /\ tap \notin InDrScan => performed = 1

(* A debugger that gives each access its cycles in Run-Test/Idle is never  *)
(* told that it came too early, from the first reset on; after busy it     *)
(* needs dmireset once and is granted again.                               *)
IdlingSuffices ==
  [][/\ tap = "CAPTURE_DR" /\ tck /\ ~tck' /\ ir = "DBUS"
     /\ initialised /\ ~busyStuck /\ idled = RequiredRtiCycles
     => scan' = "granted"]_jtagVars
=============================================================================
