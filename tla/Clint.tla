------------------------------- MODULE Clint --------------------------------
(***************************************************************************)
(* The core-local interruptor (riscv/clint.cc): one word per hart that     *)
(* sends a software interrupt, and a timer with one comparator per hart.   *)
(* It writes the harts' mip through the back door; the harts and the test  *)
(* bench write other bits of the same register.                            *)
(*                                                                         *)
(* The clock is the counted one (real_time = false).  64-bit registers are *)
(* written at once.                                                        *)
(***************************************************************************)
EXTENDS Integers

CONSTANTS
  NHarts,   \* procs.size()
  MaxTime   \* bound: the values that mtime and mtimecmp take

Harts == 0 .. NHarts - 1
Times == 0 .. MaxTime

ASSUME ClintAssumption == NHarts \in Nat \ {0} /\ MaxTime \in Nat

VARIABLES
  mip,       \* of each hart: the interrupts pending in its mip
  mtime,
  mtimecmp,  \* of each hart
  freshReset \* history: the harts reset since MTIP was last computed

clockVars == <<mtime, mtimecmp>>
clintVars == <<mip, clockVars, freshReset>>

(* The end of clint_t::increment: MTIP of every hart is computed anew *)
WithTimer(pins, time, cmp) ==
  [h \in Harts |-> IF time >= cmp[h] THEN pins[h] \cup {"MTI"} ELSE pins[h] \ {"MTI"}]

Drive(pins, time, cmp) ==
  /\ mip' = WithTimer(pins, time, cmp)
  /\ freshReset' = {}

(* What the constructor leaves *)
ClintInit ==
  /\ mtime = 0
  /\ mtimecmp = [h \in Harts |-> 0]
  /\ mip = WithTimer([h \in Harts |-> {}], 0, [h \in Harts |-> 0])
  /\ freshReset = {}

(* The harts whose msip words one aligned store of four or eight bytes     *)
(* covers                                                                  *)
Stores == {{h} : h \in Harts} \cup {{h, h + 1} : h \in {k \in Harts : k % 2 = 0 /\ k + 1 \in Harts}}

StoreMsip(covered, sent) ==
  LET pins == [h \in Harts |-> IF h \in covered
                               THEN IF h \in sent THEN mip[h] \cup {"MSI"} ELSE mip[h] \ {"MSI"}
                               ELSE mip[h]]
  IN /\ Drive(pins, mtime, mtimecmp)
     /\ UNCHANGED clockVars

(* A mutant of StoreMtimecmp: the pins are left as they were *)
StoreMtimecmpAlone(h, t) ==
  /\ mtimecmp' = [mtimecmp EXCEPT ![h] = t]
  /\ UNCHANGED <<mtime, mip, freshReset>>

StoreMtimecmp(h, t) ==
  /\ mtimecmp' = [mtimecmp EXCEPT ![h] = t]
  /\ Drive(mip, mtime, mtimecmp')
  /\ UNCHANGED mtime

StoreMtime(t) ==
  /\ mtime' = t
  /\ Drive(mip, t, mtimecmp)
  /\ UNCHANGED mtimecmp

(* A load of any register first calls increment(0) *)
ClintLoad ==
  /\ Drive(mip, mtime, mtimecmp)
  /\ UNCHANGED clockVars

(* What a program may store or load, by any hart *)
ClintAccess ==
  \/ \E covered \in Stores : \E sent \in SUBSET covered : StoreMsip(covered, sent)
  \/ \E h \in Harts, t \in Times : StoreMtimecmp(h, t)
  \/ \E t \in Times : StoreMtime(t)
  \/ ClintLoad

(* Time passes only when the test bench says so (spike_clint_set_increment) *)
(* since the scheduler's own call is commented out                          *)
Increment(inc) ==
  /\ mtime + inc \in Times
  /\ mtime' = mtime + inc
  /\ Drive(mip, mtime', mtimecmp)
  /\ UNCHANGED mtimecmp

(* A reset gives the hart a new mip; nothing tells the CLINT *)
ResetPins(h) ==
  /\ mip' = [mip EXCEPT ![h] = {}]
  /\ freshReset' = freshReset \cup {h}
  /\ UNCHANGED clockVars
=============================================================================
