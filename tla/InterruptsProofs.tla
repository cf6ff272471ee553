-------------------------- MODULE InterruptsProofs --------------------------
(***************************************************************************)
(* Theorems about the interrupts, exceptions and returns of Interrupts,    *)
(* for any number of harts, any time and whatever software writes.         *)
(***************************************************************************)
EXTENDS Interrupts, TLAPS

LEMMA InterruptNames ==
  /\ Interrupts = {"MEI", "MSI", "MTI", "SEI", "SSI", "STI"}
  /\ SupervisorInts \subseteq Interrupts
  /\ External \subseteq Interrupts
<1>1. Interrupts = {"MEI", "MSI", "MTI", "SEI", "SSI", "STI"}
  BY DEF Interrupts, Priority
<1> QED
  BY <1>1, InterruptsAssumption DEF SupervisorInts

LEMMA Sizes == 0 \in Harts /\ 0 \in Times /\ Harts \subseteq Nat /\ Times \subseteq Nat
  BY ClintAssumption DEF Harts, Times

(* Interrupt pins and the clock keep their types                           *)
PinsOK ==
  /\ mip \in [Harts -> SUBSET Interrupts]
  /\ mtime \in Times /\ mtimecmp \in [Harts -> Times]
  /\ freshReset \in SUBSET Harts

LEMMA DriveType ==
  ASSUME NEW pins \in [Harts -> SUBSET Interrupts], NEW time, NEW cmp, Drive(pins, time, cmp)
  PROVE  mip' \in [Harts -> SUBSET Interrupts] /\ freshReset' \in SUBSET Harts
  BY InterruptNames DEF Drive, WithTimer

LEMMA ClintAccessType == PinsOK /\ ClintAccess => PinsOK'
<1> SUFFICES ASSUME PinsOK, ClintAccess PROVE PinsOK'
  OBVIOUS
<1>1. ASSUME NEW covered \in Stores, NEW sent \in SUBSET covered, StoreMsip(covered, sent)
      PROVE  PinsOK'
  <2> DEFINE pins == [h \in Harts |-> IF h \in covered
                               THEN IF h \in sent THEN mip[h] \cup {"MSI"} ELSE mip[h] \ {"MSI"}
                               ELSE mip[h]]
  <2>1. pins \in [Harts -> SUBSET Interrupts]
    BY InterruptNames DEF PinsOK
  <2>2. Drive(pins, mtime, mtimecmp) /\ UNCHANGED clockVars
    BY <1>1 DEF StoreMsip
  <2> HIDE DEF pins
  <2> QED
    BY <2>1, <2>2, DriveType DEF PinsOK, clockVars
<1>2. ASSUME NEW h \in Harts, NEW t \in Times, StoreMtimecmp(h, t) PROVE PinsOK'
  BY <1>2, DriveType DEF StoreMtimecmp, PinsOK
<1>3. ASSUME NEW t \in Times, StoreMtime(t) PROVE PinsOK'
  BY <1>3, DriveType DEF StoreMtime, PinsOK
<1>4. CASE ClintLoad
  BY <1>4, DriveType DEF ClintLoad, PinsOK, clockVars
<1> QED
  BY <1>1, <1>2, <1>3, <1>4 DEF ClintAccess
-----------------------------------------------------------------------------
(* The registers of the harts keep their types                             *)
HartsOK ==
  /\ prv \in [Harts -> Privileges]
  /\ mstatus \in [Harts -> Mstatus]
  /\ mie \in [Harts -> SUBSET Interrupts]
  /\ mideleg \in [Harts -> SUBSET SupervisorInts]
  /\ medeleg \in [Harts -> SUBSET (Causes \ {"machine_ecall"})]
  /\ pc \in [Harts -> Labels] /\ mepc \in [Harts -> Labels] /\ sepc \in [Harts -> Labels]
  /\ debugMode \in SUBSET Harts
  /\ dpc \in [Harts -> Labels] /\ dcsrPrv \in [Harts -> Privileges]
  /\ top \in SUBSET Harts
  /\ mframe \in [Harts -> Frames \cup {NoFrame}]
  /\ sframe \in [Harts -> Frames \cup {NoFrame}]

LEMMA TypeParts == InterruptsTypeOK <=> PinsOK /\ HartsOK
  BY DEF InterruptsTypeOK, PinsOK, HartsOK

(* The fields of mstatus, and what traps, returns and writes make of it.   *)
LEMMA StatusFields ==
  ASSUME NEW m \in Mstatus
  PROVE  /\ m.mie \in BOOLEAN /\ m.mpie \in BOOLEAN /\ m.mpp \in Privileges
         /\ m.sie \in BOOLEAN /\ m.spie \in BOOLEAN /\ m.spp \in {U, S}
  BY DEF Mstatus

LEMMA StatusUpdates ==
  ASSUME NEW m \in Mstatus, NEW a \in BOOLEAN, NEW b \in BOOLEAN,
         NEW p \in Privileges, NEW q \in {U, S}
  PROVE  /\ [m EXCEPT !.mie = a, !.mpie = b, !.mpp = p] \in Mstatus
         /\ [m EXCEPT !.sie = a, !.spie = b, !.spp = q] \in Mstatus
         /\ [m EXCEPT !.mpie = a, !.mpp = p, !.mie = b] \in Mstatus
         /\ [m EXCEPT !.spie = a, !.spp = q, !.sie = b] \in Mstatus
  BY DEF Mstatus

LEMMA TakeTrapType ==
  ASSUME HartsOK, NEW h \in Harts, NEW cause, NEW interrupt \in BOOLEAN,
         TakeTrap(h, cause, interrupt)
  PROVE  HartsOK'
<1>m. mstatus[h] \in Mstatus /\ prv[h] \in Privileges
  BY DEF HartsOK
<1>b. mstatus[h].sie \in BOOLEAN /\ mstatus[h].mie \in BOOLEAN
  BY <1>m, StatusFields
<1> USE DEF HartsOK
<1>0. UNCHANGED <<mie, mideleg, medeleg, debugMode, dpc, dcsrPrv>> /\ top' \in SUBSET Harts
  BY DEF TakeTrap, debugVars
<1>1. CASE h \in debugMode
  BY <1>0, <1>1 DEF TakeTrap, TrapToRom, Labels, history
<1>2. CASE h \notin debugMode /\ Delegated(h, cause, interrupt)
  <2>1. TrapToSupervisor(h) /\ prv[h] \in {U, S}
    BY <1>2 DEF TakeTrap, Delegated, Privileges, U, S, M
  <2>2. [mstatus[h] EXCEPT !.spie = mstatus[h].sie, !.spp = prv[h], !.sie = FALSE] \in Mstatus
    <3>1. FALSE \in BOOLEAN /\ prv[h] \in {U, S}
      BY <2>1 DEF U, S
    <3> QED
      BY <1>m, <1>b, <3>1, StatusUpdates DEF Privileges
  <2>3. mstatus' = [mstatus EXCEPT ![h] =
                      [mstatus[h] EXCEPT !.spie = mstatus[h].sie, !.spp = prv[h], !.sie = FALSE]]
    BY <2>1 DEF TrapToSupervisor
  <2>4. mstatus' \in [Harts -> Mstatus]
    BY <2>2, <2>3
  <2>5. Opened(sframe[h], h, mstatus[h].sie) \in Frames \cup {NoFrame}
    BY DEF Opened, Frames, Mstatus
  <2>6. sframe' \in [Harts -> Frames \cup {NoFrame}]
    BY <2>1, <2>5 DEF TrapToSupervisor
  <2> QED
    BY <1>0, <2>1, <2>4, <2>6 DEF TrapToSupervisor, Labels, Privileges
<1>3. CASE h \notin debugMode /\ ~Delegated(h, cause, interrupt)
  <2>1. TrapToMachine(h)
    BY <1>3 DEF TakeTrap
  <2>2. [mstatus[h] EXCEPT !.mpie = mstatus[h].mie, !.mpp = prv[h], !.mie = FALSE] \in Mstatus
    <3>1. FALSE \in BOOLEAN /\ U \in {U, S}
      OBVIOUS
    <3> QED
      BY <1>m, <1>b, <3>1, StatusUpdates
  <2>3. mstatus' = [mstatus EXCEPT ![h] =
                      [mstatus[h] EXCEPT !.mpie = mstatus[h].mie, !.mpp = prv[h], !.mie = FALSE]]
    BY <2>1 DEF TrapToMachine
  <2>4. mstatus' \in [Harts -> Mstatus]
    BY <2>2, <2>3
  <2>5. Opened(mframe[h], h, mstatus[h].mie) \in Frames \cup {NoFrame}
    BY DEF Opened, Frames, Mstatus
  <2>6. mframe' \in [Harts -> Frames \cup {NoFrame}]
    BY <2>1, <2>5 DEF TrapToMachine
  <2> QED
    BY <1>0, <2>1, <2>4, <2>6 DEF TrapToMachine, Labels, Privileges
<1> QED
  BY <1>1, <1>2, <1>3

LEMMA MaskedType ==
  ASSUME NEW T, NEW old \in SUBSET T, NEW mask, NEW new, mask \subseteq T
  PROVE  Masked(old, mask, new) \in SUBSET T
  BY DEF Masked

(* A step that changes neither the pins nor the clock, or nothing else     *)
LEMMA ReturnTypes ==
  ASSUME HartsOK, NEW h \in Harts, Mret(h) \/ Sret(h)
  PROVE  HartsOK'
<1>0. mstatus[h] \in Mstatus /\ TRUE \in BOOLEAN /\ U \in Privileges /\ U \in {U, S}
  BY DEF HartsOK, Privileges
<1>b. /\ mstatus[h].mpie \in BOOLEAN /\ mstatus[h].mpp \in Privileges
      /\ mstatus[h].spie \in BOOLEAN /\ mstatus[h].spp \in Privileges
  BY <1>0, StatusFields DEF Privileges
<1> USE DEF HartsOK
<1>1. CASE Mret(h)
  <2>1. [mstatus[h] EXCEPT !.mie = mstatus[h].mpie, !.mpie = TRUE, !.mpp = U] \in Mstatus
    BY <1>0, <1>b, StatusUpdates
  <2>2. mstatus' = [mstatus EXCEPT ![h] =
                      [mstatus[h] EXCEPT !.mie = mstatus[h].mpie, !.mpie = TRUE, !.mpp = U]]
    BY <1>1 DEF Mret
  <2>3. mstatus' \in [Harts -> Mstatus]
    BY <2>1, <2>2
  <2>4. mstatus[h].mpp \in Privileges
    BY <1>b
  <2> QED
    BY <1>1, <2>3, <2>4 DEF Mret, Serializes, debugVars
<1>2. CASE Sret(h)
  <2>1. [mstatus[h] EXCEPT !.sie = mstatus[h].spie, !.spie = TRUE, !.spp = U] \in Mstatus
    BY <1>0, <1>b, StatusUpdates
  <2>2. mstatus' = [mstatus EXCEPT ![h] =
                      [mstatus[h] EXCEPT !.sie = mstatus[h].spie, !.spie = TRUE, !.spp = U]]
    BY <1>2 DEF Sret
  <2>3. mstatus' \in [Harts -> Mstatus]
    BY <2>1, <2>2
  <2>4. mstatus[h].spp \in Privileges
    BY <1>b
  <2> QED
    BY <1>2, <2>3, <2>4 DEF Sret, Serializes, debugVars
<1> QED
  BY <1>1, <1>2

CsrWrites(h) ==
  \/ WriteMstatus(h) \/ WriteSstatus(h) \/ WriteMie(h) \/ WriteSie(h)
  \/ WriteMip(h) \/ WriteSip(h) \/ WriteClearmip(h) \/ WriteDelegation(h)

LEMMA StatusWriteType ==
  ASSUME HartsOK, NEW h \in Harts, WriteMstatus(h) \/ WriteSstatus(h)
  PROVE  mstatus' \in [Harts -> Mstatus]
<1>0. mstatus[h] \in Mstatus /\ U \in {U, S} /\ U \in Privileges
  BY DEF HartsOK, Privileges
<1> USE DEF HartsOK
<1>1. CASE WriteMstatus(h)
  <2>1. PICK ie \in BOOLEAN, pie \in BOOLEAN, pp \in Privileges :
          mstatus' = [mstatus EXCEPT ![h].mie = ie, ![h].mpie = pie, ![h].mpp = pp]
    BY <1>1 DEF WriteMstatus
  <2>2. [mstatus[h] EXCEPT !.mie = ie, !.mpie = pie, !.mpp = pp] \in Mstatus
    BY <1>0, StatusUpdates
  <2>3. mstatus' = [mstatus EXCEPT ![h] = [mstatus[h] EXCEPT !.mie = ie, !.mpie = pie, !.mpp = pp]]
    BY <2>1
  <2> QED
    BY <2>2, <2>3
<1>2. CASE WriteSstatus(h)
  <2>1. PICK ie \in BOOLEAN, pie \in BOOLEAN, pp \in {U, S} :
          mstatus' = [mstatus EXCEPT ![h].sie = ie, ![h].spie = pie, ![h].spp = pp]
    BY <1>2 DEF WriteSstatus
  <2>2. [mstatus[h] EXCEPT !.sie = ie, !.spie = pie, !.spp = pp] \in Mstatus
    BY <1>0, StatusUpdates
  <2>3. mstatus' = [mstatus EXCEPT ![h] = [mstatus[h] EXCEPT !.sie = ie, !.spie = pie, !.spp = pp]]
    BY <2>1
  <2> QED
    BY <2>2, <2>3
<1> QED
  BY <1>1, <1>2

LEMMA CsrWritesType ==
  ASSUME PinsOK, HartsOK, NEW h \in Harts, CsrWrites(h)
  PROVE  PinsOK' /\ HartsOK'
<1>0. CsrWrite(h)
  BY DEF CsrWrites, WriteMstatus, WriteSstatus, WriteMie, WriteSie, WriteMip, WriteSip,
         WriteClearmip, WriteDelegation
<1>1. /\ UNCHANGED <<prv, pc, debugMode, dpc, dcsrPrv, mframe, sframe, mtime, mtimecmp, freshReset, mepc, sepc>>
      /\ top' \in SUBSET Harts
  BY <1>0 DEF CsrWrite, debugVars, history, clockVars, Serializes, HartsOK
<1>2. mip' \in [Harts -> SUBSET Interrupts]
  <2>1. CASE WriteMip(h)
    <3>1. PICK val \in MipWrites : mip' = [mip EXCEPT ![h] = Masked(mip[h], SupervisorInts, val)]
      BY <2>1 DEF WriteMip
    <3>2. Masked(mip[h], SupervisorInts, val) \in SUBSET Interrupts
      BY InterruptNames DEF PinsOK, Masked
    <3> QED
      BY <3>1, <3>2 DEF PinsOK
  <2>2. CASE WriteSip(h)
    <3>1. mideleg[h] \cap {"SSI"} \subseteq Interrupts
      BY InterruptNames
    <3> QED
      BY <2>2, <3>1, MaskedType DEF WriteSip, PinsOK
  <2>3. CASE WriteClearmip(h)
    <3>1. {"SEI", "MEI", "MSI"} \subseteq Interrupts
      BY InterruptNames
    <3> QED
      BY <2>3, <3>1, MaskedType DEF WriteClearmip, SetMipEi, PinsOK
  <2>4. CASE ~(WriteMip(h) \/ WriteSip(h) \/ WriteClearmip(h))
    BY <2>4 DEF CsrWrites, WriteMstatus, WriteSstatus, WriteMie, WriteSie, WriteDelegation, PinsOK
  <2> QED
    BY <2>1, <2>2, <2>3, <2>4
<1>3. mie' \in [Harts -> SUBSET Interrupts]
  <2>1. CASE WriteMie(h)
    BY <2>1, InterruptsAssumption DEF WriteMie, HartsOK
  <2>2. CASE WriteSie(h)
    <3>1. mideleg[h] \subseteq Interrupts
      BY InterruptNames DEF HartsOK
    <3> QED
      BY <2>2, <3>1, MaskedType DEF WriteSie, HartsOK
  <2>3. CASE ~(WriteMie(h) \/ WriteSie(h))
    BY <2>3 DEF CsrWrites, WriteMstatus, WriteSstatus, WriteMip, WriteSip, WriteClearmip,
                WriteDelegation, HartsOK
  <2> QED
    BY <2>1, <2>2, <2>3
<1>4. mideleg' \in [Harts -> SUBSET SupervisorInts] /\ medeleg' \in [Harts -> SUBSET (Causes \ {"machine_ecall"})]
  <2>1. CASE WriteDelegation(h)
    BY <2>1, InterruptsAssumption DEF WriteDelegation, HartsOK
  <2>2. CASE ~WriteDelegation(h)
    BY <2>2 DEF CsrWrites, WriteMstatus, WriteSstatus, WriteMie, WriteSie, WriteMip, WriteSip,
                WriteClearmip, HartsOK
  <2> QED
    BY <2>1, <2>2
<1>5. mstatus' \in [Harts -> Mstatus]
  <2>1. CASE ~(WriteMstatus(h) \/ WriteSstatus(h))
    BY <2>1 DEF CsrWrites, WriteMie, WriteSie, WriteMip, WriteSip, WriteClearmip,
                WriteDelegation, HartsOK
  <2> QED
    BY <2>1, StatusWriteType
<1> QED
  BY <1>1, <1>2, <1>3, <1>4, <1>5 DEF PinsOK, HartsOK

LEMMA DebugModeType ==
  ASSUME HartsOK, NEW h \in Harts, EnterDebugMode(h) \/ Dret(h)
  PROVE  HartsOK'
<1>1. CASE EnterDebugMode(h)
  BY <1>1 DEF EnterDebugMode, HartsOK, csrVars, history, Privileges, Labels
<1>2. CASE Dret(h)
  BY <1>2 DEF Dret, HartsOK, csrVars, history, Privileges, Labels, Serializes
<1> QED
  BY <1>1, <1>2

LEMMA StepType ==
  ASSUME PinsOK, HartsOK, NEW h \in Harts, Step(h)
  PROVE  PinsOK' /\ HartsOK'
<1>1. ASSUME NEW cause, NEW interrupt \in BOOLEAN, TakeTrap(h, cause, interrupt)
      PROVE  PinsOK' /\ HartsOK'
  BY <1>1, TakeTrapType DEF TakeTrap, PinsOK, clintVars, clockVars
<1>2. CASE Mret(h) \/ Sret(h)
  BY <1>2, ReturnTypes DEF Mret, Sret, PinsOK, clintVars, clockVars
<1>3. CASE CsrWrites(h)
  BY <1>3, CsrWritesType
<1>4. CASE EnterDebugMode(h) \/ Dret(h)
  BY <1>4, DebugModeType DEF EnterDebugMode, Dret, PinsOK, clintVars, clockVars
<1>5. CASE Access(h)
  BY <1>5, ClintAccessType DEF Access, MayEndQuantum, HartsOK, csrVars, debugVars, history
<1>6. CASE Compute(h)
  BY <1>6 DEF Compute, MayEndQuantum, PinsOK, HartsOK, csrVars, debugVars, history, clintVars, clockVars
<1>7. CASE TakeInterrupt(h)
  BY <1>1, <1>7 DEF TakeInterrupt
<1>8. CASE Exception(h)
  BY <1>1, <1>8 DEF Exception
<1> QED
  BY <1>2, <1>3, <1>4, <1>5, <1>6, <1>7, <1>8 DEF Step, CsrWrites

LEMMA ResetType == ASSUME PinsOK, HartsOK, NEW h \in Harts, Reset(h) PROVE PinsOK' /\ HartsOK'
<1>1. ResetMstatus \in Mstatus
  BY DEF ResetMstatus, Mstatus, Privileges
<1>2. PinsOK'
  BY DEF Reset, ResetPins, PinsOK, clockVars
<1> QED
  BY <1>1, <1>2 DEF Reset, HartsOK, Privileges, Labels

LEMMA BenchType == ASSUME PinsOK, Bench PROVE PinsOK' /\ UNCHANGED hartVars
<1>1. CASE \E h \in Harts : DriveExternal(h)
  BY <1>1, InterruptNames DEF DriveExternal, PinsOK, clockVars
<1>2. CASE BenchInterrupt
  <2>1. {"SEI", "MEI", "MSI"} \subseteq Interrupts
    BY InterruptNames
  <2> QED
    BY <1>2, <2>1, MaskedType, Sizes DEF BenchInterrupt, SetMipEi, PinsOK, clockVars
<1>3. CASE \E inc \in 0 .. 1 : Increment(inc) /\ UNCHANGED hartVars
  BY <1>3, DriveType DEF Increment, PinsOK
<1> QED
  BY <1>1, <1>2, <1>3 DEF Bench

LEMMA InterruptsTypeInit == Init => InterruptsTypeOK
<1> SUFFICES ASSUME Init PROVE InterruptsTypeOK
  OBVIOUS
<1>1. ResetMstatus \in Mstatus
  BY DEF ResetMstatus, Mstatus, Privileges
<1>2. PinsOK
  BY Sizes, InterruptNames DEF Init, ClintInit, WithTimer, PinsOK
<1>3. HartsOK
  BY <1>1 DEF Init, HartsOK, Privileges, Labels
<1> QED
  BY <1>2, <1>3, TypeParts

LEMMA InterruptsTypeStep == InterruptsTypeOK /\ [Next]_vars => InterruptsTypeOK'
<1> SUFFICES ASSUME PinsOK, HartsOK, [Next]_vars PROVE PinsOK' /\ HartsOK'
  BY TypeParts DEF InterruptsTypeOK, PinsOK, HartsOK
<1>1. ASSUME UNCHANGED hartVars PROVE HartsOK'
  BY <1>1 DEF hartVars, csrVars, debugVars, history, HartsOK
<1>2. CASE Bench
  BY <1>1, <1>2, BenchType
<1>3. CASE UNCHANGED vars
  BY <1>1, <1>3 DEF vars, clintVars, clockVars, PinsOK
<1> QED
  BY <1>2, <1>3, StepType, ResetType DEF Next

(* Registers, pins and histories keep their types: mideleg and medeleg     *)
(* never delegate what is not a supervisor's, whatever software writes.    *)
THEOREM InterruptsTypeCorrect == Spec => []InterruptsTypeOK
  BY InterruptsTypeInit, InterruptsTypeStep, PTL DEF Spec
-----------------------------------------------------------------------------
(* Whoever writes the pins of the harts, MTI follows the clock             *)
LEMMA DriveTimer ==
  ASSUME NEW pins \in [Harts -> SUBSET Interrupts], Drive(pins, mtime', mtimecmp')
  PROVE  TimerPinCurrent'
  BY DEF Drive, WithTimer, TimerPinCurrent

LEMMA CsrWritesTimer ==
  ASSUME PinsOK, TimerPinCurrent, NEW h \in Harts, CsrWrites(h)
  PROVE  TimerPinCurrent'
<1>1. UNCHANGED <<mtime, mtimecmp, freshReset>>
  BY DEF CsrWrites, WriteMstatus, WriteSstatus, WriteMie, WriteSie, WriteMip, WriteSip,
         WriteClearmip, WriteDelegation, CsrWrite, clockVars
<1>2. \A k \in Harts : "MTI" \in mip'[k] <=> "MTI" \in mip[k]
  <2>1. ASSUME NEW mask, NEW val, mip' = [mip EXCEPT ![h] = Masked(mip[h], mask, val)], "MTI" \notin mask
        PROVE  \A k \in Harts : "MTI" \in mip'[k] <=> "MTI" \in mip[k]
    BY <2>1 DEF PinsOK, Masked
  <2>2. CASE WriteMip(h)
    <3>1. "MTI" \notin SupervisorInts
      BY DEF SupervisorInts
    <3> QED
      BY <2>1, <2>2, <3>1 DEF WriteMip
  <2>3. CASE WriteSip(h)
    <3>1. "MTI" \notin mideleg[h] \cap {"SSI"}
      OBVIOUS
    <3> QED
      BY <2>1, <2>3, <3>1 DEF WriteSip
  <2>4. CASE WriteClearmip(h)
    <3>1. "MTI" \notin {"SEI", "MEI", "MSI"}
      OBVIOUS
    <3> QED
      BY <2>1, <2>4, <3>1 DEF WriteClearmip, SetMipEi
  <2>5. CASE ~(WriteMip(h) \/ WriteSip(h) \/ WriteClearmip(h))
    BY <2>5 DEF CsrWrites, WriteMstatus, WriteSstatus, WriteMie, WriteSie, WriteDelegation
  <2> QED
    BY <2>2, <2>3, <2>4, <2>5
<1> QED
  BY <1>1, <1>2 DEF TimerPinCurrent

LEMMA BenchTimer == ASSUME PinsOK, TimerPinCurrent, Bench PROVE TimerPinCurrent'
<1>1. ASSUME NEW h \in Harts, DriveExternal(h) PROVE TimerPinCurrent'
  <2>1. PICK pin \in External, high \in BOOLEAN :
          mip' = [mip EXCEPT ![h] = IF high THEN mip[h] \cup {pin} ELSE mip[h] \ {pin}]
    BY <1>1 DEF DriveExternal
  <2>2. pin # "MTI" /\ UNCHANGED <<mtime, mtimecmp, freshReset>>
    BY <1>1, InterruptsAssumption DEF DriveExternal, clockVars
  <2> QED
    BY <2>1, <2>2 DEF PinsOK, TimerPinCurrent
<1>2. CASE BenchInterrupt
  BY <1>2, Sizes DEF BenchInterrupt, SetMipEi, Masked, clockVars, PinsOK, TimerPinCurrent
<1>3. ASSUME NEW inc \in 0 .. 1, Increment(inc) PROVE TimerPinCurrent'
  <2>1. Drive(mip, mtime', mtimecmp')
    BY <1>3 DEF Increment
  <2> QED
    BY <2>1, DriveTimer DEF PinsOK
<1> QED
  BY <1>1, <1>2, <1>3 DEF Bench

LEMMA ClintAccessTimer == ASSUME PinsOK, ClintAccess PROVE TimerPinCurrent'
<1>1. ASSUME NEW covered \in Stores, NEW sent \in SUBSET covered, StoreMsip(covered, sent)
      PROVE  TimerPinCurrent'
  <2> DEFINE pins == [h \in Harts |-> IF h \in covered
                               THEN IF h \in sent THEN mip[h] \cup {"MSI"} ELSE mip[h] \ {"MSI"}
                               ELSE mip[h]]
  <2>1. pins \in [Harts -> SUBSET Interrupts]
    BY InterruptNames DEF PinsOK
  <2>2. Drive(pins, mtime', mtimecmp')
    BY <1>1 DEF StoreMsip, clockVars
  <2> HIDE DEF pins
  <2> QED
    BY <2>1, <2>2, DriveTimer
<1>2. ASSUME Drive(mip, mtime', mtimecmp') PROVE TimerPinCurrent'
  BY <1>2, DriveTimer DEF PinsOK
<1>3. ASSUME NEW h \in Harts, NEW t \in Times, StoreMtimecmp(h, t) PROVE TimerPinCurrent'
  BY <1>2, <1>3 DEF StoreMtimecmp
<1>4. ASSUME NEW t \in Times, StoreMtime(t) PROVE TimerPinCurrent'
  BY <1>2, <1>4 DEF StoreMtime
<1>5. CASE ClintLoad
  BY <1>2, <1>5 DEF ClintLoad, clockVars
<1> QED
  BY <1>1, <1>3, <1>4, <1>5 DEF ClintAccess

LEMMA TimerStep ==
  ASSUME PinsOK, HartsOK, TimerPinCurrent, [Next]_vars
  PROVE  TimerPinCurrent'
<1>1. ASSUME UNCHANGED clintVars PROVE TimerPinCurrent'
  BY <1>1 DEF clintVars, clockVars, TimerPinCurrent
<1>2. ASSUME NEW h \in Harts, Step(h) PROVE TimerPinCurrent'
  <2>1. CASE CsrWrites(h)
    BY <2>1, CsrWritesTimer
  <2>2. CASE Access(h)
    BY <2>2, ClintAccessTimer DEF Access
  <2>3. CASE ~CsrWrites(h) /\ ~Access(h)
    BY <1>1, <1>2, <2>3 DEF Step, CsrWrites, TakeInterrupt, Exception, TakeTrap, Compute, Mret, Sret,
                            EnterDebugMode, Dret
  <2> QED
    BY <2>1, <2>2, <2>3
<1>3. ASSUME NEW h \in Harts, Reset(h) PROVE TimerPinCurrent'
  BY <1>3 DEF Reset, ResetPins, clockVars, PinsOK, TimerPinCurrent
<1>4. CASE UNCHANGED vars
  BY <1>1, <1>4 DEF vars
<1> QED
  BY <1>2, <1>3, <1>4, BenchTimer DEF Next

(* Every hart that was not just reset has a timer interrupt pending        *)
(* exactly when its time has come.                                         *)
THEOREM InterruptsTimerPinCurrent == Spec => []TimerPinCurrent
<1>1. Init => TimerPinCurrent
  BY DEF Init, ClintInit, WithTimer, TimerPinCurrent
<1>2. InterruptsTypeOK /\ TimerPinCurrent /\ [Next]_vars => TimerPinCurrent'
  BY TypeParts, TimerStep
<1> QED
  BY <1>1, <1>2, InterruptsTypeCorrect, PTL DEF Spec
-----------------------------------------------------------------------------
(* The mode of a hart's own program, which Debug Mode keeps in dcsr        *)
Mode(h) == IF h \in debugMode THEN dcsrPrv[h] ELSE prv[h]

(* While a handler runs, the registers hold what it interrupted, and its   *)
(* mode's interrupts are disabled; a handler in S may itself have been     *)
(* interrupted by one in M.                                                *)
FrameM(h) ==
  mframe[h] # NoFrame =>
    /\ mframe[h] = [prv |-> mstatus[h].mpp, ie |-> mstatus[h].mpie, pc |-> mepc[h]]
    /\ Mode(h) = M /\ ~mstatus[h].mie

FrameS(h) ==
  sframe[h] # NoFrame =>
    /\ sframe[h] = [prv |-> mstatus[h].spp, ie |-> mstatus[h].spie, pc |-> sepc[h]]
    /\ ~mstatus[h].sie
    /\ Mode(h) = S \/ (Mode(h) = M /\ mframe[h] # NoFrame /\ mframe[h].prv = S)

HartInv(h) == (h \in debugMode => prv[h] = M) /\ FrameM(h) /\ FrameS(h)

(* What a step of another hart, or of the platform, leaves to a hart       *)
Untouched(k) ==
  /\ UNCHANGED <<prv[k], mstatus[k], mepc[k], sepc[k], dpc[k], dcsrPrv[k], mframe[k], sframe[k]>>
  /\ k \in debugMode' <=> k \in debugMode

LEMMA UntouchedInv == ASSUME NEW k \in Harts, HartInv(k), Untouched(k) PROVE HartInv(k)'
  BY DEF HartInv, FrameM, FrameS, Mode, Untouched

LEMMA TakeTrapOthers ==
  ASSUME HartsOK, NEW h \in Harts, NEW k \in Harts \ {h}, NEW cause, NEW interrupt,
         TakeTrap(h, cause, interrupt)
  PROVE  Untouched(k)
<1>1. TrapToRom(h) \/ TrapToSupervisor(h) \/ TrapToMachine(h)
  BY DEF TakeTrap
<1>2. UNCHANGED <<debugMode, dpc, dcsrPrv>>
  BY DEF TakeTrap, debugVars
<1>3. CASE TrapToRom(h)
  BY <1>2, <1>3 DEF TrapToRom, history, Untouched
<1>4. CASE TrapToSupervisor(h)
  BY <1>2, <1>4 DEF TrapToSupervisor, HartsOK, Untouched
<1>5. CASE TrapToMachine(h)
  BY <1>2, <1>5 DEF TrapToMachine, HartsOK, Untouched
<1> QED
  BY <1>1, <1>3, <1>4, <1>5

LEMMA OtherHarts ==
  ASSUME HartsOK, NEW h \in Harts, NEW k \in Harts \ {h}, Step(h) \/ Reset(h)
  PROVE  Untouched(k)
<1>1. CASE TakeInterrupt(h) \/ Exception(h)
  BY <1>1, TakeTrapOthers DEF TakeInterrupt, Exception
<1>2. CASE Mret(h)
  BY <1>2 DEF Mret, debugVars, HartsOK, Untouched
<1>3. CASE Sret(h)
  BY <1>3 DEF Sret, debugVars, HartsOK, Untouched
<1>4. CASE WriteMstatus(h) \/ WriteSstatus(h)
  <2>1. UNCHANGED <<prv, mepc, sepc, debugMode, dpc, dcsrPrv, mframe, sframe>>
    BY <1>4 DEF WriteMstatus, WriteSstatus, CsrWrite, debugVars, history
  <2>2. mstatus'[k] = mstatus[k]
    BY <1>4 DEF WriteMstatus, WriteSstatus, HartsOK
  <2> QED
    BY <2>1, <2>2 DEF Untouched
<1>5. CASE CsrWrites(h) /\ ~WriteMstatus(h) /\ ~WriteSstatus(h)
  BY <1>5 DEF CsrWrites, WriteMie, WriteSie, WriteMip, WriteSip, WriteClearmip, WriteDelegation,
              CsrWrite, debugVars, history, Untouched
<1>6. CASE Access(h) \/ Compute(h)
  BY <1>6 DEF Access, Compute, csrVars, debugVars, history, Untouched
<1>7. CASE EnterDebugMode(h)
  BY <1>7 DEF EnterDebugMode, csrVars, history, HartsOK, Untouched
<1>8. CASE Dret(h)
  BY <1>8 DEF Dret, csrVars, history, HartsOK, Untouched
<1>9. CASE Reset(h)
  BY <1>9 DEF Reset, HartsOK, Untouched
<1> QED
  BY <1>1, <1>2, <1>3, <1>4, <1>5, <1>6, <1>7, <1>8, <1>9 DEF Step, CsrWrites

(* A trap is taken from where a new frame may be opened                    *)
LEMMA TakeTrapFrames ==
  ASSUME HartsOK, NEW h \in Harts, HartInv(h), NEW cause, NEW interrupt, TakeTrap(h, cause, interrupt),
         h \notin debugMode =>
           IF Delegated(h, cause, interrupt) THEN sframe[h] = NoFrame ELSE mframe[h] = NoFrame
  PROVE  HartInv(h)'
<1>1. UNCHANGED <<debugMode, dpc, dcsrPrv>>
  BY DEF TakeTrap, debugVars
<1>2. CASE h \in debugMode
  BY <1>1, <1>2 DEF TakeTrap, TrapToRom, history, HartInv, FrameM, FrameS, Mode
<1>3. CASE h \notin debugMode /\ Delegated(h, cause, interrupt)
  <2>1. TrapToSupervisor(h) /\ prv[h] # M /\ sframe[h] = NoFrame
    BY <1>3 DEF TakeTrap, Delegated, M, S
  <2>2. mstatus' = [mstatus EXCEPT ![h] =
                      [mstatus[h] EXCEPT !.spie = mstatus[h].sie, !.spp = prv[h], !.sie = FALSE]]
    BY <2>1 DEF TrapToSupervisor
  <2>3. /\ mstatus'[h].spie = mstatus[h].sie /\ mstatus'[h].spp = prv[h] /\ ~mstatus'[h].sie
        /\ UNCHANGED <<mepc, mframe>>
    BY <2>1, <2>2 DEF TrapToSupervisor, HartsOK, Mstatus
  <2>4. /\ sframe'[h] = [prv |-> prv[h], ie |-> mstatus[h].sie, pc |-> pc[h]]
        /\ sepc'[h] = pc[h] /\ prv'[h] = S
    BY <2>1 DEF TrapToSupervisor, HartsOK, Opened
  <2>5. mframe[h] = NoFrame
    BY <1>3, <2>1 DEF HartInv, FrameM, Mode
  <2> QED
    BY <1>1, <1>3, <2>3, <2>4, <2>5 DEF HartInv, FrameM, FrameS, Mode
<1>4. CASE h \notin debugMode /\ ~Delegated(h, cause, interrupt)
  <2>1. TrapToMachine(h) /\ mframe[h] = NoFrame
    BY <1>4 DEF TakeTrap
  <2>2. mstatus' = [mstatus EXCEPT ![h] =
                      [mstatus[h] EXCEPT !.mpie = mstatus[h].mie, !.mpp = prv[h], !.mie = FALSE]]
    BY <2>1 DEF TrapToMachine
  <2>3. /\ mstatus'[h].mpie = mstatus[h].mie /\ mstatus'[h].mpp = prv[h] /\ ~mstatus'[h].mie
        /\ mstatus'[h].spie = mstatus[h].spie /\ mstatus'[h].spp = mstatus[h].spp
        /\ mstatus'[h].sie = mstatus[h].sie
        /\ UNCHANGED <<sepc, sframe>>
    BY <2>1, <2>2 DEF TrapToMachine, HartsOK, Mstatus
  <2>4. /\ mframe'[h] = [prv |-> prv[h], ie |-> mstatus[h].mie, pc |-> pc[h]]
        /\ mepc'[h] = pc[h] /\ prv'[h] = M
    BY <2>1 DEF TrapToMachine, HartsOK, Opened
  <2>5. mframe'[h].prv = prv[h] /\ mframe'[h] # NoFrame
    BY <2>4 DEF NoFrame, HartsOK, Privileges, U, S, M
  <2>6. sframe[h] # NoFrame => prv[h] = S
    BY <1>4, <2>1 DEF HartInv, FrameS, Mode
  <2>7. FrameM(h)'
    BY <1>1, <1>4, <2>3, <2>4 DEF FrameM, Mode
  <2>8. FrameS(h)'
    BY <1>1, <1>4, <2>3, <2>4, <2>5, <2>6 DEF HartInv, FrameS, Mode
  <2> QED
    BY <1>1, <1>4, <2>7, <2>8 DEF HartInv
<1> QED
  BY <1>2, <1>3, <1>4

(* take_interrupt chooses one of the interrupts it found                   *)
LEMMA HighestFound ==
  ASSUME NEW found \in SUBSET Interrupts, found # {}
  PROVE  Highest(found) \in found
<1> DEFINE First(i) == Priority[i] \in found /\ \A j \in 1 .. i - 1 : Priority[j] \notin found
<1>1. \E i \in 1 .. 6 : First(i)
  <2>1. \E i \in 1 .. 6 : Priority[i] \in found
    BY DEF Interrupts
  <2>2. ASSUME Priority[1] \in found PROVE First(1)
    BY <2>2
  <2>3. ASSUME Priority[1] \notin found, Priority[2] \in found PROVE First(2)
    BY <2>3
  <2>4. ASSUME Priority[1] \notin found, Priority[2] \notin found, Priority[3] \in found PROVE First(3)
    BY <2>4
  <2>5. ASSUME Priority[1] \notin found, Priority[2] \notin found, Priority[3] \notin found,
               Priority[4] \in found
        PROVE  First(4)
    BY <2>5
  <2>6. ASSUME Priority[1] \notin found, Priority[2] \notin found, Priority[3] \notin found,
               Priority[4] \notin found, Priority[5] \in found
        PROVE  First(5)
    BY <2>6
  <2>7. ASSUME Priority[1] \notin found, Priority[2] \notin found, Priority[3] \notin found,
               Priority[4] \notin found, Priority[5] \notin found
        PROVE  Priority[6] \in found /\ First(6)
    BY <2>1, <2>7
  <2> HIDE DEF First
  <2> QED
    BY <2>2, <2>3, <2>4, <2>5, <2>6, <2>7
<1>2. First(CHOOSE i \in 1 .. 6 : First(i))
  <2> HIDE DEF First
  <2> QED
    BY <1>1
<1> QED
  BY <1>2 DEF Highest

(* The two decisions about delegation agree on who is interrupted: the     *)
(* mode that is entered is higher, or has its interrupts enabled           *)
LEMMA InterruptTaken ==
  ASSUME PinsOK, HartsOK, NEW h \in Harts, TakeInterrupt(h)
  PROVE  \E cause \in Interrupts :
           /\ h \notin debugMode /\ TakeTrap(h, cause, TRUE)
           /\ IF Delegated(h, cause, TRUE) THEN prv[h] <= S /\ (prv[h] = S => mstatus[h].sie)
                                           ELSE prv[h] = M => mstatus[h].mie
<1> DEFINE found == EnabledInterrupts(h)
           cause == Highest(found)
<1>1. h \notin debugMode /\ found # {} /\ TakeTrap(h, cause, TRUE)
  BY DEF TakeInterrupt, Deliverable
<1>2. found \in SUBSET Interrupts
  BY DEF EnabledInterrupts, Pending, PinsOK
<1>3. cause \in found
  BY <1>1, <1>2, HighestFound
<1>4. prv[h] \in {U, S, M}
  BY DEF HartsOK, Privileges
<1> HIDE DEF cause
<1>5. ASSUME Delegated(h, cause, TRUE) PROVE prv[h] <= S /\ (prv[h] = S => mstatus[h].sie)
  <2>1. prv[h] <= S /\ cause \in mideleg[h]
    BY <1>5 DEF Delegated
  <2>2. SupervisorEnabled(h)
    BY <1>3, <2>1 DEF EnabledInterrupts
  <2> QED
    BY <1>4, <2>1, <2>2 DEF SupervisorEnabled, U, S, M
<1>6. ASSUME prv[h] = M PROVE mstatus[h].mie
  <2>1. ~SupervisorEnabled(h)
    BY <1>6 DEF SupervisorEnabled, S, M
  <2>2. MachineEnabled(h)
    BY <1>1, <2>1 DEF EnabledInterrupts
  <2> QED
    BY <1>6, <2>2 DEF MachineEnabled, M
<1> QED
  BY <1>1, <1>2, <1>3, <1>5, <1>6

LEMMA InterruptFrames ==
  ASSUME PinsOK, HartsOK, NEW h \in Harts, HartInv(h), TakeInterrupt(h)
  PROVE  HartInv(h)'
<1>1. PICK cause \in Interrupts :
        /\ h \notin debugMode /\ TakeTrap(h, cause, TRUE)
        /\ IF Delegated(h, cause, TRUE) THEN prv[h] <= S /\ (prv[h] = S => mstatus[h].sie)
                                        ELSE prv[h] = M => mstatus[h].mie
  BY InterruptTaken
<1>2. Delegated(h, cause, TRUE) => sframe[h] = NoFrame
  BY <1>1 DEF HartInv, FrameS, Mode, S, M
<1>3. ~Delegated(h, cause, TRUE) => mframe[h] = NoFrame
  BY <1>1 DEF HartInv, FrameM, Mode
<1> QED
  BY <1>1, <1>2, <1>3, TakeTrapFrames

LEMMA ExceptionFrames ==
  ASSUME HartsOK, NEW h \in Harts, HartInv(h), Exception(h)
  PROVE  HartInv(h)'
<1>1. PICK cause \in {EcallCause(h), "illegal_instruction", "breakpoint"} :
        MayRaise(h, cause) /\ TakeTrap(h, cause, FALSE)
  BY DEF Exception
<1> QED
  BY <1>1, TakeTrapFrames DEF MayRaise

LEMMA ReturnFrames ==
  ASSUME HartsOK, NEW h \in Harts, HartInv(h), Mret(h) \/ Sret(h)
  PROVE  HartInv(h)'
<1>1. CASE Mret(h)
  <2>1. /\ h \notin debugMode /\ UNCHANGED <<debugMode, dpc, dcsrPrv, sepc, sframe>>
        /\ prv[h] = M
        /\ prv'[h] = mstatus[h].mpp /\ mframe'[h] = NoFrame
    BY <1>1 DEF Mret, debugVars, HartsOK
  <2>2. /\ mstatus'[h].spie = mstatus[h].spie /\ mstatus'[h].spp = mstatus[h].spp
        /\ mstatus'[h].sie = mstatus[h].sie
    BY <1>1 DEF Mret, HartsOK, Mstatus
  <2>3. sframe[h] # NoFrame => prv'[h] = S
    BY <2>1 DEF HartInv, FrameM, FrameS, Mode, S, M
  <2> QED
    BY <2>1, <2>2, <2>3 DEF HartInv, FrameM, FrameS, Mode
<1>2. CASE Sret(h)
  <2>1. /\ h \notin debugMode /\ UNCHANGED debugMode
        /\ mframe'[h] = NoFrame /\ sframe'[h] = NoFrame
    BY <1>2 DEF Sret, debugVars, HartsOK
  <2> QED
    BY <2>1 DEF HartInv, FrameM, FrameS, Mode
<1> QED
  BY <1>1, <1>2

LEMMA StatusFrames ==
  ASSUME HartsOK, NEW h \in Harts, HartInv(h), WriteMstatus(h) \/ WriteSstatus(h)
  PROVE  HartInv(h)'
<1>1. UNCHANGED <<prv, mepc, sepc, debugMode, dpc, dcsrPrv, mframe, sframe>>
  BY DEF WriteMstatus, WriteSstatus, CsrWrite, debugVars, history
<1>2. CASE WriteMstatus(h)
  <2>1. /\ mstatus'[h].spie = mstatus[h].spie /\ mstatus'[h].spp = mstatus[h].spp
        /\ mstatus'[h].sie = mstatus[h].sie
        /\ mframe[h] = NoFrame
    <3>1. PICK ie \in BOOLEAN, pie \in BOOLEAN, pp \in Privileges :
            mstatus' = [mstatus EXCEPT ![h].mie = ie, ![h].mpie = pie, ![h].mpp = pp]
      BY <1>2 DEF WriteMstatus
    <3>2. mstatus'[h] = [mstatus[h] EXCEPT !.mie = ie, !.mpie = pie, !.mpp = pp]
      BY <3>1 DEF HartsOK
    <3>3. mstatus[h] \in Mstatus /\ mframe[h] = NoFrame
      BY <1>2 DEF HartsOK, WriteMstatus
    <3> QED
      BY <3>2, <3>3 DEF Mstatus
  <2> QED
    BY <1>1, <2>1 DEF HartInv, FrameM, FrameS, Mode
<1>3. CASE WriteSstatus(h)
  <2>1. /\ mstatus'[h].mpie = mstatus[h].mpie /\ mstatus'[h].mpp = mstatus[h].mpp
        /\ mstatus'[h].mie = mstatus[h].mie
        /\ sframe[h] = NoFrame
    <3>1. PICK ie \in BOOLEAN, pie \in BOOLEAN, pp \in {U, S} :
            mstatus' = [mstatus EXCEPT ![h].sie = ie, ![h].spie = pie, ![h].spp = pp]
      BY <1>3 DEF WriteSstatus
    <3>2. mstatus'[h] = [mstatus[h] EXCEPT !.sie = ie, !.spie = pie, !.spp = pp]
      BY <3>1 DEF HartsOK
    <3>3. mstatus[h] \in Mstatus /\ sframe[h] = NoFrame
      BY <1>3 DEF HartsOK, WriteSstatus
    <3> QED
      BY <3>2, <3>3 DEF Mstatus
  <2> QED
    BY <1>1, <2>1 DEF HartInv, FrameM, FrameS, Mode
<1> QED
  BY <1>2, <1>3

LEMMA DebugFrames ==
  ASSUME HartsOK, NEW h \in Harts, HartInv(h), EnterDebugMode(h) \/ Dret(h)
  PROVE  HartInv(h)'
<1>1. UNCHANGED <<mstatus, mepc, sepc, mframe, sframe>>
  BY DEF EnterDebugMode, Dret, csrVars, history
<1>2. CASE EnterDebugMode(h)
  <2>1. h \notin debugMode /\ h \in debugMode' /\ dcsrPrv'[h] = prv[h] /\ prv'[h] = M
    BY <1>2 DEF EnterDebugMode, HartsOK
  <2> QED
    BY <1>1, <2>1 DEF HartInv, FrameM, FrameS, Mode
<1>3. CASE Dret(h)
  <2>1. h \in debugMode /\ h \notin debugMode' /\ prv'[h] = dcsrPrv[h]
    BY <1>3 DEF Dret, HartsOK
  <2> QED
    BY <1>1, <2>1 DEF HartInv, FrameM, FrameS, Mode
<1> QED
  BY <1>2, <1>3

LEMMA StepFrames ==
  ASSUME PinsOK, HartsOK, NEW h \in Harts, HartInv(h), Step(h) \/ Reset(h)
  PROVE  HartInv(h)'
<1>1. CASE CsrWrites(h) /\ ~WriteMstatus(h) /\ ~WriteSstatus(h)
  <2>1. Untouched(h)
    BY <1>1 DEF CsrWrites, WriteMie, WriteSie, WriteMip, WriteSip, WriteClearmip, WriteDelegation,
                CsrWrite, debugVars, history, Untouched
  <2> QED
    BY <2>1, UntouchedInv
<1>2. CASE Access(h) \/ Compute(h)
  <2>1. Untouched(h)
    BY <1>2 DEF Access, Compute, csrVars, debugVars, history, Untouched
  <2> QED
    BY <2>1, UntouchedInv
<1>3. CASE Reset(h)
  <2>1. mframe'[h] = NoFrame /\ sframe'[h] = NoFrame /\ h \notin debugMode'
    BY <1>3 DEF Reset, HartsOK
  <2> QED
    BY <2>1 DEF HartInv, FrameM, FrameS
<1> QED
  BY <1>1, <1>2, <1>3, InterruptFrames, ExceptionFrames, ReturnFrames, StatusFrames, DebugFrames
  DEF Step, CsrWrites

LEMMA FramesStep ==
  ASSUME PinsOK, HartsOK, \A h \in Harts : HartInv(h), [Next]_vars
  PROVE  \A h \in Harts : HartInv(h)'
<1>1. ASSUME UNCHANGED hartVars, NEW k \in Harts PROVE HartInv(k)'
  <2>1. Untouched(k)
    BY <1>1 DEF hartVars, csrVars, debugVars, history, Untouched
  <2> QED
    BY <2>1, UntouchedInv
<1>2. ASSUME NEW h \in Harts, Step(h) \/ Reset(h), NEW k \in Harts PROVE HartInv(k)'
  <2>1. CASE k = h
    BY <1>2, <2>1, StepFrames
  <2>2. CASE k # h
    BY <1>2, <2>2, OtherHarts, UntouchedInv
  <2> QED
    BY <2>1, <2>2
<1>3. CASE Bench
  BY <1>1, <1>3, BenchType
<1>4. CASE UNCHANGED vars
  BY <1>1, <1>4 DEF vars
<1> QED
  BY <1>2, <1>3, <1>4 DEF Next

LEMMA FramesAlways == Spec => [](\A h \in Harts : HartInv(h))
<1>1. Init => \A h \in Harts : HartInv(h)
  BY DEF Init, HartInv, FrameM, FrameS
<1>2. InterruptsTypeOK /\ (\A h \in Harts : HartInv(h)) /\ [Next]_vars => (\A h \in Harts : HartInv(h))'
  BY TypeParts, FramesStep
<1> QED
  BY <1>1, <1>2, InterruptsTypeCorrect, PTL DEF Spec
-----------------------------------------------------------------------------
(* No trap lowers the privilege, and a hart with interrupts disabled is    *)
(* interrupted into a higher mode only, for any delegation.                *)
THEOREM InterruptsTrapsGoUp == Spec => TrapsGoUp
<1> DEFINE GoesUp(h) ==
      Traps(h) => /\ prv'[h] >= prv[h]
                  /\ TakeInterrupt(h) /\ prv'[h] = prv[h] =>
                       IF prv[h] = M THEN mstatus[h].mie ELSE mstatus[h].sie
    Promise == \A h \in Harts \ debugMode : GoesUp(h)
<1>1. InterruptsTypeOK /\ [Next]_vars => [Promise]_vars
  <2> SUFFICES ASSUME PinsOK, HartsOK, NEW h \in Harts \ debugMode PROVE GoesUp(h)
    BY TypeParts
  <2>1. prv[h] \in {U, S, M}
    BY DEF HartsOK, Privileges
  <2>2. ASSUME NEW cause, NEW interrupt, TakeTrap(h, cause, interrupt)
        PROVE  IF Delegated(h, cause, interrupt) THEN prv[h] <= S /\ prv'[h] = S ELSE prv'[h] = M
    BY <2>2 DEF TakeTrap, TrapToSupervisor, TrapToMachine, Delegated, HartsOK
  <2>3. CASE TakeInterrupt(h)
    <3>1. PICK cause \in Interrupts :
            /\ h \notin debugMode /\ TakeTrap(h, cause, TRUE)
            /\ IF Delegated(h, cause, TRUE) THEN prv[h] <= S /\ (prv[h] = S => mstatus[h].sie)
                                            ELSE prv[h] = M => mstatus[h].mie
      BY <2>3, InterruptTaken
    <3>2. CASE Delegated(h, cause, TRUE)
      <4>1. prv[h] <= S /\ prv'[h] = S /\ (prv[h] = S => mstatus[h].sie)
        BY <2>2, <3>1, <3>2
      <4>2. prv'[h] >= prv[h] /\ (prv'[h] = prv[h] => prv[h] = S /\ prv[h] # M)
        BY <2>1, <4>1 DEF U, S, M
      <4> QED
        BY <4>1, <4>2
    <3>3. CASE ~Delegated(h, cause, TRUE)
      <4>1. prv'[h] = M /\ (prv[h] = M => mstatus[h].mie)
        BY <2>2, <3>1, <3>3
      <4>2. prv'[h] >= prv[h]
        BY <2>1, <4>1 DEF U, S, M
      <4> QED
        BY <4>1, <4>2
    <3> QED
      BY <3>2, <3>3
  <2>4. CASE Exception(h) /\ ~TakeInterrupt(h)
    <3>1. PICK cause \in {EcallCause(h), "illegal_instruction", "breakpoint"} : TakeTrap(h, cause, FALSE)
      BY <2>4 DEF Exception
    <3>2. prv'[h] = M \/ (prv[h] <= S /\ prv'[h] = S)
      BY <2>2, <3>1
    <3>3. prv'[h] >= prv[h]
      BY <2>1, <3>2 DEF U, S, M
    <3> QED
      BY <2>4, <3>3
  <2> QED
    BY <2>3, <2>4 DEF Traps
<1> QED
  BY <1>1, InterruptsTypeCorrect, PTL DEF Spec, TrapsGoUp

(* Every handler returns to what it interrupted, with its mode and its     *)
(* interrupt enable, on any number of harts.                               *)
THEOREM InterruptsReturnsRestore == Spec => ReturnsRestore
<1> DEFINE Restores(h) ==
      /\ Mret(h) /\ mframe[h] # NoFrame =>
           mframe[h] = [prv |-> prv'[h], ie |-> mstatus'[h].mie, pc |-> pc'[h]]
      /\ Sret(h) /\ sframe[h] # NoFrame =>
           sframe[h] = [prv |-> prv'[h], ie |-> mstatus'[h].sie, pc |-> pc'[h]]
    Promise == \A h \in Harts : Restores(h)
<1>1. InterruptsTypeOK /\ (\A h \in Harts : HartInv(h)) /\ [Next]_vars => [Promise]_vars
  <2> SUFFICES ASSUME HartsOK, NEW h \in Harts, HartInv(h) PROVE Restores(h)
    BY TypeParts
  <2>1. ASSUME Mret(h) PROVE /\ prv'[h] = mstatus[h].mpp /\ pc'[h] = mepc[h]
                             /\ mstatus'[h].mie = mstatus[h].mpie
    BY <2>1 DEF Mret, HartsOK, Mstatus
  <2>2. ASSUME Sret(h) PROVE /\ prv'[h] = mstatus[h].spp /\ pc'[h] = sepc[h]
                             /\ mstatus'[h].sie = mstatus[h].spie
    BY <2>2 DEF Sret, HartsOK, Mstatus
  <2> QED
    BY <2>1, <2>2 DEF HartInv, FrameM, FrameS
<1> QED
  BY <1>1, InterruptsTypeCorrect, FramesAlways, PTL DEF Spec, ReturnsRestore

(* In Debug Mode a hart keeps what its own traps and returns use, whatever *)
(* the program buffer, the other harts and the platform do.                *)
THEOREM InterruptsDebugModeTakesNoTraps == Spec => DebugModeTakesNoTraps
<1> DEFINE Quiet(h) ==
      /\ prv'[h] = M
      /\ UNCHANGED <<mstatus[h], mepc[h], sepc[h], dpc[h], dcsrPrv[h], mframe[h], sframe[h]>>
    Promise == \A h \in debugMode \cap debugMode' : Quiet(h)
<1>1. InterruptsTypeOK /\ (\A h \in Harts : HartInv(h)) /\ [Next]_vars => [Promise]_vars
  <2> SUFFICES ASSUME PinsOK, HartsOK, \A h \in Harts : HartInv(h), [Next]_vars,
                      NEW k \in debugMode \cap debugMode'
               PROVE  Quiet(k)
    BY TypeParts
  <2>1. k \in Harts /\ prv[k] = M
    BY DEF HartsOK, HartInv
  <2>2. ASSUME Untouched(k) PROVE Quiet(k)
    BY <2>1, <2>2 DEF Untouched
  <2>3. ASSUME UNCHANGED hartVars PROVE Quiet(k)
    BY <2>2, <2>3 DEF hartVars, csrVars, debugVars, history, Untouched
  <2>4. ASSUME Step(k) PROVE Quiet(k)
    <3>1. CASE TakeInterrupt(k) \/ Exception(k)
      <4>1. UNCHANGED debugVars /\ TrapToRom(k)
        BY <3>1 DEF TakeInterrupt, Exception, TakeTrap
      <4> QED
        BY <2>1, <4>1 DEF TrapToRom, debugVars, history
    <3>2. CASE CsrWrites(k)
      BY <2>1, <3>2 DEF CsrWrites, WriteMstatus, WriteSstatus, WriteMie, WriteSie, WriteMip,
                        WriteSip, WriteClearmip, WriteDelegation, CsrWrite, debugVars, history
    <3>3. CASE Access(k) \/ Compute(k)
      BY <2>1, <3>3 DEF Access, Compute, csrVars, debugVars, history
    <3>4. ~Mret(k) /\ ~Sret(k) /\ ~EnterDebugMode(k) /\ ~Dret(k)
      BY DEF Mret, Sret, EnterDebugMode, Dret
    <3> QED
      BY <2>4, <3>1, <3>2, <3>3, <3>4 DEF Step, CsrWrites
  <2>5. ~Reset(k)
    BY DEF Reset
  <2>6. ASSUME NEW h \in Harts, Step(h) \/ Reset(h) PROVE Quiet(k)
    <3>1. CASE h = k
      BY <2>4, <2>5, <2>6, <3>1
    <3>2. CASE h # k
      BY <2>1, <2>2, <2>6, <3>2, OtherHarts
    <3> QED
      BY <3>1, <3>2
  <2>7. CASE Bench
    BY <2>3, <2>7, BenchType
  <2>8. CASE UNCHANGED vars
    BY <2>3, <2>8 DEF vars
  <2> QED
    BY <2>6, <2>7, <2>8 DEF Next
<1> QED
  BY <1>1, InterruptsTypeCorrect, FramesAlways, PTL DEF Spec, DebugModeTakesNoTraps
=============================================================================
