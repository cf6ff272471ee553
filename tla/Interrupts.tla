----------------------------- MODULE Interrupts -----------------------------
(***************************************************************************)
(* Interrupts, exceptions and returns of the harts (riscv/processor.cc     *)
(* take_interrupt, take_trap, enter_debug_mode; riscv/csrs.cc; the insns   *)
(* mret, sret, dret, ecall, wfi), with the CLINT and the test bench as the *)
(* sources of interrupts.                                                  *)
(*                                                                         *)
(* processor_t::step looks for interrupts at the top of its loop only: at  *)
(* the start of a quantum and after an instruction that serializes (a CSR  *)
(* access or a return), never between two others.  `top` tells whether a   *)
(* hart is there.  A quantum may end after any instruction.                *)
(*                                                                         *)
(* Program counters are labels of code.  The hypervisor extension and the  *)
(* bits TSR, TW and TVM of mstatus are left out (an instruction that they  *)
(* forbid is one of those that raise illegal_instruction).                 *)
(***************************************************************************)
EXTENDS Clint, Sequences

CONSTANTS
  External,        \* the external interrupts that are wired: of MEI and SEI
  MieWrites, MidelegWrites, MedelegWrites, MipWrites
                   \* what software writes to these registers

(* The order in which take_interrupt prefers them *)
Priority == <<"MEI", "MSI", "MTI", "SEI", "SSI", "STI">>
Interrupts == {Priority[i] : i \in 1 .. 6}
SupervisorInts == {"SEI", "SSI", "STI"}

Causes == {"user_ecall", "supervisor_ecall", "machine_ecall", "illegal_instruction", "breakpoint"}

U == 0
S == 1
M == 3
Privileges == {U, S, M}

Labels == {"program", "stvec", "mtvec", "rom"}
Mstatus == [mie : BOOLEAN, mpie : BOOLEAN, mpp : Privileges,
            sie : BOOLEAN, spie : BOOLEAN, spp : {U, S}]

(* What a trap interrupted *)
Frames == [prv : Privileges, ie : BOOLEAN, pc : Labels]
NoFrame == [prv |-> -1, ie |-> FALSE, pc |-> "none"]

ASSUME InterruptsAssumption ==
  /\ External \subseteq {"MEI", "SEI"}
  /\ MieWrites \subseteq SUBSET Interrupts /\ MidelegWrites \subseteq SUBSET Interrupts
  /\ MedelegWrites \subseteq SUBSET Causes /\ MipWrites \subseteq SUBSET Interrupts

VARIABLES
  prv, mstatus, mie, mideleg, medeleg, pc,
  mepc, sepc,      \* of each hart
  debugMode,       \* state.debug_mode
  dpc, dcsrPrv,    \* what enter_debug_mode saves
  top,             \* the harts whose next step begins with take_pending_interrupt
  mframe, sframe   \* history: what the handler that runs in M or S interrupted

csrVars == <<mstatus, mie, mideleg, medeleg, mepc, sepc>>
debugVars == <<debugMode, dpc, dcsrPrv>>
history == <<mframe, sframe>>
hartVars == <<prv, csrVars, pc, debugVars, top, history>>
vars == <<clintVars, hartVars>>

InterruptsTypeOK ==
  /\ prv \in [Harts -> Privileges]
  /\ mstatus \in [Harts -> Mstatus]
  /\ mip \in [Harts -> SUBSET Interrupts]
  /\ mie \in [Harts -> SUBSET Interrupts]
  /\ mideleg \in [Harts -> SUBSET SupervisorInts]
  /\ medeleg \in [Harts -> SUBSET (Causes \ {"machine_ecall"})]
  /\ pc \in [Harts -> Labels] /\ mepc \in [Harts -> Labels] /\ sepc \in [Harts -> Labels]
  /\ debugMode \in SUBSET Harts
  /\ dpc \in [Harts -> Labels] /\ dcsrPrv \in [Harts -> Privileges]
  /\ top \in SUBSET Harts
  /\ mframe \in [Harts -> Frames \cup {NoFrame}]
  /\ sframe \in [Harts -> Frames \cup {NoFrame}]
  /\ freshReset \in SUBSET Harts
  /\ mtime \in Times /\ mtimecmp \in [Harts -> Times]

ResetMstatus == [mie |-> FALSE, mpie |-> FALSE, mpp |-> U,
                 sie |-> FALSE, spie |-> FALSE, spp |-> U]

Init ==
  /\ ClintInit
  /\ prv = [h \in Harts |-> M]
  /\ mstatus = [h \in Harts |-> ResetMstatus]
  /\ mie = [h \in Harts |-> {}]
  /\ mideleg = [h \in Harts |-> {}]
  /\ medeleg = [h \in Harts |-> {}]
  /\ pc = [h \in Harts |-> "program"]
  /\ mepc = [h \in Harts |-> "program"]
  /\ sepc = [h \in Harts |-> "program"]
  /\ debugMode = {}
  /\ dpc = [h \in Harts |-> "program"]
  /\ dcsrPrv = [h \in Harts |-> U]
  /\ top = Harts
  /\ mframe = [h \in Harts |-> NoFrame]
  /\ sframe = [h \in Harts |-> NoFrame]
-----------------------------------------------------------------------------
(***************************************************************************)
(* Which interrupt a hart takes                                            *)
(***************************************************************************)
Pending(h) == mip[h] \cap mie[h]

MachineEnabled(h) == prv[h] < M \/ (prv[h] = M /\ mstatus[h].mie)

(* A mutant of SupervisorEnabled: SIE counts in every mode *)
SupervisorEnabledByBit(h) == prv[h] < S \/ mstatus[h].sie

SupervisorEnabled(h) == prv[h] < S \/ (prv[h] = S /\ mstatus[h].sie)

EnabledInterrupts(h) ==
  LET forM == IF MachineEnabled(h) THEN Pending(h) \ mideleg[h] ELSE {}
      forS == IF SupervisorEnabled(h) THEN Pending(h) \cap mideleg[h] ELSE {}
  IN IF forM # {} THEN forM ELSE forS

(* take_interrupt throws *)
Deliverable(h) == h \notin debugMode /\ EnabledInterrupts(h) # {}

Highest(set) == Priority[CHOOSE i \in 1 .. 6 : /\ Priority[i] \in set
                                               /\ \A j \in 1 .. i - 1 : Priority[j] \notin set]

(***************************************************************************)
(* take_trap: `interrupt` tells an interrupt from an exception, since the  *)
(* two are delegated by different registers.  The quantum ends.            *)
(***************************************************************************)
Delegated(h, cause, interrupt) ==
  prv[h] <= S /\ cause \in (IF interrupt THEN mideleg[h] ELSE medeleg[h])

(* A handler that is entered again still owes the return to the first      *)
Opened(frame, h, ie) ==
  IF frame = NoFrame THEN [prv |-> prv[h], ie |-> ie, pc |-> pc[h]] ELSE frame

TrapToSupervisor(h) ==
  /\ sepc' = [sepc EXCEPT ![h] = pc[h]]
  /\ mstatus' = [mstatus EXCEPT ![h].spie = mstatus[h].sie, ![h].spp = prv[h], ![h].sie = FALSE]
  /\ prv' = [prv EXCEPT ![h] = S]
  /\ pc' = [pc EXCEPT ![h] = "stvec"]
  /\ sframe' = [sframe EXCEPT ![h] = Opened(@, h, mstatus[h].sie)]
  /\ UNCHANGED <<mepc, mframe>>

(* A mutant of TrapToMachine: mstatus.MPIE is not written *)
TrapToMachineWithoutMpie(h) ==
  /\ mepc' = [mepc EXCEPT ![h] = pc[h]]
  /\ mstatus' = [mstatus EXCEPT ![h].mpp = prv[h], ![h].mie = FALSE]
  /\ prv' = [prv EXCEPT ![h] = M]
  /\ pc' = [pc EXCEPT ![h] = "mtvec"]
  /\ mframe' = [mframe EXCEPT ![h] = Opened(@, h, mstatus[h].mie)]
  /\ UNCHANGED <<sepc, sframe>>

TrapToMachine(h) ==
  /\ mepc' = [mepc EXCEPT ![h] = pc[h]]
  /\ mstatus' = [mstatus EXCEPT ![h].mpie = mstatus[h].mie, ![h].mpp = prv[h], ![h].mie = FALSE]
  /\ prv' = [prv EXCEPT ![h] = M]
  /\ pc' = [pc EXCEPT ![h] = "mtvec"]
  /\ mframe' = [mframe EXCEPT ![h] = Opened(@, h, mstatus[h].mie)]
  /\ UNCHANGED <<sepc, sframe>>

(* In Debug Mode an exception goes back to the ROM and changes nothing else *)
TrapToRom(h) ==
  /\ pc' = [pc EXCEPT ![h] = "rom"]
  /\ UNCHANGED <<prv, mstatus, mepc, sepc, history>>

(* A mutant of TakeTrap: Debug Mode is not asked for *)
TakeTrapInAnyMode(h, cause, interrupt) ==
  /\ IF Delegated(h, cause, interrupt) THEN TrapToSupervisor(h) ELSE TrapToMachine(h)
  /\ top' = top \cup {h}
  /\ UNCHANGED <<mie, mideleg, medeleg, debugVars, clintVars>>

TakeTrap(h, cause, interrupt) ==
  /\ IF h \in debugMode THEN TrapToRom(h)
     ELSE IF Delegated(h, cause, interrupt) THEN TrapToSupervisor(h)
     ELSE TrapToMachine(h)
  /\ top' = top \cup {h}
  /\ UNCHANGED <<mie, mideleg, medeleg, debugVars, clintVars>>

TakeInterrupt(h) ==
  /\ h \in top
  /\ Deliverable(h)
  /\ TakeTrap(h, Highest(EnabledInterrupts(h)), TRUE)
-----------------------------------------------------------------------------
(***************************************************************************)
(* Instructions.  At the top a hart executes one only when there is        *)
(* nothing to take.                                                        *)
(***************************************************************************)
(* A mutant of Executes: the top of the loop does not look for interrupts *)
ExecutesUnlooking(h) == TRUE

Executes(h) == h \in top => ~Deliverable(h)

EcallCause(h) == CASE prv[h] = U -> "user_ecall"
                   [] prv[h] = S -> "supervisor_ecall"
                   [] OTHER -> "machine_ecall"

(* Software keeps what a handler interrupted: it raises no exception that  *)
(* its own mode would handle, until it has returned                        *)
MayRaise(h, cause) ==
  \/ h \in debugMode
  \/ IF Delegated(h, cause, FALSE) THEN sframe[h] = NoFrame ELSE mframe[h] = NoFrame

Exception(h) ==
  /\ Executes(h)
  /\ \E cause \in {EcallCause(h), "illegal_instruction", "breakpoint"} :
       MayRaise(h, cause) /\ TakeTrap(h, cause, FALSE)

Serializes(h) == top' = top \cup {h}

(* An instruction that does not serialize may be the last of its quantum   *)
MayEndQuantum(h) == top' \in {top \cup {h}, top \ {h}}

(* A store or load to the CLINT                                            *)
Access(h) ==
  /\ Executes(h) /\ MayEndQuantum(h)
  /\ ClintAccess
  /\ UNCHANGED <<prv, csrVars, pc, debugVars, history>>

(* Any other instruction                                                   *)
Compute(h) ==
  /\ Executes(h) /\ MayEndQuantum(h)
  /\ UNCHANGED <<prv, csrVars, pc, debugVars, history, clintVars>>

(* The last instruction of a quantum; wfi always is (it does not wait)     *)
EndQuantum(h) == Compute(h) /\ h \notin top /\ h \in top'

(* What the debugger puts into the program buffer returns from no trap     *)
Mret(h) ==
  /\ Executes(h) /\ Serializes(h)
  /\ prv[h] = M /\ h \notin debugMode
  /\ pc' = [pc EXCEPT ![h] = mepc[h]]
  /\ mstatus' = [mstatus EXCEPT ![h].mie = mstatus[h].mpie, ![h].mpie = TRUE, ![h].mpp = U]
  /\ prv' = [prv EXCEPT ![h] = mstatus[h].mpp]
  /\ mframe' = [mframe EXCEPT ![h] = NoFrame]
  /\ UNCHANGED <<mie, mideleg, medeleg, mepc, sepc, debugVars, sframe, clintVars>>

(* A handler in M mode returns by mret *)
Sret(h) ==
  /\ Executes(h) /\ Serializes(h)
  /\ prv[h] >= S /\ h \notin debugMode /\ mframe[h] = NoFrame
  /\ pc' = [pc EXCEPT ![h] = sepc[h]]
  /\ mstatus' = [mstatus EXCEPT ![h].sie = mstatus[h].spie, ![h].spie = TRUE, ![h].spp = U]
  /\ prv' = [prv EXCEPT ![h] = mstatus[h].spp]
  /\ sframe' = [sframe EXCEPT ![h] = NoFrame]
  /\ UNCHANGED <<mie, mideleg, medeleg, mepc, sepc, debugVars, mframe, clintVars>>
-----------------------------------------------------------------------------
(***************************************************************************)
(* Writes to CSRs: each register keeps what its mask lets through          *)
(***************************************************************************)
Masked(old, mask, new) == (old \ mask) \cup (new \cap mask)

CsrWrite(h) ==
  /\ Executes(h) /\ Serializes(h)
  /\ UNCHANGED <<prv, pc, debugVars, history, clockVars, freshReset, mepc, sepc>>

(* Software keeps the fields that a return reads while a handler runs *)
WriteMstatus(h) ==
  /\ CsrWrite(h) /\ prv[h] = M /\ mframe[h] = NoFrame /\ h \notin debugMode
  /\ \E ie \in BOOLEAN, pie \in BOOLEAN, pp \in Privileges :
       mstatus' = [mstatus EXCEPT ![h].mie = ie, ![h].mpie = pie, ![h].mpp = pp]
  /\ UNCHANGED <<mip, mie, mideleg, medeleg>>

WriteSstatus(h) ==
  /\ CsrWrite(h) /\ prv[h] >= S /\ sframe[h] = NoFrame /\ h \notin debugMode
  /\ \E ie \in BOOLEAN, pie \in BOOLEAN, pp \in {U, S} :
       mstatus' = [mstatus EXCEPT ![h].sie = ie, ![h].spie = pie, ![h].spp = pp]
  /\ UNCHANGED <<mip, mie, mideleg, medeleg>>

WriteMie(h) ==
  /\ CsrWrite(h) /\ prv[h] = M
  /\ \E val \in MieWrites : mie' = [mie EXCEPT ![h] = val]
  /\ UNCHANGED <<mstatus, mip, mideleg, medeleg>>

WriteSie(h) ==
  /\ CsrWrite(h) /\ prv[h] >= S
  /\ \E val \in MieWrites : mie' = [mie EXCEPT ![h] = Masked(@, mideleg[h], val)]
  /\ UNCHANGED <<mstatus, mip, mideleg, medeleg>>

WriteMip(h) ==
  /\ CsrWrite(h) /\ prv[h] = M
  /\ \E val \in MipWrites : mip' = [mip EXCEPT ![h] = Masked(@, SupervisorInts, val)]
  /\ UNCHANGED <<mstatus, mie, mideleg, medeleg>>

WriteSip(h) ==
  /\ CsrWrite(h) /\ prv[h] >= S
  /\ \E val \in MipWrites : mip' = [mip EXCEPT ![h] = Masked(@, mideleg[h] \cap {"SSI"}, val)]
  /\ UNCHANGED <<mstatus, mie, mideleg, medeleg>>

(* processor_t::set_mip_ei: the mask covers MSIP too *)
SetMipEi(h, val) == mip' = [mip EXCEPT ![h] = Masked(@, {"SEI", "MEI", "MSI"}, val)]

(* get_csr and put_csr ask for no privilege here *)
WriteClearmip(h) ==
  /\ CsrWrite(h)
  /\ SetMipEi(h, {})
  /\ UNCHANGED <<mstatus, mie, mideleg, medeleg>>

(* A mutant of WriteDelegation: mideleg has no mask *)
WriteDelegationUnmasked(h) ==
  /\ CsrWrite(h) /\ prv[h] = M
  /\ \/ \E val \in MidelegWrites : mideleg' = [mideleg EXCEPT ![h] = val] /\ UNCHANGED medeleg
     \/ /\ \E val \in MedelegWrites : medeleg' = [medeleg EXCEPT ![h] = val \ {"machine_ecall"}]
        /\ UNCHANGED mideleg
  /\ UNCHANGED <<mstatus, mip, mie>>

WriteDelegation(h) ==
  /\ CsrWrite(h) /\ prv[h] = M
  /\ \/ /\ \E val \in MidelegWrites : mideleg' = [mideleg EXCEPT ![h] = val \cap SupervisorInts]
        /\ UNCHANGED medeleg
     \/ /\ \E val \in MedelegWrites : medeleg' = [medeleg EXCEPT ![h] = val \ {"machine_ecall"}]
        /\ UNCHANGED mideleg
  /\ UNCHANGED <<mstatus, mip, mie>>
-----------------------------------------------------------------------------
(* step finds a halt request when a quantum begins *)
EnterDebugMode(h) ==
  /\ h \in top /\ h \notin debugMode
  /\ debugMode' = debugMode \cup {h}
  /\ dcsrPrv' = [dcsrPrv EXCEPT ![h] = prv[h]]
  /\ dpc' = [dpc EXCEPT ![h] = pc[h]]
  /\ prv' = [prv EXCEPT ![h] = M]
  /\ pc' = [pc EXCEPT ![h] = "rom"]
  /\ UNCHANGED <<csrVars, top, history, clintVars>>

(* What Debug Mode saved is not read again before the next entry           *)
Dret(h) ==
  /\ h \in debugMode /\ Serializes(h)
  /\ dcsrPrv' = [dcsrPrv EXCEPT ![h] = U]
  /\ dpc' = [dpc EXCEPT ![h] = "program"]
  /\ debugMode' = debugMode \ {h}
  /\ prv' = [prv EXCEPT ![h] = dcsrPrv[h]]
  /\ pc' = [pc EXCEPT ![h] = dpc[h]]
  /\ UNCHANGED <<csrVars, history, clintVars>>

(* processor_t::reset, between two quanta                                  *)
Reset(h) ==
  /\ top' = top \cup {h}
  /\ prv' = [prv EXCEPT ![h] = M]
  /\ mstatus' = [mstatus EXCEPT ![h] = ResetMstatus]
  /\ mie' = [mie EXCEPT ![h] = {}]
  /\ mideleg' = [mideleg EXCEPT ![h] = {}]
  /\ medeleg' = [medeleg EXCEPT ![h] = {}]
  /\ pc' = [pc EXCEPT ![h] = "program"]
  /\ mepc' = [mepc EXCEPT ![h] = "program"]
  /\ sepc' = [sepc EXCEPT ![h] = "program"]
  /\ debugMode' = debugMode \ {h}
  /\ dpc' = [dpc EXCEPT ![h] = "program"]
  /\ dcsrPrv' = [dcsrPrv EXCEPT ![h] = U]
  /\ mframe' = [mframe EXCEPT ![h] = NoFrame]
  /\ sframe' = [sframe EXCEPT ![h] = NoFrame]
  /\ ResetPins(h)
-----------------------------------------------------------------------------
(***************************************************************************)
(* The platform and the test bench, between two instructions               *)
(***************************************************************************)

(* plic_t drives one pin of one hart *)
DriveExternal(h) ==
  /\ \E pin \in External, high \in BOOLEAN :
       mip' = [mip EXCEPT ![h] = IF high THEN @ \cup {pin} ELSE @ \ {pin}]
  /\ UNCHANGED <<clockVars, freshReset, hartVars>>

(* spike_set_external_interrupt reaches the first hart only *)
BenchInterrupt ==
  /\ \E val \in SUBSET (External \cup {"MSI"}) : SetMipEi(0, val)
  /\ UNCHANGED <<clockVars, freshReset, hartVars>>

Bench ==
  \/ \E h \in Harts : DriveExternal(h)
  \/ BenchInterrupt
  \/ /\ \E inc \in 0 .. 1 : Increment(inc)
        /\ UNCHANGED hartVars

Step(h) ==
  \/ TakeInterrupt(h) \/ Exception(h) \/ Access(h) \/ Compute(h)
  \/ Mret(h) \/ Sret(h)
  \/ WriteMstatus(h) \/ WriteSstatus(h) \/ WriteMie(h) \/ WriteSie(h)
  \/ WriteMip(h) \/ WriteSip(h) \/ WriteClearmip(h) \/ WriteDelegation(h)
  \/ EnterDebugMode(h) \/ Dret(h)

Next ==
  \/ \E h \in Harts : Step(h)
  \/ \E h \in Harts : Reset(h)
  \/ Bench

(***************************************************************************)
(* sim_t::step gives every hart its quanta, and every quantum ends.        *)
(* Software, resets and the test bench are not fair.                       *)
(***************************************************************************)
Spec ==
  /\ Init /\ [][Next]_vars
  /\ \A h \in Harts : WF_vars(EndQuantum(h)) /\ WF_vars(TakeInterrupt(h))
-----------------------------------------------------------------------------
(***************************************************************************)
(* Properties                                                              *)
(***************************************************************************)
Traps(h) == TakeInterrupt(h) \/ Exception(h)
Returns(h) == Mret(h) \/ Sret(h)

(* The timer pin of a hart says whether its time has come, whoever else    *)
(* writes its mip by another way: the CLINT works out all pins at every    *)
(* access to any of its registers.  A hart that was reset is the           *)
(* exception: it has no timer interrupt until somebody touches the CLINT.  *)
TimerPinCurrent ==
  \A h \in Harts \ freshReset : "MTI" \in mip[h] <=> mtime >= mtimecmp[h]

(* No trap lowers the privilege, although take_interrupt and take_trap     *)
(* work out delegation separately and from different registers; a hart     *)
(* that has interrupts disabled in its own mode is interrupted only into a *)
(* higher one.                                                             *)
TrapsGoUp ==
  [][\A h \in Harts \ debugMode : Traps(h) =>
       /\ prv'[h] >= prv[h]
       /\ TakeInterrupt(h) /\ prv'[h] = prv[h] =>
            IF prv[h] = M THEN mstatus[h].mie ELSE mstatus[h].sie]_vars

(* A handler returns to the code it interrupted, in the mode and with the  *)
(* interrupt enable that the code had, whatever other traps, visits to     *)
(* Debug Mode and CSR writes came in between: one set of saved registers   *)
(* per mode is enough for handlers that neither enable interrupts nor      *)
(* raise exceptions of their own mode.                                     *)
ReturnsRestore ==
  [][\A h \in Harts :
       /\ Mret(h) /\ mframe[h] # NoFrame =>
            mframe[h] = [prv |-> prv'[h], ie |-> mstatus'[h].mie, pc |-> pc'[h]]
       /\ Sret(h) /\ sframe[h] # NoFrame =>
            sframe[h] = [prv |-> prv'[h], ie |-> mstatus'[h].sie, pc |-> pc'[h]]]_vars

(* In Debug Mode nothing that a trap or a return uses changes: neither an  *)
(* interrupt nor an exception of the program buffer reaches the hart's own *)
(* handlers, and dret finds its mode.                                      *)
DebugModeTakesNoTraps ==
  [][\A h \in debugMode \cap debugMode' :
       /\ prv'[h] = M
       /\ UNCHANGED <<mstatus[h], mepc[h], sepc[h], dpc[h], dcsrPrv[h], mframe[h], sframe[h]>>]_vars

(* An interrupt that is pending and enabled is taken, or something else    *)
(* ends its being so: no hart runs on forever past it, although only the   *)
(* top of the loop looks for interrupts.                                   *)
DeliverableServed == \A h \in Harts : Deliverable(h) ~> ~Deliverable(h)
=============================================================================
