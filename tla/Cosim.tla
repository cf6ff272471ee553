------------------------------- MODULE Cosim --------------------------------
(***************************************************************************)
(* The two calls by which a test bench runs the simulator as a reference   *)
(* model (spike_main/spike.cc): run_until_vector_ins, which steps the hart *)
(* until a vector instruction has run and reports it, and run_and_inject,  *)
(* which steps once.                                                       *)
(*                                                                         *)
(* A step of the hart may execute the next instruction, trap on it, or     *)
(* take an interrupt and execute nothing; then current_instruction is the  *)
(* one before.  The flags trap_illegal and trap_instr are set where a trap *)
(* is caught and cleared by decode_insn only, that is when the instruction *)
(* was not in the instruction cache.                                       *)
(*                                                                         *)
(* One hart.  Values of registers are left out: what a report says of them *)
(* is right when it is of the instruction that the last step executed,     *)
(* since the register files are copied before each step.  The instruction  *)
(* that run_and_inject is given goes nowhere: no code reads it.            *)
(***************************************************************************)

VARIABLES
  currentInstruction,  \* "vector", "stop" (the one that ends a test) or "other"
  supervisor,          \* state.prv = PRV_S
  trapIllegal, trapInstr,
  reportedIllegal,     \* core_state->csr.trap_illegal, as the last report left it
  excBit,              \* core_state->exc_bit
  call,                \* "none", "running" or "injecting"
  answer,              \* of the last call: "none", "report", "error", "end" or "injected"
  lastStep,            \* history: what the last step did
  illegalSeen          \* history: an illegal instruction was met or reported

cosimVars == <<currentInstruction, supervisor, trapIllegal, trapInstr, reportedIllegal,
               excBit, call, answer, lastStep, illegalSeen>>

InstructionKinds == {"vector", "stop", "other"}
Outcomes == {"executed", "trapped", "illegal", "interrupted"}

CosimTypeOK ==
  /\ currentInstruction \in InstructionKinds /\ supervisor \in BOOLEAN
  /\ trapIllegal \in BOOLEAN /\ trapInstr \in BOOLEAN
  /\ reportedIllegal \in BOOLEAN /\ excBit \in BOOLEAN
  /\ call \in {"none", "running", "injecting"}
  /\ answer \in {"none", "report", "error", "end", "injected"}
  /\ lastStep \in Outcomes /\ illegalSeen \in BOOLEAN

CosimInit ==
  /\ currentInstruction = "other" /\ supervisor = FALSE
  /\ trapIllegal = FALSE /\ trapInstr = FALSE
  /\ reportedIllegal = FALSE /\ excBit = FALSE
  /\ call = "none" /\ answer = "none"
  /\ lastStep = "executed" /\ illegalSeen = FALSE

(* processor_t::step(1).  An interrupt, or a fetch that faults, comes      *)
(* before any instruction; the handler may be in any mode.                 *)
HartStep ==
  /\ \E outcome \in Outcomes, cached \in BOOLEAN :
       /\ lastStep' = outcome
       /\ IF outcome = "interrupted" THEN UNCHANGED currentInstruction
                                     ELSE currentInstruction' \in InstructionKinds
       /\ LET kept == cached \/ outcome = "interrupted" IN
            /\ trapIllegal' = (outcome = "illegal" \/ (kept /\ trapIllegal))
            /\ trapInstr' = (outcome \in {"trapped", "interrupted"} \/ (kept /\ trapInstr))
       /\ illegalSeen' = (illegalSeen \/ outcome = "illegal")
  /\ supervisor' \in BOOLEAN

(* A call, with its first step *)
RunUntilVector ==
  /\ call = "none"
  /\ call' = "running"
  /\ HartStep
  /\ UNCHANGED <<reportedIllegal, excBit, answer>>

(* The condition of the loop of run_until_vector_ins *)
NotYet == currentInstruction # "vector" \/ supervisor \/ (trapInstr /\ reportedIllegal)

(* Without a report: an exit code, or, before the loop steps on, the       *)
(* instruction that ends the test or a write to tohost                     *)
EndTest ==
  /\ call = "running"
  /\ call' = "none" /\ answer' = "end"
  /\ UNCHANGED <<currentInstruction, supervisor, trapIllegal, trapInstr, reportedIllegal,
                 excBit, lastStep, illegalSeen>>

StepOn ==
  /\ call = "running" /\ NotYet /\ currentInstruction # "stop"
  /\ HartStep
  /\ UNCHANGED <<call, reportedIllegal, excBit, answer>>

(* save_vector_state finds an illegal vtype by its width, too *)
ReportVector ==
  /\ call = "running" /\ ~NotYet
  /\ call' = "none"
  /\ \E tooWide \in BOOLEAN :
       /\ reportedIllegal' = (trapIllegal \/ tooWide)
       /\ illegalSeen' = (illegalSeen \/ tooWide)
  /\ answer' = IF trapInstr /\ ~reportedIllegal' THEN "error" ELSE "report"
  /\ UNCHANGED <<currentInstruction, supervisor, trapIllegal, trapInstr, excBit, lastStep>>

Inject ==
  /\ call = "none"
  /\ call' = "injecting"
  /\ HartStep
  /\ UNCHANGED <<reportedIllegal, excBit, answer>>

(* A mutant of ReportInjected: exc_bit forgets the traps of other kinds *)
ReportInjectedIllegalOnly ==
  /\ call = "injecting"
  /\ call' = "none" /\ answer' = "injected"
  /\ excBit' = trapIllegal
  /\ \E tooWide \in BOOLEAN :
       /\ tooWide => currentInstruction = "vector"
       /\ reportedIllegal' = (trapIllegal \/ tooWide)
       /\ illegalSeen' = (illegalSeen \/ tooWide)
  /\ UNCHANGED <<currentInstruction, supervisor, trapIllegal, trapInstr, lastStep>>

ReportInjected ==
  /\ call = "injecting"
  /\ call' = "none" /\ answer' = "injected"
  /\ excBit' = (trapIllegal \/ trapInstr)
  /\ \E tooWide \in BOOLEAN :
       /\ tooWide => currentInstruction = "vector"
       /\ reportedIllegal' = (trapIllegal \/ tooWide)
       /\ illegalSeen' = (illegalSeen \/ tooWide)
  /\ UNCHANGED <<currentInstruction, supervisor, trapIllegal, trapInstr, lastStep>>

CosimNext == RunUntilVector \/ EndTest \/ StepOn \/ ReportVector \/ Inject \/ ReportInjected

CosimSpec == CosimInit /\ [][CosimNext]_cosimVars
-----------------------------------------------------------------------------
(* A report without error is of a vector instruction that the last step    *)
(* executed outside supervisor mode, never of one that was reported before *)
(* an interrupt came or that trapped; and an injection that ended in a     *)
(* trap says so.  Both lean on flags that outlive the step that set them,  *)
(* and the first does so until an illegal instruction has been met: then   *)
(* the caller's old report keeps the loop going past vector instructions.  *)
ReportsTruthful ==
  /\ answer = "report" /\ call = "none" /\ ~illegalSeen =>
       lastStep = "executed" /\ currentInstruction = "vector" /\ ~supervisor
  /\ answer = "injected" /\ call = "none" /\ lastStep # "executed" => excBit
=============================================================================
