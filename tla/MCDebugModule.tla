--------------------------- MODULE MCDebugModule ---------------------------
(***************************************************************************)
(* The fairness under which the Debug Module makes progress, and what it   *)
(* then promises.  sim_t::main gives a quantum to the harts forever; the   *)
(* debugger keeps the JTAG clock running in Run-Test/Idle, as it must to   *)
(* poll abstractcs.busy; and the program buffers it writes terminate.      *)
(* Nothing obliges it to write any register.                               *)
(***************************************************************************)
EXTENDS DebugModule

ProgramBufferEnds(h) == Quantum(h) /\ Executing(h) /\ ~Executing(h)'

Fairness ==
  /\ WF_vars(\E h \in Harts : Quantum(h))
  /\ WF_vars(RunTestIdle)
  /\ \A h \in Harts : SF_vars(ProgramBufferEnds(h))

LiveSpec == Spec /\ Fairness

(* Every abstract command completes, whatever the debugger writes to       *)
(* DMCONTROL meanwhile short of a reset or of another hart selection: the  *)
(* hart finds the GO flag, clears it, comes back to the loop, and tells    *)
(* the Debug Module once more that it is halted.                           *)
CommandCompletes == busy ~> ~busy

(* A halt request, of the debugger or of the halt group of a hart, halts   *)
(* the hart, unless the debugger withdraws it first.                       *)
HaltRequestServed ==
  \A h \in Harts : haltRequest[h] # "none" ~> halted[h] \/ haltRequest[h] = "none"

(* A requested resume is carried out and acknowledged, even though GO is   *)
(* looked at before RESUME, and the debugger may issue command after       *)
(* command to that hart.                                                   *)
ResumeAcknowledged == \A h \in Harts : resume[h] ~> resumeack[h]
=============================================================================
