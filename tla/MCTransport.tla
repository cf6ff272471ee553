---------------------------- MODULE MCTransport -----------------------------
(***************************************************************************)
(* The debugger's way in and the coroutines, in one run: each behaviour is *)
(* of one of the protocols, chosen at the start, and the others stay as    *)
(* they begin.                                                             *)
(***************************************************************************)
EXTENDS JtagDtm, RemoteBitbang, Context

VARIABLE component

vars == <<component, jtagVars, bitbangVars, contextVars>>

TypeOK == JtagTypeOK /\ BitbangTypeOK /\ ContextTypeOK

Init ==
  /\ component \in {"jtag", "socket", "context"}
  /\ JtagInit /\ BitbangInit /\ ContextInit
  /\ component # "jtag" => ir = "IDCODE" /\ rtiRemaining = 0 /\ ~busyStuck

JtagStep == component = "jtag" /\ JtagNext /\ UNCHANGED <<component, bitbangVars, contextVars>>
SocketStep == component = "socket" /\ BitbangNext /\ UNCHANGED <<component, jtagVars, contextVars>>
ContextStep == component = "context" /\ ContextNext /\ UNCHANGED <<component, jtagVars, bitbangVars>>

Next == JtagStep \/ SocketStep \/ ContextStep

(* sim_t::main calls tick between any two steps, and none of its reads and *)
(* writes blocks.  That none fails is not assumed: it just need not.       *)
SocketProceeds ==
  /\ component = "socket" /\ Server /\ place' # "aborted"
  /\ UNCHANGED <<component, jtagVars, contextVars>>

Spec == Init /\ [][Next]_vars /\ ContextFairness /\ WF_vars(SocketProceeds)
=============================================================================
