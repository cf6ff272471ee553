----------------------------- MODULE Coroutines -----------------------------
(***************************************************************************)
(* What a user of contexts relies on: one context has the processor.  It   *)
(* runs its own code until it switches to another, which goes on where it  *)
(* last switched away; a new context first switches back to its creator.   *)
(***************************************************************************)
CONSTANTS Contexts, MainContext

VARIABLES
  created,  \* the contexts that there are
  running,  \* the one that has the processor
  stage,    \* what it does: its own code, or its part of a switch
  to        \* which context it creates or switches to, if it does

vars == <<created, running, stage, to>>

Init ==
  /\ created = {MainContext}
  /\ running = MainContext /\ to = MainContext
  /\ stage = "own code"

Create(c) ==
  /\ stage = "own code" /\ c \notin created
  /\ stage' = "creating" /\ to' = c
  /\ UNCHANGED <<created, running>>

SwitchTo(c) ==
  /\ stage = "own code" /\ c \in created \ {running}
  /\ stage' = "switching" /\ to' = c
  /\ UNCHANGED <<created, running>>

(* The new context begins, with a switch to the one that created it *)
Begin ==
  /\ stage = "creating" /\ to \notin created
  /\ created' = created \cup {to}
  /\ running' = to /\ to' = running
  /\ stage' = "switching"

HandOver ==
  /\ stage = "switching" /\ to \in created \ {running}
  /\ running' = to
  /\ stage' = "arriving"
  /\ UNCHANGED <<created, to>>

Arrive ==
  /\ stage = "arriving"
  /\ stage' = "own code"
  /\ UNCHANGED <<created, running, to>>

Next ==
  \/ \E c \in Contexts : Create(c) \/ SwitchTo(c)
  \/ Begin
  \/ HandOver
  \/ Arrive

Spec == Init /\ [][Next]_vars
=============================================================================
