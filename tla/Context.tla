------------------------------ MODULE Context -------------------------------
(***************************************************************************)
(* Coroutines (fesvr/context.cc) in the form that is built where there is  *)
(* no glibc: each context is a thread with a flag, a mutex and a condition *)
(* variable, and switch_to hands the processor over by setting flags       *)
(* outside the mutexes.  The host side of the front-end server and the     *)
(* simulator are two such contexts.                                        *)
(*                                                                         *)
(* A flag is one aligned word that is read under the mutex of its owner    *)
(* between calls of the thread library, so a racing read finds the old or  *)
(* the new value.  A context's function does not return.                   *)
(***************************************************************************)
CONSTANTS
  Contexts,
  MainContext,  \* the one that current() makes of the first thread
  Nobody        \* no context: the holder of a free mutex

ASSUME ContextAssumption == MainContext \in Contexts /\ Nobody \notin Contexts

VARIABLES
  flag,      \* of each context
  mutex,     \* who holds the mutex of each context
  at,        \* where each thread is
  target     \* `this` of the running call of switch_to or init

contextVars == <<flag, mutex, at, target>>

(* In the order in which a thread comes by; new threads begin in wrapper,  *)
(* which switches to the creator first.                                    *)
Places == {"uncreated", "user",
           "init lock", "init clear", "create",
           "clear", "set", "lock target", "signal", "unlock target", "lock own",
           "test", "wait", "asleep", "awoken", "unlock own"}

ContextTypeOK ==
  /\ flag \in [Contexts -> BOOLEAN]
  /\ mutex \in [Contexts -> Contexts \cup {Nobody}]
  /\ at \in [Contexts -> Places]
  /\ target \in [Contexts -> Contexts]

ContextInit ==
  /\ flag = [c \in Contexts |-> c = MainContext]
  /\ mutex = [c \in Contexts |-> Nobody]
  /\ at = [c \in Contexts |-> IF c = MainContext THEN "user" ELSE "uncreated"]
  /\ target = [c \in Contexts |-> c]

Move(c, from, to) == at[c] = from /\ at' = [at EXCEPT ![c] = to]
Lock(c, m) == mutex[m] = Nobody /\ mutex' = [mutex EXCEPT ![m] = c]
Unlock(m) == mutex' = [mutex EXCEPT ![m] = Nobody]

(***************************************************************************)
(* What the running context may ask for                                    *)
(***************************************************************************)
CallSwitchTo(c, t) ==
  /\ Move(c, "user", "clear")
  /\ t # c /\ at[t] # "uncreated"
  /\ target' = [target EXCEPT ![c] = t]
  /\ UNCHANGED <<flag, mutex>>

CallInit(c, t) ==
  /\ Move(c, "user", "init lock")
  /\ at[t] = "uncreated"
  /\ target' = [target EXCEPT ![c] = t]
  /\ UNCHANGED <<flag, mutex>>

(***************************************************************************)
(* init: the creator waits with its mutex held from before the thread      *)
(***************************************************************************)
InitLock(c) ==
  /\ Move(c, "init lock", "init clear") /\ Lock(c, c)
  /\ UNCHANGED <<flag, target>>

(* A mutant of InitClear: the creator keeps its flag *)
InitUncleared(c) ==
  /\ Move(c, "init clear", "create")
  /\ UNCHANGED <<flag, mutex, target>>

InitClear(c) ==
  /\ Move(c, "init clear", "create")
  /\ flag' = [flag EXCEPT ![c] = FALSE]
  /\ UNCHANGED <<mutex, target>>

Create(c) ==
  /\ at[c] = "create"
  /\ at' = [at EXCEPT ![c] = "test", ![target[c]] = "clear"]
  /\ target' = [target EXCEPT ![target[c]] = c]
  /\ UNCHANGED <<flag, mutex>>

(***************************************************************************)
(* switch_to                                                               *)
(***************************************************************************)
ClearFlag(c) ==
  /\ Move(c, "clear", "set")
  /\ flag' = [flag EXCEPT ![c] = FALSE]
  /\ UNCHANGED <<mutex, target>>

SetFlag(c) ==
  /\ Move(c, "set", "lock target")
  /\ flag' = [flag EXCEPT ![target[c]] = TRUE]
  /\ UNCHANGED <<mutex, target>>

(* A mutant of LockTarget: the signal is given outside of the mutex *)
LockTargetFreely(c) ==
  /\ Move(c, "lock target", "signal")
  /\ UNCHANGED <<flag, mutex, target>>

LockTarget(c) ==
  /\ Move(c, "lock target", "signal") /\ Lock(c, target[c])
  /\ UNCHANGED <<flag, target>>

Signal(c) ==
  /\ at[c] = "signal"
  /\ at' = [at EXCEPT ![c] = "unlock target",
                      ![target[c]] = IF @ = "asleep" THEN "awoken" ELSE @]
  /\ UNCHANGED <<flag, mutex, target>>

UnlockTarget(c) ==
  /\ Move(c, "unlock target", "lock own") /\ Unlock(target[c])
  /\ UNCHANGED <<flag, target>>

(* A mutant of LockOwn: the own flag is cleared here *)
LockOwnClearing(c) ==
  /\ Move(c, "lock own", "test") /\ Lock(c, c)
  /\ flag' = [flag EXCEPT ![c] = FALSE]
  /\ UNCHANGED target

LockOwn(c) ==
  /\ Move(c, "lock own", "test") /\ Lock(c, c)
  /\ UNCHANGED <<flag, target>>

(* The loop: the flag is read under the own mutex, but may be set since    *)
Test(c) ==
  /\ Move(c, "test", IF flag[c] THEN "unlock own" ELSE "wait")
  /\ UNCHANGED <<flag, mutex, target>>

(* pthread_cond_wait releases the mutex and sleeps in one step             *)
Wait(c) ==
  /\ Move(c, "wait", "asleep") /\ Unlock(c)
  /\ UNCHANGED <<flag, target>>

WakeSpuriously(c) ==
  /\ Move(c, "asleep", "awoken")
  /\ UNCHANGED <<flag, mutex, target>>

(* A mutant of Relock: the flag is not tested again after waking *)
RelockTrusting(c) ==
  /\ Move(c, "awoken", "unlock own") /\ Lock(c, c)
  /\ UNCHANGED <<flag, target>>

Relock(c) ==
  /\ Move(c, "awoken", "test") /\ Lock(c, c)
  /\ UNCHANGED <<flag, target>>

UnlockOwn(c) ==
  /\ Move(c, "unlock own", "user") /\ Unlock(c)
  /\ UNCHANGED <<flag, target>>

(* What a thread does once it has called *)
Proceed(c) ==
  \/ InitLock(c) \/ InitClear(c) \/ Create(c)
  \/ ClearFlag(c) \/ SetFlag(c) \/ LockTarget(c) \/ Signal(c) \/ UnlockTarget(c)
  \/ LockOwn(c) \/ Test(c) \/ Wait(c) \/ Relock(c) \/ UnlockOwn(c)

ContextNext ==
  \E c \in Contexts :
    \/ \E t \in Contexts : CallSwitchTo(c, t) \/ CallInit(c, t)
    \/ WakeSpuriously(c)
    \/ Proceed(c)

(***************************************************************************)
(* The threads are scheduled; nobody is bound to call, and no thread is    *)
(* bound to wake without a signal.  A mutex that is free again and again   *)
(* is had in the end.                                                      *)
(***************************************************************************)
ContextFairness ==
  \A c \in Contexts : WF_contextVars(Proceed(c)) /\ SF_contextVars(LockTarget(c))

ContextSpec == ContextInit /\ [][ContextNext]_contextVars /\ ContextFairness
-----------------------------------------------------------------------------
(* Contexts are coroutines: whatever races the flags and signals of a      *)
(* switch run, at most one of them runs its own code, so that they need no *)
(* locks of their own.                                                     *)
OneContextRuns ==
  \A c, d \in Contexts : at[c] = "user" /\ at[d] = "user" => c = d

(* The processor is a token.  A context has it while its flag is true, and *)
(* in between: from the clearing of its own flag to the setting of that of *)
(* the target, or to the creation of the thread, whose first act is to     *)
(* hand the processor back.                                                *)
HasProcessor(c) == flag[c] \/ at[c] \in {"create", "clear", "set"}

Running == CHOOSE c \in Contexts : HasProcessor(c)

(* What a context that has the processor does at a place *)
StageAt(place) ==
  IF place = "user" THEN "own code"
  ELSE IF place \in {"init lock", "init clear", "create"} THEN "creating"
  ELSE IF place \in {"clear", "set"} THEN "switching"
  ELSE "arriving"

Created == {c \in Contexts : at[c] # "uncreated"}
Stage == StageAt(at[Running])
To == IF Stage \in {"creating", "switching"} THEN target[Running] ELSE Running

Service ==
  INSTANCE Coroutines WITH created <- Created, running <- Running, stage <- Stage, to <- To

(* Flags, mutexes and signals on threads implement coroutines: it is       *)
(* always one context that has the processor, and it goes to the one that  *)
(* was named and to no other.                                              *)
ProvidesCoroutines == Service!Spec

(* A wake-up is never lost: a thread that sleeps, or is about to, though   *)
(* its flag has been set since it looked, has its signal still to come,    *)
(* from a context that is on its way to give it.                           *)
NoWakeupLost ==
  \A c \in Contexts :
    at[c] \in {"wait", "asleep"} /\ flag[c] =>
      \E d \in Contexts : target[d] = c /\ at[d] \in {"lock target", "signal"}

(* A switch is never lost: the context that was switched to, asleep or on  *)
(* its way there, or not yet done with its own last switch, comes to run;  *)
(* and init returns to the creator.                                        *)
SwitchArrives ==
  \A c \in Contexts : /\ \A t \in Contexts : at[c] = "set" /\ target[c] = t ~> at[t] = "user"
                      /\ at[c] = "create" ~> at[c] = "user"
=============================================================================
