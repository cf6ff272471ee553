-------------------------- MODULE CommandService --------------------------
(***************************************************************************)
(* What a debugger relies on when it uses abstract commands: a command is  *)
(* performed exactly once, on the hart that was selected when it was       *)
(* issued, which is halted until then, with the data the debugger left for *)
(* it; while the service is busy nobody but the command touches that data  *)
(* or that hart's register; and a command that ends in an exception ends   *)
(* with an error code, while none is started before errors are cleared.    *)
(***************************************************************************)
EXTENDS Naturals

CONSTANTS
  Harts, Values, Commands,
  CmdErrs, NONE, BUSY, EXCEPTION  \* the error codes, and three of them

VARIABLES
  phase,   \* "idle", "issued", "running", "failing" (an exception), "done"
  owner,   \* the hart selected
  cmd,     \* the last command issued
  stopped, \* whether a hart is halted
  reg,     \* one register of each hart
  data,    \* the data register of the debugger
  err      \* the error code the debugger reads

vars == <<phase, owner, cmd, stopped, reg, data, err>>

Init ==
  /\ phase = "idle"
  /\ owner \in Nat
  /\ cmd \in Commands \cup {"none"}
  /\ stopped = [h \in Harts |-> FALSE]
  /\ reg \in [Harts -> Values]
  /\ data \in Values
  /\ err \in CmdErrs

(* The debugger, with no command outstanding: it prepares the next one, or *)
(* resets harts.  An error code may be the answer to a refused command.    *)
Prepare ==
  /\ phase = "idle"
  /\ phase' = "idle"
  /\ owner' \in Nat
  /\ cmd' \in Commands \cup {"none"}
  /\ data' \in Values
  /\ err' \in CmdErrs
  /\ reg' \in [Harts -> Values]
  /\ stopped' \in [Harts -> BOOLEAN]
  /\ \A h \in Harts : /\ stopped'[h] => stopped[h]
                      /\ reg'[h] # reg[h] => ~stopped'[h]

Issue ==
  /\ phase = "idle"
  /\ err = NONE
  /\ owner \in Harts /\ stopped[owner]
  /\ phase' = "issued"
  /\ cmd' \in Commands
  /\ data' \in Values
  /\ UNCHANGED <<owner, stopped, reg, err>>

(* The debugger, with a command outstanding: it clears errors, or makes an *)
(* access that is refused and leaves an error.  It touches nothing else.   *)
Meddle ==
  /\ phase # "idle"
  /\ err' \in CmdErrs
  /\ err = NONE => err' \in {NONE, BUSY}
  /\ UNCHANGED <<phase, owner, cmd, stopped, reg, data>>

(* Only the register of hart h may differ.                                 *)
OthersKeep(h) == \A i \in Harts \ {h} : reg'[i] = reg[i]

(* How a program buffer can leave the command: not at an end, or in an     *)
(* exception, or at its end.                                               *)
BufferPhases == {"running", "failing", "done"}

(* Only a program buffer may store to the data register on its own.        *)
Perform ==
  /\ phase = "issued"
  /\ phase' \in IF cmd = "exec" THEN BufferPhases
                ELSE IF cmd = "badcsr" THEN {"failing"} ELSE {"done"}
  /\ data' \in IF cmd = "exec" THEN Values
               ELSE IF cmd = "read" THEN {reg[owner]} ELSE {data}
  /\ cmd = "write" => reg'[owner] = data
  /\ cmd \in {"read", "badcsr"} => reg'[owner] = reg[owner]
  /\ OthersKeep(owner)
  /\ UNCHANGED <<owner, cmd, stopped, err>>

(* The program buffer goes on.                                             *)
Continue ==
  /\ phase = "running"
  /\ phase' \in BufferPhases
  /\ data' \in Values
  /\ OthersKeep(owner)
  /\ UNCHANGED <<owner, cmd, stopped, err>>

(* The exception is reported, but the first error is the one that stays.   *)
Fail ==
  /\ phase = "failing"
  /\ phase' = "done"
  /\ err' = IF err = NONE THEN EXCEPTION ELSE err
  /\ UNCHANGED <<owner, cmd, stopped, reg, data>>

Complete ==
  /\ phase = "done"
  /\ phase' = "idle"
  /\ UNCHANGED <<owner, cmd, stopped, reg, data, err>>

(* A hart that is not the owner of an unfinished command stops, goes on,   *)
(* or runs its program.                                                    *)
HartStep(h) ==
  /\ h = owner => phase \in {"idle", "done"}
  /\ OthersKeep(h)
  /\ stopped[h] /\ stopped'[h] => reg'[h] = reg[h]
  /\ \A i \in Harts \ {h} : stopped'[i] = stopped[i]
  /\ UNCHANGED <<phase, owner, cmd, data, err>>

Next ==
  \/ Prepare
  \/ Issue
  \/ Meddle
  \/ Perform
  \/ Continue
  \/ Fail
  \/ Complete
  \/ \E h \in Harts : HartStep(h)

Spec == Init /\ [][Next]_vars
=============================================================================
