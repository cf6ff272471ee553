------------------------------- MODULE MCMmu -------------------------------
(***************************************************************************)
(* The page table entries that software writes in the runs of Mmu.         *)
(***************************************************************************)
EXTENDS Mmu

(* Two entries that differ in all they say: in the frame, and in what they *)
(* allow, an overlap included.                                             *)
TwoEntries ==
  {Invalid, [frame |-> 1, perms |-> {"LOAD", "STORE"}],
            [frame |-> 0, perms |-> {"LOAD", "FETCH"}]}

OneEntry == {Invalid, [frame |-> 1, perms |-> {"LOAD", "FETCH"}]}
=============================================================================
