---------------------------- MODULE MCInterrupts ----------------------------
(***************************************************************************)
(* What software writes to the interrupt registers in the run of           *)
(* Interrupts: a machine-level and a supervisor interrupt besides the      *)
(* timer's, one of them delegated and one that cannot be, and exceptions   *)
(* that are delegated and that are not.                                    *)
(***************************************************************************)
EXTENDS Interrupts

EnableAll == {{"MSI", "MTI", "SEI"}}
DelegateExternal == {{"SEI", "MSI"}}
DelegateTwo == {{"user_ecall", "illegal_instruction"}}
SetOrClear == {{}, {"SEI"}}
=============================================================================
