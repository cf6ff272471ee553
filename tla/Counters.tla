------------------------------ MODULE Counters ------------------------------
(***************************************************************************)
(* The counter CSRs, minstret and mcycle, and the loop of instructions     *)
(* (processor_t::step) that keeps them.  A call of step executes a quantum *)
(* of instructions; the counters are moved only when the inner loop is     *)
(* left, so that they are behind while it runs.  The instructions that     *)
(* read or write a CSR leave the loop first and are then fetched again,    *)
(* with `serialized` set.                                                  *)
(*                                                                         *)
(* One counter stands for both.  It is RV64: minstreth is not modelled.    *)
(***************************************************************************)
EXTENDS Integers

CONSTANTS
  CounterSize,  \* bound: the counters' values, 2 ^ 64 in the code
  Quanta        \* n, the instructions that a call of step executes

ASSUME CountersAssumption ==
  /\ CounterSize \in Nat \ {0} /\ Quanta \subseteq Nat \ {0}
  /\ \E q \in Quanta : \A r \in Quanta : r <= q  \* n is a size_t

Values == 0 .. CounterSize - 1
MaxQuantum == CHOOSE q \in Quanta : \A r \in Quanta : r <= q

VARIABLES
  quantum,     \* n of each call; it stays
  at,          \* "outside" step, at the "head" of its loop, or "inside" the inner loop
  n,           \* what is left of the quantum
  instret,     \* the instructions retired since the inner loop was entered
  serialized,
  unseen,      \* an interrupt may be there that take_pending_interrupt has not seen
  counter,
  ideal,       \* history: what the counter should be, were it always up to date
  leaked,      \* history: a trap was taken at the head with `serialized` set
  skewed,      \* history: the counter was last written late, with `serialized` so leaked
  misread      \* history: an instruction read another value than the ideal one

countersVars == <<quantum, at, n, instret, serialized, unseen, counter, ideal, leaked, skewed, misread>>

CountersTypeOK ==
  /\ quantum \in Quanta /\ at \in {"outside", "head", "inside"}
  /\ n \in 0 .. MaxQuantum /\ instret \in 0 .. MaxQuantum
  /\ serialized \in BOOLEAN /\ unseen \in BOOLEAN
  /\ counter \in Values /\ ideal \in Values
  /\ leaked \in BOOLEAN /\ skewed \in BOOLEAN /\ misread \in BOOLEAN

CountersInit ==
  /\ quantum \in Quanta /\ at = "outside" /\ n = 0 /\ instret = 0
  /\ serialized = FALSE /\ unseen = FALSE
  /\ counter = 0 /\ ideal = 0
  /\ leaked = FALSE /\ skewed = FALSE /\ misread = FALSE

Plus(value, k) == (value + k) % CounterSize

(* bump, after the inner loop with `retired` instructions.  An exception   *)
(* and wfi also end the quantum: they set n to what has been retired.      *)
Leave(value, retired, ended) ==
  /\ counter' = Plus(value, retired)
  /\ n' = IF ended THEN 0 ELSE n - retired
  /\ at' = IF n' = 0 THEN "outside" ELSE "head"
  /\ instret' = 0

(* Between two calls the test bench and the devices may raise an interrupt *)
CallStep ==
  /\ at = "outside"
  /\ at' = "head" /\ n' = quantum /\ unseen' = TRUE
  /\ UNCHANGED <<quantum, instret, serialized, counter, ideal, leaked, skewed, misread>>

EnterInnerLoop ==
  /\ at = "head"
  /\ at' = "inside" /\ unseen' = FALSE
  /\ UNCHANGED <<quantum, n, instret, serialized, counter, ideal, leaked, skewed, misread>>

(* take_pending_interrupt throws before the first instruction *)
Interrupted ==
  /\ at = "head" /\ unseen
  /\ Leave(counter, 0, TRUE)
  /\ unseen' = FALSE
  /\ leaked' = (leaked \/ serialized)
  /\ UNCHANGED <<quantum, serialized, ideal, skewed, misread>>

(* With `serialized` set the instruction is the CSR instruction that was   *)
(* fetched before, unless an interrupt came first.                         *)
FetchesAny == at = "inside" /\ (serialized => leaked)

(* An instruction that serializes nothing.  A store may raise an interrupt. *)
Retire ==
  /\ FetchesAny
  /\ IF instret + 1 < n THEN instret' = instret + 1 /\ UNCHANGED <<at, n, counter>>
     ELSE Leave(counter, instret + 1, FALSE)
  /\ ideal' = Plus(ideal, 1)
  /\ unseen' \in {unseen, TRUE}
  /\ UNCHANGED <<quantum, serialized, leaked, skewed, misread>>

(* An exception, or ebreak into Debug Mode, which leaves the quantum       *)
Abandon ==
  /\ FetchesAny
  /\ \E ended \in BOOLEAN : Leave(counter, instret, ended)
  /\ UNCHANGED <<quantum, serialized, unseen, ideal, leaked, skewed, misread>>

(* serialize, in mret and sret, and wfi, which also ends the quantum *)
RetireAndLeave ==
  /\ FetchesAny
  /\ \E ended \in BOOLEAN : Leave(counter, instret + 1, ended)
  /\ ideal' = Plus(ideal, 1) /\ unseen' = TRUE
  /\ UNCHANGED <<quantum, serialized, leaked, skewed, misread>>

(* validate_csr: a CSR instruction leaves the loop first, to be fetched    *)
(* again                                                                   *)
SerializeBefore ==
  /\ at = "inside" /\ ~serialized
  /\ serialized' = TRUE
  /\ Leave(counter, instret, FALSE)
  /\ UNCHANGED <<quantum, unseen, ideal, leaked, skewed, misread>>

(* A mutant of MayAccess: CSR instructions do not leave the loop first *)
MayAccessAtOnce == at = "inside"

MayAccess == at = "inside" /\ serialized

ReadCounter ==
  /\ MayAccess
  /\ serialized' = FALSE /\ leaked' = FALSE
  /\ misread' = (misread \/ (counter # ideal /\ ~leaked /\ ~skewed))
  /\ Leave(counter, instret + 1, FALSE)
  /\ ideal' = Plus(ideal, 1) /\ unseen' = TRUE
  /\ UNCHANGED <<quantum, skewed>>

(* The value is written with its upcoming bump subtracted: the write takes *)
(* precedence over the increment.                                          *)
WriteCounter(value) ==
  /\ MayAccess
  /\ serialized' = FALSE /\ leaked' = FALSE
  /\ Leave(Plus(value, -1), instret + 1, FALSE)
  /\ ideal' = value /\ skewed' = (leaked /\ instret > 0)
  /\ unseen' = TRUE
  /\ UNCHANGED <<quantum, misread>>

(* A CSR that does not exist or may not be accessed *)
RefuseCsr ==
  /\ MayAccess
  /\ serialized' = FALSE /\ leaked' = FALSE
  /\ Leave(counter, instret, TRUE)
  /\ UNCHANGED <<quantum, unseen, ideal, skewed, misread>>

CountersNext ==
  \/ CallStep \/ EnterInnerLoop \/ Interrupted
  \/ Retire \/ Abandon \/ RetireAndLeave
  \/ SerializeBefore \/ ReadCounter \/ (\E value \in Values : WriteCounter(value)) \/ RefuseCsr

CountersSpec == CountersInit /\ [][CountersNext]_countersVars
-----------------------------------------------------------------------------
(* Instructions read what the counters would be if they were moved at each *)
(* instruction, whatever the quantum and however the inner loop was left,  *)
(* and outside of the inner loop the counters are exact.  There is one     *)
(* exception: an interrupt that comes between the two fetches of a CSR     *)
(* instruction leaves `serialized` set for the handler, until its first    *)
(* CSR instruction.  No such interrupt comes when calls have a quantum of  *)
(* one, as those of the test bench have.                                   *)
CountersExact ==
  /\ ~misread
  /\ at # "inside" /\ ~skewed => counter = ideal
  /\ at = "inside" /\ ~skewed => Plus(counter, instret) = ideal
  /\ quantum = 1 => ~leaked /\ ~skewed
=============================================================================
