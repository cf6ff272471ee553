---------------------------- MODULE VectorMemory ----------------------------
(***************************************************************************)
(* Vector loads and stores that trap and are restarted                     *)
(* (riscv/v_ext_macros.h: VI_LD, VI_LD_INDEX, VI_ST, VI_LDST_FF).  The     *)
(* loop accesses one field of one element after another; an access may     *)
(* fault, the trap handler maps the page and returns, and the instruction  *)
(* begins again with the vstart that it left.  On the standard core vstart *)
(* follows the loop; the cores of the vector unit leave vstart alone, keep *)
(* what they load in mem_data_array, and write the registers at the end.   *)
(*                                                                         *)
(* An indexed load may put its destination over the register of indices    *)
(* when both have the same width and there is one field.  A value is       *)
(* "right" when it came from the address that the instruction meant at     *)
(* first.  Widths, register groups, tails and the checks of operands are   *)
(* left out.                                                               *)
(***************************************************************************)
EXTENDS Integers, FiniteSets

CONSTANTS
  VectorLength,  \* vl
  MaxFields      \* bound: the number of fields of an element

ASSUME VectorAssumption == VectorLength \in Nat \ {0} /\ MaxFields \in Nat \ {0}

Elements == 0 .. VectorLength - 1
FieldNumbers == 0 .. MaxFields - 1
Slots == Elements \X FieldNumbers

(* "overlapping": an indexed load over its own indices; "faultfirst": the  *)
(* fault-only-first load                                                   *)
Instructions == {"load", "overlapping", "store", "faultfirst"}

VARIABLES
  instruction, standard,  \* what is executed, and core_type = STANDARD
  nf,          \* the fields of an element
  active,      \* the elements that the mask lets through
  origin,      \* vstart before the first attempt
  vstart, vl,
  phase,       \* "handler" (also before the first attempt), "loop", "copy" or "done"
  i, fn,       \* the loop's counters
  index,       \* the elements whose index was still there at the attempt's start
  mapped,      \* what can be accessed without a fault
  reg,         \* the destination, or for a store the memory: each "old", "right" or "wrong"
  dataArray,   \* mem_data_array, likewise
  finished     \* history: how often the last field of each element was accessed

vectorVars == <<instruction, standard, nf, active, origin, vstart, vl, phase, i, fn,
                index, mapped, reg, dataArray, finished>>

Datum == {"old", "right", "wrong"}

Overlaps == instruction = "overlapping"

VectorTypeOK ==
  /\ instruction \in Instructions /\ standard \in BOOLEAN
  /\ nf \in 1 .. MaxFields /\ active \subseteq Elements
  /\ origin \in Elements /\ vstart \in Elements /\ vl \in 0 .. VectorLength
  /\ phase \in {"handler", "loop", "copy", "done"}
  /\ i \in 0 .. VectorLength /\ fn \in FieldNumbers
  /\ index \subseteq Elements /\ mapped \subseteq Slots
  /\ reg \in [Slots -> Datum] /\ dataArray \in [Slots -> Datum]
  /\ finished \in [Elements -> 0 .. 2]

VectorInit ==
  /\ instruction \in Instructions /\ standard \in BOOLEAN
  /\ nf \in 1 .. MaxFields /\ (Overlaps => nf = 1)
  /\ active \in SUBSET Elements
  /\ origin \in Elements /\ vstart = origin /\ vl = VectorLength
  /\ phase = "handler" /\ i = 0 /\ fn = 0
  /\ index = Elements
  /\ mapped \in SUBSET Slots
  /\ reg = [p \in Slots |-> "old"]
  /\ dataArray = [p \in Slots |-> "old"]
  /\ finished = [e \in Elements |-> 0]

LoadsByWay == ~standard /\ instruction \in {"load", "overlapping"}

(* The instruction begins, VI_DUPLICATE_VREG first *)
Attempt ==
  /\ phase = "handler"
  /\ phase' = "loop"
  /\ i' = IF instruction = "faultfirst" THEN vstart ELSE 0
  /\ fn' = 0
  /\ index' = IF Overlaps THEN {e \in Elements : reg[<<e, 0>>] = "old"} ELSE Elements
  /\ UNCHANGED <<instruction, standard, nf, active, origin, vstart, vl, mapped, reg, dataArray, finished>>

(* VI_ELEMENT_SKIP *)
Skipped(e) == e < vstart \/ e \notin active

SkipElement ==
  /\ phase = "loop" /\ i < vl /\ Skipped(i)
  /\ i' = i + 1
  /\ UNCHANGED <<instruction, standard, nf, active, origin, vstart, vl, phase, fn, index, mapped,
                 reg, dataArray, finished>>

TracksVstart == standard /\ instruction # "faultfirst"

(* A mutant of Mark: vstart is not written *)
MarkNothing(e) == UNCHANGED vstart

(* vstart is written before the element's first access *)
Mark(e) == vstart' = IF TracksVstart THEN e ELSE vstart

AccessField ==
  /\ phase = "loop" /\ i < vl /\ ~Skipped(i) /\ <<i, fn>> \in mapped
  /\ Mark(i)
  /\ LET datum == IF i \in index THEN "right" ELSE "wrong" IN
       /\ dataArray' = [dataArray EXCEPT ![<<i, fn>>] = datum]
       /\ reg' = IF LoadsByWay THEN reg ELSE [reg EXCEPT ![<<i, fn>>] = datum]
  /\ IF fn = nf - 1
     THEN /\ fn' = 0 /\ i' = i + 1
          /\ finished' = [finished EXCEPT ![i] = IF @ < 2 THEN @ + 1 ELSE 2]
     ELSE /\ fn' = fn + 1 /\ UNCHANGED <<i, finished>>
  /\ UNCHANGED <<instruction, standard, nf, active, origin, vl, phase, index, mapped>>

Fault == phase = "loop" /\ i < vl /\ ~Skipped(i) /\ <<i, fn>> \notin mapped

TrapOnField ==
  /\ Fault
  /\ instruction = "faultfirst" => i = 0
  /\ Mark(i)
  /\ phase' = "handler"
  /\ UNCHANGED <<instruction, standard, nf, active, origin, vl, i, fn, index, mapped,
                 reg, dataArray, finished>>

(* The fault-only-first load ends here and is shorter for it *)
ShortenVector ==
  /\ Fault
  /\ instruction = "faultfirst" /\ i # 0
  /\ vl' = i
  /\ fn' = 0
  /\ UNCHANGED <<instruction, standard, nf, active, origin, vstart, phase, i, index, mapped,
                 reg, dataArray, finished>>

EndLoop ==
  /\ phase = "loop" /\ i >= vl
  /\ phase' = IF LoadsByWay THEN "copy" ELSE "done"
  /\ vstart' = IF LoadsByWay THEN vstart ELSE 0
  /\ UNCHANGED <<instruction, standard, nf, active, origin, vl, i, fn, index, mapped,
                 reg, dataArray, finished>>

(* The second loop of the cores of the vector unit *)
CopyArray ==
  /\ phase = "copy"
  /\ reg' = [p \in Slots |-> IF p[1] < vl /\ p[2] < nf /\ ~Skipped(p[1])
                                      THEN dataArray[p] ELSE reg[p]]
  /\ phase' = "done" /\ vstart' = 0
  /\ UNCHANGED <<instruction, standard, nf, active, origin, vl, i, fn, index, mapped,
                 dataArray, finished>>

(* The operating system maps what the trap asked for, and may take away    *)
(* any other page meanwhile; it restores vstart before it returns.         *)
HandlePageFault ==
  /\ phase = "handler" /\ <<i, fn>> \notin mapped
  /\ \E pages \in SUBSET Slots :
       /\ <<i, fn>> \in pages
       /\ Cardinality(mapped \ pages) <= 1
       /\ mapped' = pages
  /\ UNCHANGED <<instruction, standard, nf, active, origin, vstart, vl, phase, i, fn, index,
                 reg, dataArray, finished>>

VectorNext ==
  \/ Attempt \/ SkipElement \/ AccessField \/ TrapOnField \/ ShortenVector
  \/ EndLoop \/ CopyArray \/ HandlePageFault

VectorSpec == VectorInit /\ [][VectorNext]_vectorVars
-----------------------------------------------------------------------------
(* However often it was restarted and wherever, an instruction that ends   *)
(* has put the right datum into each active element from the first vstart  *)
(* on and left the others alone, and tells the test bench the same; a      *)
(* fault-only-first load does so up to the length that it leaves.  The     *)
(* standard core repeats no element that was complete, and the others      *)
(* leave the registers whole for as long as a load may still trap.         *)
RestartsExactly ==
  /\ phase = "done" =>
       /\ vstart = 0
       /\ \A p \in Slots :
            IF p[2] < nf /\ p[1] \in active /\ origin <= p[1] /\ p[1] < vl
            THEN reg[p] = "right" /\ dataArray[p] = "right"
            ELSE reg[p] # "old" => instruction = "faultfirst" /\ vl <= p[1]
  /\ standard => \A e \in Elements : finished[e] <= 1
  /\ LoadsByWay /\ phase # "done" => \A p \in Slots : reg[p] = "old"
=============================================================================
