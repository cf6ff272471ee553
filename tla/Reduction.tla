----------------------------- MODULE Reduction ------------------------------
(***************************************************************************)
(* The reference model of vector reductions (red_ref_model/reduction_op.cc)*)
(* which follows the order in which the hardware adds: elements are dealt  *)
(* to lanes, each lane has accumulators that take turns, and each          *)
(* accumulator has parts; then everything is merged, in a line or as a     *)
(* tree.                                                                   *)
(*                                                                         *)
(* A value is the sequence of its terms in the order of the expression; a  *)
(* term is the scalar or an element, with the number of times that it was  *)
(* widened.  An accumulator part that is not `init` is the empty sequence. *)
(* The fold, the branches and the tree overwrite operands that are not     *)
(* used again, and they treat the parts of an accumulator alike, one by    *)
(* one.                                                                    *)
(***************************************************************************)
EXTENDS Integers, Sequences, FiniteSets

CONSTANTS
  LaneNumbers,   \* the values of lane_num
  AccumNumbers,  \* the values of accum_num_fp and accum_num_int
  PartNumbers,   \* the values of 64 / vsew
  MaxVl          \* bound: the greatest vl

ASSUME ReductionAssumption ==
  /\ LaneNumbers \cup AccumNumbers \subseteq Nat \ {0}
  /\ PartNumbers \subseteq {1, 2, 4, 8}
  /\ MaxVl \in Nat \ {0}

Kinds == {"plain", "ordered", "widening", "ordered widening", "widening unsigned"}

(* The arguments of a call, after reduction_setup.  Nothing that is wider  *)
(* than 64 bits is the result of one.                                      *)
Calls ==
  UNION {[kind : Kinds, lanes : LaneNumbers, accums : AccumNumbers, parts : PartNumbers,
          vl : {vl}, masking : BOOLEAN, active : SUBSET (0 .. vl - 1),
          treeIntra : BOOLEAN, treeInter : BOOLEAN] : vl \in 1 .. MaxVl}

Legal(c) ==
  /\ ~c.masking => c.active = 0 .. c.vl - 1
  /\ c.kind \notin {"plain", "ordered"} => c.parts > 1

LegalCalls == {c \in Calls : Legal(c)}

VARIABLES
  arguments,
  result  \* <<>> before the call returns

reductionVars == <<arguments, result>>

ReductionTypeOK ==
  /\ arguments.kind \in Kinds /\ arguments.lanes \in LaneNumbers
  /\ arguments.accums \in AccumNumbers /\ arguments.parts \in PartNumbers
  /\ arguments.vl \in 1 .. MaxVl /\ arguments.active \subseteq 0 .. arguments.vl - 1
  /\ arguments.masking \in BOOLEAN /\ arguments.treeIntra \in BOOLEAN /\ arguments.treeInter \in BOOLEAN
  /\ Legal(arguments)
  /\ result \in Seq([of : -1 .. MaxVl - 1, widened : 0 .. 3])

Widening(c) == c.kind \notin {"plain", "ordered"}
Ordered(c) == c.kind \in {"ordered", "ordered widening"}

Accumulators(c) == IF Widening(c) THEN 1 ELSE c.accums
ResultParts(c) == IF Widening(c) THEN c.parts \div 2 ELSE c.parts
TreeIntra(c) == c.treeIntra /\ ~Widening(c)
TreeInter(c) == c.treeInter /\ ~c.masking

Scalar == -1
Term(i, times) == <<[of |-> i, widened |-> times]>>

(* f32_to_f64, sign_extend; an unsigned element is wide already *)
Widened(c, v) ==
  IF Widening(c) /\ c.kind # "widening unsigned"
  THEN [j \in 1 .. Len(v) |-> [v[j] EXCEPT !.widened = @ + 1]] ELSE v

(* reduction_operation: `accum` tells that the second operand is wide.     *)
(* The first always is.                                                    *)
Operation(c, x, y, accum) == x \o (IF accum THEN y ELSE Widened(c, y))

(* A mutant of InitPart: the first element of a part stays narrow *)
InitPartNarrow(c, v) == v

InitPart(c, v) == Widened(c, v)

(* Accumulate an element                                                   *)
Added(c, part, element) ==
  IF part = <<>> THEN InitPart(c, element) ELSE Operation(c, part, element, FALSE)

(* Two parts of which each may be empty *)
Join(c, x, y) ==
  IF x = <<>> THEN y ELSE IF y = <<>> THEN x ELSE Operation(c, x, y, TRUE)

(* The first lane takes in another, if both have something *)
TakenIn(c, x, y) == IF x # <<>> /\ y # <<>> THEN Operation(c, x, y, TRUE) ELSE x

(* Three loops take in values from 1 to n: elements, of which those that   *)
(* are masked off or belong to others are empty here, the parts of a lane's*)
(* accumulators, and the lanes.                                            *)
Taken(c, loop, x, y) ==
  CASE loop = "elements" -> IF y = <<>> THEN x ELSE Added(c, x, y)
    [] loop = "accumulators" -> Join(c, x, y)
    [] loop = "lanes" -> TakenIn(c, x, y)

InLine(c, loop, first, n, value) ==
  LET sum[i \in 0 .. n] == IF i = 0 THEN first ELSE Taken(c, loop, sum[i - 1], value[i])
  IN sum[n]

(* The recursion of intralane_branch_op, of which this is one part, and of *)
(* tree_merge: over the leaves 0 to n - 1                                  *)
Ranges(n) == {range \in (0 .. n - 1) \X (0 .. n - 1) : range[1] <= range[2]}

Middle(range) == range[1] + ((range[2] - range[1]) \div 2)

Tree(c, n, leaf) ==
  LET branch[range \in Ranges(n)] ==
        IF range[1] = range[2] THEN leaf[range[1]]
        ELSE Join(c, branch[<<range[1], Middle(range)>>], branch[<<Middle(range) + 1, range[2]>>])
  IN branch[<<0, n - 1>>]

(* Where the i-th element goes: a round deals `parts` elements to each     *)
(* lane, and moves each lane to its next accumulator.                      *)
Cell(c, i) ==
  [lane |-> (i \div c.parts) % c.lanes,
   accum |-> (i \div (c.parts * c.lanes)) % Accumulators(c),
   part |-> IF Widening(c) THEN (i % c.parts) \div 2 ELSE i % c.parts]

FirstCell == [lane |-> 0, accum |-> 0, part |-> 0]

(* The active elements that are in a set, by the step that comes to them   *)
Dealt(c, elements) ==
  [i \in 1 .. c.vl |-> IF i - 1 \in c.active \cap elements THEN Term(i - 1, 0) ELSE <<>>]

ReductionOrd(c) ==
  InLine(c, "elements", Term(Scalar, 0), c.vl, Dealt(c, c.active))

Filled(c, cell) ==
  InLine(c, "elements", IF cell = FirstCell THEN Term(Scalar, 0) ELSE <<>>, c.vl,
         Dealt(c, {i \in c.active : Cell(c, i) = cell}))

IntralaneMerge(c, lane, k) ==
  LET accumulator == [a \in 0 .. Accumulators(c) - 1 |->
                        Filled(c, [lane |-> lane, accum |-> a, part |-> k])]
  IN IF TreeIntra(c) THEN Tree(c, Accumulators(c), accumulator)
     ELSE InLine(c, "accumulators", accumulator[0], Accumulators(c) - 1, accumulator)

(* fold: the upper half of the parts is merged into the lower half, until  *)
(* one is left.                                                            *)
Halved(c, left, a) ==
  IF left < ResultParts(c) THEN [k \in 0 .. left - 1 |-> Join(c, a[k], a[k + left])] ELSE a

Fold(c, a) == Halved(c, 1, Halved(c, 2, Halved(c, 4, a)))[0]

LaneValue(c, lane) ==
  Fold(c, [k \in 0 .. ResultParts(c) - 1 |-> IntralaneMerge(c, lane, k)])

Lanes(c) == [lane \in 0 .. c.lanes - 1 |-> LaneValue(c, lane)]

InterlaneMerge(c) == InLine(c, "lanes", Lanes(c)[0], c.lanes - 1, Lanes(c))

NecessaryLanes(c) == c.vl \div c.parts + (IF c.vl % c.parts # 0 THEN 1 ELSE 0)

MergeAccums(c) ==
  IF TreeInter(c) /\ NecessaryLanes(c) >= c.lanes THEN Tree(c, c.lanes, Lanes(c))
  ELSE InterlaneMerge(c)

ReductionInit == arguments \in LegalCalls /\ result = <<>>

DoReduction ==
  /\ result = <<>>
  /\ result' = IF Ordered(arguments) THEN ReductionOrd(arguments) ELSE MergeAccums(arguments)
  /\ UNCHANGED arguments

ReductionSpec == ReductionInit /\ [][DoReduction]_reductionVars
-----------------------------------------------------------------------------
(* Whatever the number of lanes, accumulators and parts, and whichever     *)
(* trees are chosen, the result is of the scalar and of each active        *)
(* element exactly once; each element was widened exactly once if it has   *)
(* to be, before or after it met another, and the scalar never; and an     *)
(* ordered reduction adds in order.                                        *)
EachTermOnce ==
  result # <<>> =>
    LET c == arguments
        times == IF Widening(c) /\ c.kind # "widening unsigned" THEN 1 ELSE 0
        terms == {[of |-> i, widened |-> times] : i \in c.active} \cup {[of |-> Scalar, widened |-> 0]}
    IN /\ Len(result) = Cardinality(terms)
       /\ {result[j] : j \in 1 .. Len(result)} = terms
       /\ Ordered(c) => \A j, k \in 1 .. Len(result) : j < k => result[j].of < result[k].of
=============================================================================
