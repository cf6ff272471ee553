------------------------------ MODULE BitManip ------------------------------
(***************************************************************************)
(* The bit-manipulation instructions whose code is an algorithm of its own *)
(* (riscv/insns/*.h, riscv/arith.h): counts and permutations in steps that *)
(* double, carry-less products bit by bit, and compression run by run.     *)
(*                                                                         *)
(* A word is the set of its bits that are 1: & is an intersection, | a     *)
(* union, and a shift moves the positions.                                 *)
(***************************************************************************)
EXTENDS Integers, FiniteSets

CONSTANTS
  LogWidth,  \* 6 in the code, for words of 64 bits
  Seconds    \* bound: the values of the second operand

(* 2 ^ k *)
Power[k \in 0 .. LogWidth] == IF k = 0 THEN 1 ELSE 2 * Power[k - 1]

Width == Power[LogWidth]
Positions == 0 .. Width - 1
BitSets == SUBSET Positions

ASSUME BitManipAssumption == LogWidth \in Nat \ {0} /\ Seconds \subseteq SUBSET Positions

VARIABLES data, mask

bitManipVars == <<data, mask>>

BitManipTypeOK == data \subseteq Positions /\ mask \in Seconds

BitManipInit == data \in SUBSET Positions /\ mask \in Seconds

ShiftLeft(v, k) == {i + k : i \in v} \cap Positions
ShiftRight(v, k) == {i - k : i \in v} \cap Positions
Xor(v, w) == (v \ w) \cup (w \ v)
Lowest(v) == CHOOSE i \in v : \A j \in v : i <= j

(* The steps of the algorithms: the powers of two below the width *)
Falling == [k \in 1 .. LogWidth |-> Power[LogWidth - k]]
Rising == [k \in 1 .. LogWidth |-> Power[k - 1]]

(* step[k] is what the k-th iteration makes of what there is so far *)
Iterated(step, first, n) ==
  LET state[k \in 0 .. n] == IF k = 0 THEN first ELSE step[k][state[k - 1]] IN state[n]

(* A step moves the value if the bits that it looks at are all zero *)
Search == [val : BitSets, res : Nat]

Counted(step, v) == IF v = {} THEN 0 ELSE Iterated(step, [val |-> v, res |-> 0], LogWidth).res

clz(v) ==
  Counted([k \in 1 .. LogWidth |-> [s \in Search |->
             IF ShiftRight(s.val, Width - Falling[k]) = {}
             THEN [val |-> ShiftLeft(s.val, Falling[k]), res |-> s.res + Falling[k]] ELSE s]], v)

ctz(v) ==
  Counted([k \in 1 .. LogWidth |-> [s \in Search |->
             IF ShiftLeft(s.val, Width - Falling[k]) = {}
             THEN [val |-> ShiftRight(s.val, Falling[k]), res |-> s.res + Falling[k]] ELSE s]], v)

(* Each step adds the fields of a width in pairs *)
Paired(field, k) == [i \in Positions |-> IF i % (2 * k) = 0 THEN field[i] + field[i + k] ELSE 0]

popcount(v) ==
  Iterated([k \in 1 .. LogWidth |-> [field \in [Positions -> Nat] |-> Paired(field, Rising[k])]],
           [i \in Positions |-> IF i \in v THEN 1 ELSE 0], LogWidth)[0]

(* The loops of the carry-less products, over the bits of b *)
Xors(shifted, b) ==
  Iterated([k \in 1 .. Width |-> [x \in BitSets |-> IF k - 1 \in b THEN Xor(x, shifted[k - 1]) ELSE x]],
           {}, Width)

clmul(a, b) == Xors([i \in Positions |-> ShiftLeft(a, i)], b)
clmulh(a, b) == Xors([i \in Positions |-> ShiftRight(a, Width - i)], b \ {0})
clmulr(a, b) == Xors([i \in Positions |-> ShiftRight(a, Width - i - 1)], b)

(* The lowest run of ones: m & ~((m | (m - 1)) + 1) *)
LowestRun(m) ==
  LET filled == m \cup 0 .. Lowest(m) - 1
      carry == Positions \ filled
      sum == IF carry = {} THEN {} ELSE (filled \ (0 .. Lowest(carry))) \cup {Lowest(carry)}
  IN m \ sum

(* The loops of bcompress and bdecompress, which move a run at a time *)
Moved(way, v, b, k) == IF way = "compress" THEN ShiftRight(v \cap b, k) ELSE ShiftLeft(v, k) \cap b

RunMoved(way, v, s) ==
  LET b == LowestRun(s.m)
  IN [m |-> s.m \ b, c |-> s.c \cup Moved(way, v, b, Lowest(b) - s.i), i |-> s.i + Cardinality(b)]

Runs(way, v, m) ==
  Iterated([k \in 1 .. Width |-> [s \in [m : BitSets, c : BitSets, i : Nat] |->
              IF s.m = {} THEN s ELSE RunMoved(way, v, s)]],
           [m |-> m, c |-> {}, i |-> 0], Width).c

bcompress(v, m) == Runs("compress", v, m)
bdecompress(v, m) == Runs("decompress", v, m)

(* A step exchanges the neighbouring fields of k bits *)
Exchanged(v, k) ==
  LET low == {i \in Positions : (i \div k) % 2 = 0}
  IN ShiftLeft(v \cap low, k) \cup ShiftRight(v \ low, k)

Selected(shamt, k) == (shamt \div k) % 2 = 1

grev(v, shamt) ==
  Iterated([k \in 1 .. LogWidth |-> [w \in BitSets |->
              IF Selected(shamt, Rising[k]) THEN Exchanged(w, Rising[k]) ELSE w]], v, LogWidth)
gorc(v, shamt) ==
  Iterated([k \in 1 .. LogWidth |-> [w \in BitSets |->
              IF Selected(shamt, Rising[k]) THEN w \cup Exchanged(w, Rising[k]) ELSE w]], v, LogWidth)

(* A step exchanges the two middle quarters of each field of 4 * k bits *)
Shuffled(v, k) ==
  LET quarter(q) == {i \in v : (i \div k) % 4 = q}
  IN quarter(0) \cup ShiftLeft(quarter(1), k) \cup ShiftRight(quarter(2), k) \cup quarter(3)

Shuffles(v, shamt, steps) ==
  Iterated([k \in 1 .. LogWidth |-> [w \in BitSets |->
              IF 2 * steps[k] < Width /\ Selected(shamt, steps[k]) THEN Shuffled(w, steps[k]) ELSE w]],
           v, LogWidth)

(* A mutant of shfl: the steps in the order of unshfl *)
shflRising(v, shamt) == Shuffles(v, shamt, Rising)

shfl(v, shamt) == Shuffles(v, shamt, Falling)
unshfl(v, shamt) == Shuffles(v, shamt, Rising)

(* -shamt & (xlen-1) *)
Complement(shamt) == (-shamt) % Width

ror(v, shamt) == ShiftLeft(v, Complement(shamt)) \cup ShiftRight(v, shamt)
rol(v, shamt) == ShiftLeft(v, shamt) \cup ShiftRight(v, Complement(shamt))

(* Funnel shifts: the operands are exchanged for the upper amounts *)
fsl(v1, v3, amount) ==
  LET shamt == amount % Width
      a == IF amount >= Width THEN v3 ELSE v1
      b == IF amount >= Width THEN v1 ELSE v3
  IN IF shamt = 0 THEN a ELSE ShiftLeft(a, shamt) \cup ShiftRight(b, Complement(shamt))
fsr(v1, v3, amount) ==
  LET shamt == amount % Width
      a == IF amount >= Width THEN v3 ELSE v1
      b == IF amount >= Width THEN v1 ELSE v3
  IN IF shamt = 0 THEN a ELSE ShiftLeft(b, Complement(shamt)) \cup ShiftRight(a, shamt)
-----------------------------------------------------------------------------
CountsExact ==
  /\ popcount(data) = Cardinality(data)
  /\ data # {} => /\ ctz(data) \in data /\ \A i \in data : i >= ctz(data)
                  /\ Width - 1 - clz(data) \in data /\ \A i \in data : i <= Width - 1 - clz(data)

(* A bit of the carry-less product is the parity of its partial products   *)
CarrylessExact ==
  LET product == {k \in 0 .. 2 * Width - 1 :
                    Cardinality({i \in data : k - i \in mask}) % 2 = 1}
      from(k) == {i \in Positions : i + k \in product}
  IN clmul(data, mask) = from(0) /\ clmulh(data, mask) = from(Width) /\ clmulr(data, mask) = from(Width - 1)

(* Compression gathers the bits under the mask in order, and its inverse   *)
(* deals them out again                                                    *)
CompressionExact ==
  LET rank(i) == Cardinality({j \in mask : j < i})
  IN /\ bcompress(data, mask) = {rank(i) : i \in data \cap mask}
     /\ bdecompress(data, mask) = {i \in mask : rank(i) \in data}

(* The bits of a position, which the permutations work on                  *)
Index(i) == {k \in 0 .. LogWidth - 1 : Selected(i, Power[k])}

PermutationsExact ==
  \A shamt \in Positions :
    /\ grev(data, shamt) = {i \in Positions : \E j \in data : Xor(Index(i), Index(j)) = Index(shamt)}
    /\ gorc(data, shamt) = {i \in Positions : \E j \in data : Xor(Index(i), Index(j)) \subseteq Index(shamt)}
    /\ unshfl(shfl(data, shamt), shamt) = data
    /\ shfl(data, Width \div 2 - 1) = {((2 * i) % Width) + (i \div (Width \div 2)) : i \in data}

(* A funnel shift takes a word out of two that are rotated together        *)
RotationsExact ==
  LET both == data \cup {i + Width : i \in mask}
  IN \A k \in 0 .. 2 * Width - 1 :
       /\ k < Width => /\ rol(data, k) = {(i + k) % Width : i \in data}
                       /\ ror(data, k) = {(i - k) % Width : i \in data}
       /\ fsr(data, mask, k) = {(i - k) % (2 * Width) : i \in both} \cap Positions
       /\ fsl(data, mask, k) = {i - Width : i \in {(j + k + Width) % (2 * Width) : j \in both} \ Positions}

(* The algorithms compute what the instructions are defined to compute     *)
BitsExact == CountsExact /\ CarrylessExact /\ CompressionExact /\ PermutationsExact /\ RotationsExact
=============================================================================
