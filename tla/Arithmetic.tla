----------------------------- MODULE Arithmetic -----------------------------
(***************************************************************************)
(* The arithmetic that the instructions share (riscv/arith.h, and the      *)
(* rounding of riscv/v_ext_macros.h): the high half of a product from the  *)
(* products of half words, saturation from the signs of what wrapped, and  *)
(* fixed-point rounding from the guard bits.                               *)
(*                                                                         *)
(* A word is a natural number; a signed word is read by its sign bit.  The *)
(* operands are chosen at the start and stay.                              *)
(***************************************************************************)
EXTENDS Integers

CONSTANT Radix  \* bound: the values of half a word, 2 ^ 32 in the code

ASSUME ArithmeticAssumption == Radix \in Nat /\ Radix > 1 /\ Radix % 2 = 0

Modulus == Radix * Radix
SignWeight == Radix * (Radix \div 2)
Words == 0 .. Modulus - 1
RoundingModes == {"RNU", "RNE", "RDN", "ROD"}

VARIABLE operands

ArithmeticInit == operands \in [x : Words, y : Words, z : Words]

ArithmeticTypeOK == operands \in [x : Words, y : Words, z : Words]

Wrap(i) == i % Modulus
Negative(u) == u >= SignWeight
Signed(u) == IF Negative(u) THEN u - Modulus ELSE u
Not(u) == Modulus - 1 - u
Absolute(u) == IF Negative(u) THEN Wrap(-u) ELSE u

mulhu(a, b) ==
  LET a0 == a % Radix
      a1 == a \div Radix
      b0 == b % Radix
      b1 == b \div Radix
      t1 == Wrap(a1 * b0 + Wrap(a0 * b0) \div Radix)
      t2 == Wrap(a0 * b1 + (t1 % Radix))
      t3 == Wrap(a1 * b1 + t1 \div Radix + t2 \div Radix)
  IN (t3 \div Radix) * Radix + (t3 % Radix)

(* A mutant of HighNegated: the low half is not looked at *)
HighNegatedAlways(res, a, b) == Wrap(Not(res) + 1)

(* The high half of -p is ~p, or -p if the low half of p is zero *)
HighNegated(res, a, b) == Wrap(Not(res) + (IF Wrap(a * b) = 0 THEN 1 ELSE 0))

mulh(a, b) ==
  LET res == mulhu(Absolute(a), Absolute(b))
  IN IF Negative(a) # Negative(b) THEN HighNegated(res, a, b) ELSE res

mulhsu(a, b) ==
  LET res == mulhu(Absolute(a), b) IN IF Negative(a) THEN HighNegated(res, a, b) ELSE res

(* The result for the sign of x: the greatest word, or the least *)
Overflowed(x) == Wrap(x \div SignWeight + SignWeight - 1)

sat_add(x, y) ==
  LET res == Wrap(x + y)
      sat == Negative(Overflowed(x)) = Negative(y) /\ Negative(y) # Negative(res)
  IN [value |-> IF sat THEN Overflowed(x) ELSE res, sat |-> sat]

(* Of three: the first two have different signs if any two have *)
sat_add3(x, y, z) ==
  LET swap == Negative(y) # Negative(z) /\ Negative(x) # Negative(z)
      first == sat_add(x, IF swap THEN z ELSE y)
      second == sat_add(first.value, IF swap THEN y ELSE z)
  IN [value |-> second.value, sat |-> first.sat \/ second.sat]

sat_sub(x, y) ==
  LET res == Wrap(x - y)
      sat == Negative(Overflowed(x)) # Negative(y) /\ Negative(Overflowed(x)) # Negative(res)
  IN [value |-> IF sat THEN Overflowed(x) ELSE res, sat |-> sat]

sat_addu(x, y) ==
  LET res == Wrap(x + y) IN [value |-> IF res < x THEN Modulus - 1 ELSE res, sat |-> res < x]

sat_subu(x, y) ==
  LET res == Wrap(x - y) IN [value |-> IF res <= x THEN res ELSE 0, sat |-> ~(res <= x)]

(* INT_ROUNDING, before a shift by the guard bits, of which lsb is the     *)
(* weight of the next.  The result is wide enough.                         *)
Bit(i, weight) == weight > 0 /\ (i \div weight) % 2 = 1

INT_ROUNDING(result, xrm, lsb) ==
  LET half == lsb \div 2
  IN CASE xrm = "RNU" -> result + half
       [] xrm = "RNE" -> IF Bit(result, half) /\ (result % half # 0 \/ Bit(result, lsb))
                         THEN result + lsb ELSE result
       [] xrm = "RDN" -> result
       [] xrm = "ROD" -> IF result % lsb # 0 /\ ~Bit(result, lsb) THEN result + lsb ELSE result

(* vaadd, vasub and the unsigned ones, of the sum or difference *)
Average(i, xrm) == Wrap(INT_ROUNDING(i, xrm, 2) \div 2)

(* vssra, vssrl *)
ScaledShift(i, xrm, weight) == Wrap(INT_ROUNDING(i, xrm, weight) \div weight)

(* vsmul, which saturates for one product only *)
vsmul(x, y, xrm) ==
  IF x = y /\ x = SignWeight THEN SignWeight - 1
  ELSE Wrap(INT_ROUNDING(Signed(x) * Signed(y), xrm, SignWeight) \div SignWeight)

(* vnclip and vnclipu, of a double word *)
vnclip(i, xrm, weight) ==
  LET result == INT_ROUNDING(i, xrm, weight) \div weight
  IN Wrap(IF result < -SignWeight THEN -SignWeight
          ELSE IF result > SignWeight - 1 THEN SignWeight - 1 ELSE result)

vnclipu(i, xrm, weight) ==
  LET result == INT_ROUNDING(i, xrm, weight) \div weight
  IN IF result \div Modulus # 0 THEN Modulus - 1 ELSE result
-----------------------------------------------------------------------------
Clamp(i, low, high) == IF i < low THEN low ELSE IF i > high THEN high ELSE i

Saturates(r, i) ==
  LET c == Clamp(i, -SignWeight, SignWeight - 1) IN r.value = Wrap(c) /\ r.sat = (c # i)
SaturatesUnsigned(r, i) ==
  LET c == Clamp(i, 0, Modulus - 1) IN r.value = c /\ r.sat = (c # i)

(* The integer that stands for i / d in a rounding mode *)
Rounded(i, xrm, d) ==
  LET q == i \div d
      twice == 2 * (i % d)
  IN CASE xrm = "RNU" -> IF twice >= d THEN q + 1 ELSE q
       [] xrm = "RNE" -> IF twice > d \/ (twice = d /\ q % 2 = 1) THEN q + 1 ELSE q
       [] xrm = "RDN" -> q
       [] xrm = "ROD" -> IF twice # 0 /\ q % 2 = 0 THEN q + 1 ELSE q

ProductsExact ==
  LET x == operands.x
      y == operands.y
  IN /\ mulhu(x, y) = (x * y) \div Modulus
     /\ mulh(x, y) = Wrap((Signed(x) * Signed(y)) \div Modulus)
     /\ mulhsu(x, y) = Wrap((Signed(x) * y) \div Modulus)

SaturationExact ==
  LET x == operands.x
      y == operands.y
      z == operands.z
  IN /\ Saturates(sat_add(x, y), Signed(x) + Signed(y))
     /\ Saturates(sat_sub(x, y), Signed(x) - Signed(y))
     /\ Saturates(sat_add3(x, y, z), Signed(x) + Signed(y) + Signed(z))
     /\ SaturatesUnsigned(sat_addu(x, y), x + y)
     /\ SaturatesUnsigned(sat_subu(x, y), x - y)

RoundingExact ==
  LET x == operands.x
      y == operands.y
      wide == Signed(x) * Modulus + y
      wideUnsigned == x * Modulus + y
      weight == 2 ^ (operands.z % 8)
  IN \A xrm \in RoundingModes :
       /\ \A i \in {x + y, x - y, Signed(x) + Signed(y), Signed(x) - Signed(y)} :
            Average(i, xrm) = Wrap(Rounded(i, xrm, 2))
       /\ \A i \in {x, Signed(x)} : ScaledShift(i, xrm, weight) = Wrap(Rounded(i, xrm, weight))
       /\ vsmul(x, y, xrm) =
            Wrap(Clamp(Rounded(Signed(x) * Signed(y), xrm, SignWeight), -SignWeight, SignWeight - 1))
       /\ vnclip(wide, xrm, weight) = Wrap(Clamp(Rounded(wide, xrm, weight), -SignWeight, SignWeight - 1))
       /\ vnclipu(wideUnsigned, xrm, weight) = Clamp(Rounded(wideUnsigned, xrm, weight), 0, Modulus - 1)

(* What the shared arithmetic computes is the product's high half, the     *)
(* clamped sum or difference, with the flag set exactly when it was        *)
(* clamped, and the quotient rounded as the mode says.                     *)
ArithmeticExact == ProductsExact /\ SaturationExact /\ RoundingExact
=============================================================================
