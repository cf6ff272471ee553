-------------------------- MODULE ComputationProofs -------------------------
(***************************************************************************)
(* Theorems about the algorithms: the shared arithmetic is exact for every *)
(* even radix, and a reduction adds each element once, however it is dealt *)
(* to lanes and merged.                                                    *)
(***************************************************************************)
EXTENDS Arithmetic, Reduction, FiniteSetTheorems, WellFoundedInduction, TLAPS

(* Induction over the natural numbers, for a set in place of a predicate.  *)
LEMMA SetInduction ==
  ASSUME NEW T, 0 \in T, \A n \in Nat : n \in T => n + 1 \in T
  PROVE  Nat \subseteq T
  <1> DEFINE rest == Nat \ T
             less == {p \in Nat \X Nat : p[1] < p[2]}
  <1>1. IsWellFoundedOn(less, Nat)
    BY NatLessThanWellFounded DEF OpToRel
  <1>2. SUFFICES ASSUME rest # {} PROVE FALSE  OBVIOUS
  <1>3. PICK n \in rest : \A m \in rest : ~ (<<m, n>> \in less)
    <2> HIDE DEF less
    <2> QED  BY <1>1, <1>2, WFMin
  <1>4. n # 0 /\ n - 1 \in Nat /\ (n - 1) + 1 = n  BY <1>3
  <1>5. <<n - 1, n>> \in less  BY <1>3, <1>4
  <1>6. n - 1 \in T  BY <1>3, <1>4, <1>5
  <1>7. QED  BY <1>3, <1>4, <1>6


(***************************************************************************)
(* Quotients and remainders.                                               *)
(***************************************************************************)
LEMMA DivMod ==
  ASSUME NEW m \in Nat \ {0}, NEW x \in Int
  PROVE  /\ x \div m \in Int /\ x % m \in Int /\ 0 <= x % m /\ x % m < m
         /\ x = m * (x \div m) + (x % m)
  BY SMTT(60)

LEMMA Quotients ==
  ASSUME NEW m \in Nat \ {0}, NEW x \in Nat
  PROVE  /\ x \div m \in Nat /\ x % m \in Nat /\ x % m < m
         /\ x = m * (x \div m) + (x % m)
  BY SMTT(60)

LEMMA DivModIs ==
  ASSUME NEW m \in Nat \ {0}, NEW q \in Int, NEW r \in Int, 0 <= r, r < m
  PROVE  (m * q + r) \div m = q /\ (m * q + r) % m = r
  BY SMTT(60)

LEMMA ProductSign ==
  ASSUME NEW a \in Nat, NEW b \in Nat, NEW c \in Nat, NEW d \in Nat, a <= c, b <= d
  PROVE  a * b \in Nat /\ a * b <= c * d
  BY SMTT(60)

(***************************************************************************)
(* Words.                                                                  *)
(***************************************************************************)
LEMMA WordFacts ==
  /\ Radix \in Nat \ {0} /\ Radix >= 2 /\ Modulus \in Nat \ {0} /\ SignWeight \in Nat \ {0}
  /\ Modulus = 2 * SignWeight /\ SignWeight >= 2
  /\ \E h \in Nat : SignWeight = 2 * h
<1> DEFINE h == Radix \div 2
<1>1. Radix \in Nat /\ Radix > 1 /\ Radix % 2 = 0
  BY ArithmeticAssumption
<1>2. h \in Nat /\ Radix = 2 * h /\ h >= 1
  BY <1>1
<1> HIDE DEF h
<1>3. h * h \in Nat /\ h * h >= 1
  BY <1>2, SMT
<1>4. Modulus = 4 * (h * h) /\ SignWeight = 2 * (h * h)
  <2>1. SignWeight = Radix * h
    BY DEF SignWeight, h
  <2> QED
    BY <1>2, <2>1 DEF Modulus
<1> QED
  BY <1>1, <1>3, <1>4

LEMMA WrapCases ==
  /\ \A i \in Int : 0 <= i /\ i < Modulus => Wrap(i) = i
  /\ \A i \in Int : Modulus <= i /\ i < 2 * Modulus => Wrap(i) = i - Modulus
  /\ \A i \in Int : -Modulus <= i /\ i < 0 => Wrap(i) = i + Modulus
<1>0. Modulus \in Nat \ {0}
  BY WordFacts
<1>1. ASSUME NEW i \in Int, NEW q \in {-1, 0, 1}, 0 <= i - Modulus * q, i - Modulus * q < Modulus
      PROVE  Wrap(i) = i - Modulus * q
  <2> DEFINE r == i - Modulus * q
  <2>1. r \in Int /\ 0 <= r /\ r < Modulus /\ q \in Int /\ i = Modulus * q + r
    BY <1>0, <1>1
  <2> HIDE DEF r
  <2>2. (Modulus * q + r) % Modulus = r
    BY <1>0, <2>1, DivModIs
  <2>3. Wrap(i) = r
    BY <2>1, <2>2 DEF Wrap
  <2> QED
    BY <2>3 DEF r
<1>2. ASSUME NEW i \in Int, 0 <= i, i < Modulus PROVE Wrap(i) = i
  BY <1>0, <1>1, <1>2
<1>3. ASSUME NEW i \in Int, Modulus <= i, i < 2 * Modulus PROVE Wrap(i) = i - Modulus
  BY <1>0, <1>1, <1>3
<1>4. ASSUME NEW i \in Int, -Modulus <= i, i < 0 PROVE Wrap(i) = i + Modulus
  BY <1>0, <1>1, <1>4
<1> QED
  BY <1>2, <1>3, <1>4

(* A word and the integer that it stands for                               *)
LEMMA SignFacts ==
  ASSUME NEW x \in Words
  PROVE  /\ x \in Nat /\ x < Modulus
         /\ Signed(x) \in Int /\ -SignWeight <= Signed(x) /\ Signed(x) < SignWeight
         /\ (Negative(x) <=> Signed(x) < 0) /\ (Negative(x) <=> x >= SignWeight)
         /\ Signed(x) = IF Negative(x) THEN x - Modulus ELSE x
BY WordFacts DEF Words, Signed, Negative

(***************************************************************************)
(* Saturation.                                                             *)
(***************************************************************************)
LEMMA OverflowedFacts ==
  ASSUME NEW x \in Words
  PROVE  Overflowed(x) = IF Negative(x) THEN SignWeight ELSE SignWeight - 1
<1> USE WordFacts
<1>1. x \in Nat /\ x < 2 * SignWeight /\ (Negative(x) <=> x >= SignWeight)
  BY SignFacts
<1>2. x \div SignWeight = IF Negative(x) THEN 1 ELSE 0
  <2>1. CASE Negative(x)
    <3> DEFINE r == x - SignWeight
    <3>1. r \in Int /\ 0 <= r /\ r < SignWeight /\ x = SignWeight * 1 + r /\ 1 \in Int
      BY <1>1, <2>1
    <3> HIDE DEF r
    <3>2. (SignWeight * 1 + r) \div SignWeight = 1
      BY <3>1, DivModIs
    <3> QED
      BY <2>1, <3>1, <3>2
  <2>2. CASE ~Negative(x)
    <3>1. x \in Int /\ 0 <= x /\ x < SignWeight /\ x = SignWeight * 0 + x /\ 0 \in Int
      BY <1>1, <2>2
    <3>2. (SignWeight * 0 + x) \div SignWeight = 0
      BY <3>1, DivModIs
    <3> QED
      BY <2>2, <3>1, <3>2
  <2> QED
    BY <2>1, <2>2
<1>3. Wrap(SignWeight) = SignWeight /\ Wrap(SignWeight - 1) = SignWeight - 1
  BY WrapCases
<1>4. 1 + SignWeight - 1 = SignWeight /\ 0 + SignWeight - 1 = SignWeight - 1
  OBVIOUS
<1> QED
  BY <1>2, <1>3, <1>4 DEF Overflowed

(* The word for an integer, and the clamped integer                        *)
LEMMA ClampWord ==
  ASSUME NEW i \in Int, -Modulus <= i, i < Modulus
  PROVE  /\ Clamp(i, -SignWeight, SignWeight - 1) \in Int
         /\ Wrap(Clamp(i, -SignWeight, SignWeight - 1)) =
              IF i < -SignWeight THEN SignWeight
              ELSE IF i >= SignWeight THEN SignWeight - 1
              ELSE IF i < 0 THEN i + Modulus ELSE i
BY WordFacts, WrapCases DEF Clamp

LEMMA SaturatingAdd ==
  ASSUME NEW x \in Words, NEW y \in Words
  PROVE  /\ Saturates(sat_add(x, y), Signed(x) + Signed(y))
         /\ sat_add(x, y).value \in Words /\ sat_add(x, y).sat \in BOOLEAN
         /\ Signed(sat_add(x, y).value) = Clamp(Signed(x) + Signed(y), -SignWeight, SignWeight - 1)
<1> DEFINE i == Signed(x) + Signed(y)
           res == Wrap(x + y)
           top == Overflowed(x)
           sat == Negative(top) = Negative(y) /\ Negative(y) # Negative(res)
<1>1. sat_add(x, y) = [value |-> IF sat THEN top ELSE res, sat |-> sat]
  BY DEF sat_add
<1>2. /\ x \in Nat /\ x < Modulus /\ y \in Nat /\ y < Modulus
      /\ (Negative(x) <=> x >= SignWeight) /\ (Negative(y) <=> y >= SignWeight)
  BY SignFacts
<1>3. res = IF x + y < Modulus THEN x + y ELSE x + y - Modulus
  BY <1>2, WordFacts, WrapCases
<1>4. top = IF Negative(x) THEN SignWeight ELSE SignWeight - 1
  BY OverflowedFacts
<1>5. i = (IF Negative(x) THEN x - Modulus ELSE x) + (IF Negative(y) THEN y - Modulus ELSE y)
  BY SignFacts
<1>6. -Modulus <= i /\ i < Modulus /\ i \in Int
  BY <1>2, <1>5, WordFacts
<1>7. Wrap(Clamp(i, -SignWeight, SignWeight - 1)) =
        IF i < -SignWeight THEN SignWeight ELSE IF i >= SignWeight THEN SignWeight - 1
        ELSE IF i < 0 THEN i + Modulus ELSE i
  BY <1>6, ClampWord
<1> HIDE DEF i, res, top
<1>8. sat <=> i < -SignWeight \/ i >= SignWeight
  BY <1>2, <1>3, <1>4, <1>5, WordFacts DEF Negative
<1>9. (IF sat THEN top ELSE res) = Wrap(Clamp(i, -SignWeight, SignWeight - 1))
  BY <1>2, <1>3, <1>4, <1>5, <1>7, <1>8, WordFacts DEF Negative
<1>10. sat <=> Clamp(i, -SignWeight, SignWeight - 1) # i
  BY <1>6, <1>8, WordFacts DEF Clamp
<1>b. sat \in BOOLEAN
  OBVIOUS
<1> HIDE DEF sat
<1>11. Saturates(sat_add(x, y), i)
  BY <1>b, <1>1, <1>9, <1>10 DEF Saturates
<1>12. sat_add(x, y).value \in Words /\ sat_add(x, y).sat \in BOOLEAN
  BY <1>b, <1>1, <1>6, <1>7, <1>9, WordFacts DEF Words
<1>13. Signed(sat_add(x, y).value) = Clamp(i, -SignWeight, SignWeight - 1)
  BY <1>1, <1>6, <1>7, <1>9, WordFacts DEF Signed, Negative, Clamp
<1> QED
  BY <1>1, <1>11, <1>12, <1>13 DEF i

LEMMA SaturatingSub ==
  ASSUME NEW x \in Words, NEW y \in Words
  PROVE  Saturates(sat_sub(x, y), Signed(x) - Signed(y))
<1> DEFINE i == Signed(x) - Signed(y)
           res == Wrap(x - y)
           top == Overflowed(x)
           sat == Negative(top) # Negative(y) /\ Negative(top) # Negative(res)
<1>1. sat_sub(x, y) = [value |-> IF sat THEN top ELSE res, sat |-> sat]
  BY DEF sat_sub
<1>2. /\ x \in Nat /\ x < Modulus /\ y \in Nat /\ y < Modulus
      /\ (Negative(x) <=> x >= SignWeight) /\ (Negative(y) <=> y >= SignWeight)
  BY SignFacts
<1>3. res = IF x >= y THEN x - y ELSE x - y + Modulus
  BY <1>2, WordFacts, WrapCases
<1>4. top = IF Negative(x) THEN SignWeight ELSE SignWeight - 1
  BY OverflowedFacts
<1>5. i = (IF Negative(x) THEN x - Modulus ELSE x) - (IF Negative(y) THEN y - Modulus ELSE y)
  BY SignFacts
<1>6. -Modulus <= i /\ i < Modulus /\ i \in Int
  BY <1>2, <1>5, WordFacts
<1>7. Wrap(Clamp(i, -SignWeight, SignWeight - 1)) =
        IF i < -SignWeight THEN SignWeight ELSE IF i >= SignWeight THEN SignWeight - 1
        ELSE IF i < 0 THEN i + Modulus ELSE i
  BY <1>6, ClampWord
<1> HIDE DEF i, res, top
<1>8. sat <=> i < -SignWeight \/ i >= SignWeight
  BY <1>2, <1>3, <1>4, <1>5, WordFacts DEF Negative
<1>9. (IF sat THEN top ELSE res) = Wrap(Clamp(i, -SignWeight, SignWeight - 1))
  BY <1>2, <1>3, <1>4, <1>5, <1>7, <1>8, WordFacts DEF Negative
<1>10. sat <=> Clamp(i, -SignWeight, SignWeight - 1) # i
  BY <1>6, <1>8, WordFacts DEF Clamp
<1>b. sat \in BOOLEAN
  OBVIOUS
<1> HIDE DEF sat
<1>11. Saturates(sat_sub(x, y), i)
  BY <1>b, <1>1, <1>9, <1>10 DEF Saturates
<1> QED
  BY <1>11 DEF i

(* Of three, those that are added first cannot overflow unless all three   *)
(* have the same sign.                                                     *)
LEMMA SaturatingAdd3 ==
  ASSUME NEW x \in Words, NEW y \in Words, NEW z \in Words
  PROVE  Saturates(sat_add3(x, y, z), Signed(x) + Signed(y) + Signed(z))
<1> DEFINE swap == Negative(y) # Negative(z) /\ Negative(x) # Negative(z)
           u == IF swap THEN z ELSE y
           v == IF swap THEN y ELSE z
           first == sat_add(x, u)
           second == sat_add(first.value, v)
           C(n) == Clamp(n, -SignWeight, SignWeight - 1)
<1>1. sat_add3(x, y, z) = [value |-> second.value, sat |-> first.sat \/ second.sat]
  BY DEF sat_add3
<1>2. u \in Words /\ v \in Words /\ Signed(u) + Signed(v) = Signed(y) + Signed(z)
  BY SignFacts
<1>3. \/ Negative(x) /\ Negative(u) /\ Negative(v)
      \/ ~Negative(x) /\ ~Negative(u) /\ ~Negative(v)
      \/ Negative(x) # Negative(u)
  <2>1. Negative(x) \in BOOLEAN /\ Negative(y) \in BOOLEAN /\ Negative(z) \in BOOLEAN
    BY DEF Negative
  <2> QED
    BY <2>1
<1> HIDE DEF u, v
<1>4. /\ first.value \in Words /\ first.sat \in BOOLEAN
      /\ first.sat = (C(Signed(x) + Signed(u)) # Signed(x) + Signed(u))
      /\ Signed(first.value) = C(Signed(x) + Signed(u))
  BY <1>2, SaturatingAdd DEF Saturates
<1> HIDE DEF first
<1>5. /\ second.value = Wrap(C(Signed(first.value) + Signed(v)))
      /\ second.sat = (C(Signed(first.value) + Signed(v)) # Signed(first.value) + Signed(v))
      /\ second.sat \in BOOLEAN
  BY <1>2, <1>4, SaturatingAdd DEF Saturates
<1> HIDE DEF second
<1>6. /\ Signed(x) \in Int /\ -SignWeight <= Signed(x) /\ Signed(x) < SignWeight
      /\ Signed(u) \in Int /\ -SignWeight <= Signed(u) /\ Signed(u) < SignWeight
      /\ Signed(v) \in Int /\ -SignWeight <= Signed(v) /\ Signed(v) < SignWeight
      /\ (Negative(x) <=> Signed(x) < 0) /\ (Negative(u) <=> Signed(u) < 0)
      /\ (Negative(v) <=> Signed(v) < 0)
  BY <1>2, SignFacts
<1>s. \/ Signed(x) < 0 /\ Signed(u) < 0 /\ Signed(v) < 0
      \/ ~(Signed(x) < 0) /\ ~(Signed(u) < 0) /\ ~(Signed(v) < 0)
      \/ Signed(x) < 0 /\ ~(Signed(u) < 0)
      \/ ~(Signed(x) < 0) /\ Signed(u) < 0
  <2>1. Negative(x) \in BOOLEAN /\ Negative(u) \in BOOLEAN
    BY DEF Negative
  <2> QED
    BY <1>3, <1>6, <2>1, Zenon
<1>7. \A n \in Int : C(n) = IF n < -SignWeight THEN -SignWeight
                            ELSE IF n > SignWeight - 1 THEN SignWeight - 1 ELSE n
  BY DEF Clamp
<1> HIDE DEF C
<1>8. /\ C(Signed(first.value) + Signed(v)) = C(Signed(x) + Signed(u) + Signed(v))
      /\ (first.sat \/ second.sat) = (C(Signed(x) + Signed(u) + Signed(v)) # Signed(x) + Signed(u) + Signed(v))
  <2> DEFINE a == Signed(x)
             b == Signed(u)
             c == Signed(v)
  <2>1. a \in Int /\ b \in Int /\ c \in Int /\ SignWeight \in Int
    BY <1>6, WordFacts
  <2>2. CASE C(a + b) = a + b
    BY <1>4, <1>5, <1>6, <1>7, <2>1, <2>2
  <2>3. CASE C(a + b) # a + b
    <3>1. a + b < -SignWeight \/ a + b > SignWeight - 1
      BY <1>7, <2>1, <2>3
    <3>2. CASE a + b < -SignWeight
      <4>1. a < 0 /\ b < 0 /\ c < 0
        BY <1>s, <1>6, <2>1, <3>2, WordFacts
      <4>2. C(a + b) = -SignWeight /\ C(-SignWeight + c) = -SignWeight /\ C(a + b + c) = -SignWeight
            /\ a + b + c < -SignWeight
        BY <1>7, <2>1, <3>2, <4>1
      <4>3. first.sat
        BY <1>4, <2>3
      <4>4. C(a + b + c) # a + b + c
        BY <2>1, <4>2, WordFacts
      <4>5. C(Signed(first.value) + c) = C(a + b + c)
        BY <1>4, <4>2
      <4> QED
        BY <1>4, <1>5, <4>3, <4>4, <4>5
    <3>3. CASE a + b > SignWeight - 1
      <4>1. a >= 0 /\ b >= 0 /\ c >= 0
        BY <1>s, <1>6, <2>1, <3>3, WordFacts
      <4>2. C(a + b) = SignWeight - 1 /\ C(SignWeight - 1 + c) = SignWeight - 1
            /\ C(a + b + c) = SignWeight - 1 /\ a + b + c > SignWeight - 1
        BY <1>7, <2>1, <3>3, <4>1, WordFacts
      <4>3. first.sat
        BY <1>4, <2>3
      <4>4. C(a + b + c) # a + b + c
        BY <2>1, <4>2, WordFacts
      <4>5. C(Signed(first.value) + c) = C(a + b + c)
        BY <1>4, <4>2
      <4> QED
        BY <1>4, <1>5, <4>3, <4>4, <4>5
    <3> QED
      BY <3>1, <3>2, <3>3
  <2> QED
    BY <2>2, <2>3
<1>9. Signed(x) + Signed(u) + Signed(v) = Signed(x) + Signed(y) + Signed(z)
  <2>1. Signed(y) \in Int /\ Signed(z) \in Int
    BY SignFacts
  <2> QED
    BY <1>2, <1>6, <2>1
<1> QED
  BY <1>1, <1>5, <1>8, <1>9 DEF Saturates, C

LEMMA SaturatingUnsigned ==
  ASSUME NEW x \in Words, NEW y \in Words
  PROVE  /\ SaturatesUnsigned(sat_addu(x, y), x + y)
         /\ SaturatesUnsigned(sat_subu(x, y), x - y)
<1>1. x \in Nat /\ x < Modulus /\ y \in Nat /\ y < Modulus
  BY SignFacts
<1>2. Wrap(x + y) = IF x + y < Modulus THEN x + y ELSE x + y - Modulus
  BY <1>1, WordFacts, WrapCases
<1>3. Wrap(x - y) = IF x >= y THEN x - y ELSE x - y + Modulus
  BY <1>1, WordFacts, WrapCases
<1>4. SaturatesUnsigned(sat_addu(x, y), x + y)
  BY <1>1, <1>2, WordFacts DEF SaturatesUnsigned, sat_addu, Clamp
<1>5. SaturatesUnsigned(sat_subu(x, y), x - y)
  BY <1>1, <1>3, WordFacts DEF SaturatesUnsigned, sat_subu, Clamp
<1> QED
  BY <1>4, <1>5

LEMMA SaturationAlways == ArithmeticTypeOK => SaturationExact
<1> SUFFICES ASSUME ArithmeticTypeOK PROVE SaturationExact
  OBVIOUS
<1>1. operands.x \in Words /\ operands.y \in Words /\ operands.z \in Words
  BY DEF ArithmeticTypeOK
<1> QED
  BY <1>1, SaturatingAdd, SaturatingSub, SaturatingAdd3, SaturatingUnsigned DEF SaturationExact

(***************************************************************************)
(* Products.                                                               *)
(***************************************************************************)

(* The halves of a word                                                    *)
LEMMA Halves ==
  ASSUME NEW a \in Words
  PROVE  /\ a % Radix \in Nat /\ a % Radix <= Radix - 1
         /\ a \div Radix \in Nat /\ a \div Radix <= Radix - 1
         /\ a = Radix * (a \div Radix) + (a % Radix)
<1>0. Radix \in Nat \ {0} /\ a \in Nat /\ a < Radix * Radix
  BY WordFacts DEF Words, Modulus
<1> DEFINE q == a \div Radix
           r == a % Radix
<1>1. q \in Int /\ r \in Int /\ 0 <= r /\ r < Radix /\ a = Radix * q + r
  BY <1>0, DivMod
<1> HIDE DEF q, r
<1>2. q >= 0
  <2>1. SUFFICES ASSUME q <= -1 PROVE FALSE
    BY <1>1
  <2>2. Radix * q <= Radix * (-1)
    BY <1>0, <1>1, <2>1
  <2> QED
    BY <1>0, <1>1, <2>2
<1>3. q <= Radix - 1
  <2>1. SUFFICES ASSUME q >= Radix PROVE FALSE
    BY <1>0, <1>1
  <2>2. Radix * q >= Radix * Radix
    BY <1>0, <1>1, <2>1
  <2> QED
    BY <1>0, <1>1, <2>2
<1>4. q \in Nat /\ r \in Nat /\ r <= Radix - 1
  BY <1>0, <1>1, <1>2
<1> QED
  BY <1>1, <1>3, <1>4 DEF q, r

(* None of the sums of mulhu wraps                                         *)
LEMMA HighHalf ==
  ASSUME NEW a \in Words, NEW b \in Words
  PROVE  /\ mulhu(a, b) \in Words
         /\ mulhu(a, b) = (a * b) \div Modulus
<1> DEFINE R == Radix
           a0 == a % R
           a1 == a \div R
           b0 == b % R
           b1 == b \div R
           top == (R - 1) * (R - 1)
<1>0. R \in Nat \ {0} /\ R >= 2 /\ Modulus \in Nat \ {0} /\ Modulus = R * R
  BY WordFacts DEF Modulus
<1>1. /\ a0 \in Nat /\ a0 <= R - 1 /\ a1 \in Nat /\ a1 <= R - 1 /\ a = R * a1 + a0
      /\ b0 \in Nat /\ b0 <= R - 1 /\ b1 \in Nat /\ b1 <= R - 1 /\ b = R * b1 + b0
  BY Halves
<1> DEFINE p00 == a0 * b0
           p10 == a1 * b0
           p01 == a0 * b1
           p11 == a1 * b1
           w0 == Wrap(p00)
           t1 == Wrap(p10 + w0 \div R)
           t2 == Wrap(p01 + (t1 % R))
           t3 == Wrap(p11 + t1 \div R + t2 \div R)
<1>2. mulhu(a, b) = (t3 \div R) * R + (t3 % R)
  BY DEF mulhu
<1> HIDE DEF a0, a1, b0, b1
<1>3. /\ p00 \in Nat /\ p00 <= top /\ p10 \in Nat /\ p10 <= top
      /\ p01 \in Nat /\ p01 <= top /\ p11 \in Nat /\ p11 <= top
  <2>1. R - 1 \in Nat
    BY <1>0
  <2> QED
    BY <1>1, <2>1, ProductSign
<1>4. top = Modulus - 2 * R + 1 /\ top \in Nat
  <2>1. top = R * R - 2 * R + 1
    BY <1>0
  <2>2. (R - 1) \in Nat
    BY <1>0
  <2>3. top \in Nat
    BY <2>2, ProductSign
  <2> QED
    BY <1>0, <2>1, <2>3
<1>5. a * b = Modulus * p11 + R * p10 + R * p01 + p00
  <2>1. a * b = (R * a1 + a0) * (R * b1 + b0)
    BY <1>1
  <2>2. (R * a1 + a0) * (R * b1 + b0) =
          (R * R) * (a1 * b1) + R * (a1 * b0) + R * (a0 * b1) + a0 * b0
    BY <1>0, <1>1
  <2> QED
    BY <1>0, <2>1, <2>2
<1> HIDE DEF p00, p10, p01, p11, top
<1>6. w0 = p00
  BY <1>0, <1>3, <1>4, WrapCases
<1>7. PICK h0 \in Nat, l0 \in Nat : p00 \div R = h0 /\ p00 = R * h0 + l0 /\ l0 < R /\ h0 <= R - 1
  <2>1. p00 \in Words
    BY <1>0, <1>3, <1>4 DEF Words
  <2> QED
    BY <1>0, <2>1, Halves
<1>8. t1 = p10 + h0 /\ t1 \in Words
  <2>1. p10 + w0 \div R = p10 + h0
    BY <1>6, <1>7
  <2>2. p10 + h0 \in Int /\ 0 <= p10 + h0 /\ p10 + h0 < Modulus
    BY <1>0, <1>3, <1>4, <1>7
  <2> QED
    BY <1>0, <2>1, <2>2, WrapCases DEF Words
<1>9. PICK h1 \in Nat, l1 \in Nat : t1 \div R = h1 /\ t1 % R = l1 /\ t1 = R * h1 + l1 /\ l1 <= R - 1 /\ h1 <= R - 1
  BY <1>8, Halves
<1>10. t2 = p01 + l1 /\ t2 \in Words
  <2>1. p01 + l1 \in Int /\ 0 <= p01 + l1 /\ p01 + l1 < Modulus
    BY <1>0, <1>3, <1>4, <1>9
  <2> QED
    BY <1>0, <1>9, <2>1, WrapCases DEF Words
<1>11. PICK h2 \in Nat, l2 \in Nat : t2 \div R = h2 /\ t2 = R * h2 + l2 /\ l2 <= R - 1 /\ h2 <= R - 1
  BY <1>10, Halves
<1>12. t3 = p11 + h1 + h2 /\ t3 \in Words
  <2>1. p11 + h1 + h2 \in Int /\ 0 <= p11 + h1 + h2 /\ p11 + h1 + h2 < Modulus
    BY <1>0, <1>3, <1>4, <1>9, <1>11
  <2> QED
    BY <1>0, <1>9, <1>11, <2>1, WrapCases DEF Words
<1>13. mulhu(a, b) = t3
  <2>1. t3 = R * (t3 \div R) + (t3 % R) /\ t3 \div R \in Int
    BY <1>12, Halves
  <2> QED
    BY <1>0, <1>2, <2>1
<1> HIDE DEF w0, t1, t2, t3
<1>14. a * b = Modulus * t3 + (R * l2 + l0)
  <2>1. R * p10 + R * p01 + p00 = R * (p10 + h0) + R * p01 + l0
    BY <1>0, <1>3, <1>7
  <2>2. R * (p10 + h0) + R * p01 = R * (R * h1 + l1) + R * p01
    BY <1>8, <1>9
  <2>3. R * (R * h1 + l1) + R * p01 = (R * R) * h1 + R * (p01 + l1)
    BY <1>0, <1>3, <1>9
  <2>4. R * (p01 + l1) = R * (R * h2 + l2)
    BY <1>10, <1>11
  <2>5. R * (R * h2 + l2) = (R * R) * h2 + R * l2
    BY <1>0, <1>11
  <2>6. Modulus * (p11 + h1 + h2) = Modulus * p11 + Modulus * h1 + Modulus * h2
    BY <1>0, <1>3, <1>9, <1>11
  <2> HIDE DEF R
  <2>7. a * b = Modulus * p11 + (R * p10 + R * p01 + p00)
    <3>1. Modulus * p11 \in Int /\ R * p10 \in Int /\ R * p01 \in Int
      BY <1>0, <1>3
    <3> QED
      BY <1>3, <1>5, <3>1
  <2>8. R * p10 + R * p01 + p00 = Modulus * h1 + Modulus * h2 + R * l2 + l0
    <3>1. /\ R * (p10 + h0) \in Int /\ R * p01 \in Int /\ (R * R) * h1 \in Int
          /\ R * (p01 + l1) \in Int /\ (R * R) * h2 \in Int /\ R * l2 \in Int
      BY <1>0, <1>3, <1>7, <1>9, <1>11
    <3> QED
      BY <1>0, <1>7, <2>1, <2>2, <2>3, <2>4, <2>5, <3>1
  <2> QED
    <3>1. Modulus * h1 \in Int /\ Modulus * h2 \in Int /\ R * l2 \in Int /\ Modulus * p11 \in Int
      BY <1>0, <1>3, <1>9, <1>11
    <3> QED
      BY <1>7, <1>12, <2>6, <2>7, <2>8, <3>1
<1>15. R * l2 + l0 \in Int /\ 0 <= R * l2 + l0 /\ R * l2 + l0 < Modulus
  <2>1. R * l2 \in Nat /\ R * l2 <= R * (R - 1)
    BY <1>0, <1>11, ProductSign
  <2>2. R * (R - 1) = R * R - R
    BY <1>0
  <2> QED
    BY <1>0, <1>7, <2>1, <2>2
<1>16. (a * b) \div Modulus = t3
  <2>1. t3 \in Int
    BY <1>12 DEF Words
  <2> QED
    BY <1>0, <1>14, <1>15, <2>1, DivModIs
<1> QED
  BY <1>12, <1>13, <1>16

(* The high half of the negated product, from that of the product          *)
LEMMA NegatedHigh ==
  ASSUME NEW P \in Nat, NEW k \in Int, NEW a \in Int, NEW b \in Int, a * b = Modulus * k - P,
         P \div Modulus \in Words
  PROVE  HighNegated(P \div Modulus, a, b) = Wrap((-P) \div Modulus)
<1> DEFINE M == Modulus
           q == P \div M
           r == P % M
<1>0. M \in Nat \ {0}
  BY WordFacts
<1>1. q \in Int /\ r \in Int /\ 0 <= r /\ r < M /\ P = M * q + r
  BY <1>0, DivMod
<1>2. 0 <= q /\ q < M
  BY <1>0, <1>1 DEF Words
<1>3. HighNegated(q, a, b) = Wrap(M - 1 - q + (IF Wrap(M * k - P) = 0 THEN 1 ELSE 0))
  BY DEF HighNegated, Not
<1> HIDE DEF q, r
<1>4. CASE r = 0
  <2>1. M * k - P = M * (k - q) + 0 /\ k - q \in Int
    BY <1>0, <1>1, <1>4
  <2>2. Wrap(M * k - P) = 0
    <3> DEFINE e == k - q
    <3>1. e \in Int /\ M * k - P = M * e + r
      BY <1>1, <1>4, <2>1
    <3> HIDE DEF e
    <3>2. (M * e + r) % M = r
      BY <1>0, <1>1, <3>1, DivModIs
    <3> QED
      BY <1>4, <3>1, <3>2 DEF Wrap
  <2>3. -P = M * (-q) + 0 /\ -q \in Int
    BY <1>0, <1>1, <1>4
  <2>4. (-P) \div M = -q
    <3> DEFINE e == -q
    <3>1. e \in Int /\ -P = M * e + r
      BY <1>1, <1>4, <2>3
    <3> HIDE DEF e
    <3>2. (M * e + r) \div M = e
      BY <1>0, <1>1, <3>1, DivModIs
    <3> QED
      BY <3>1, <3>2 DEF e
  <2>5. Wrap(M - q) = Wrap(-q)
    <3>1. CASE q = 0
      BY <1>0, <3>1, WrapCases
    <3>2. CASE q # 0
      BY <1>0, <1>1, <1>2, <3>2, WrapCases
    <3> QED
      BY <3>1, <3>2
  <2>6. M - 1 - q + 1 = M - q
    BY <1>0, <1>1
  <2>7. HighNegated(q, a, b) = Wrap(M - q)
    BY <1>3, <2>2, <2>6
  <2> QED
    BY <2>4, <2>5, <2>7 DEF q
<1>5. CASE r # 0
  <2>1. M * k - P = M * (k - q - 1) + (M - r) /\ k - q - 1 \in Int /\ M - r \in Int /\ 0 < M - r /\ M - r < M
    BY <1>0, <1>1, <1>5
  <2>2. Wrap(M * k - P) = M - r
    <3> DEFINE e == k - q - 1
               s == M - r
    <3>1. e \in Int /\ s \in Int /\ 0 <= s /\ s < M /\ M * k - P = M * e + s
      BY <1>0, <1>1, <2>1
    <3> HIDE DEF e, s
    <3>2. (M * e + s) % M = s
      BY <1>0, <3>1, DivModIs
    <3> QED
      BY <3>1, <3>2 DEF Wrap, s
  <2>3. -P = M * (-q - 1) + (M - r) /\ -q - 1 \in Int
    BY <1>0, <1>1, <1>5
  <2>4. (-P) \div M = -q - 1
    <3> DEFINE e == -q - 1
               s == M - r
    <3>1. e \in Int /\ s \in Int /\ 0 <= s /\ s < M /\ -P = M * e + s
      BY <1>0, <1>1, <2>1, <2>3
    <3> HIDE DEF e, s
    <3>2. (M * e + s) \div M = e
      BY <1>0, <3>1, DivModIs
    <3> QED
      BY <3>1, <3>2 DEF e
  <2>5. Wrap(M - 1 - q) = Wrap(-q - 1)
    BY <1>0, <1>1, <1>2, WrapCases
  <2>6. Wrap(M * k - P) # 0
    BY <2>1, <2>2
  <2>7. M - 1 - q + 0 = M - 1 - q
    BY <1>0, <1>1
  <2>8. HighNegated(q, a, b) = Wrap(M - 1 - q)
    BY <1>3, <2>6, <2>7
  <2> QED
    BY <2>4, <2>5, <2>8 DEF q
<1> QED
  BY <1>4, <1>5

LEMMA AbsoluteFacts ==
  ASSUME NEW u \in Words
  PROVE  /\ Absolute(u) \in Words
         /\ Absolute(u) = IF Negative(u) THEN Modulus - u ELSE u
<1>1. u \in Nat /\ u < Modulus /\ (Negative(u) <=> u >= SignWeight)
  BY SignFacts
<1>2. Negative(u) => Wrap(-u) = Modulus - u /\ Modulus - u \in Words
  BY <1>1, WordFacts, WrapCases DEF Words
<1> QED
  BY <1>2 DEF Absolute

LEMMA ProductsOfWords ==
  ASSUME NEW x \in Words, NEW y \in Words
  PROVE  /\ mulhu(x, y) = (x * y) \div Modulus
         /\ mulh(x, y) = Wrap((Signed(x) * Signed(y)) \div Modulus)
         /\ mulhsu(x, y) = Wrap((Signed(x) * y) \div Modulus)
<1> DEFINE M == Modulus
           A == Absolute(x)
           B == Absolute(y)
<1>0. M \in Nat \ {0} /\ x \in Nat /\ y \in Nat /\ M - x \in Nat /\ M - y \in Nat
  BY WordFacts DEF Words
<1>1. /\ A \in Words /\ A = IF Negative(x) THEN M - x ELSE x
      /\ B \in Words /\ B = IF Negative(y) THEN M - y ELSE y
  BY AbsoluteFacts
<1>2. /\ Signed(x) = IF Negative(x) THEN x - M ELSE x
      /\ Signed(y) = IF Negative(y) THEN y - M ELSE y
  BY SignFacts
<1>3. /\ mulh(x, y) = IF Negative(x) # Negative(y) THEN HighNegated(mulhu(A, B), x, y) ELSE mulhu(A, B)
      /\ mulhsu(x, y) = IF Negative(x) THEN HighNegated(mulhu(A, y), x, y) ELSE mulhu(A, y)
  BY DEF mulh, mulhsu
<1>b. Negative(x) \in BOOLEAN /\ Negative(y) \in BOOLEAN
  BY DEF Negative
<1> HIDE DEF A, B
<1>4. ASSUME NEW u \in Words, NEW v \in Words
      PROVE  /\ mulhu(u, v) = (u * v) \div M /\ (u * v) \div M \in Words /\ u * v \in Nat
             /\ Wrap((u * v) \div M) = (u * v) \div M
  <2>1. mulhu(u, v) = (u * v) \div M /\ (u * v) \div M \in Words
    BY HighHalf
  <2>2. u \in Nat /\ v \in Nat
    BY DEF Words
  <2>3. u * v \in Nat
    BY <2>2, ProductSign
  <2>4. \A w \in Words : Wrap(w) = w
    BY WrapCases, WordFacts DEF Words
  <2> QED
    BY <2>1, <2>3, <2>4
<1>5. mulhsu(x, y) = Wrap((Signed(x) * y) \div M)
  <2>1. CASE ~Negative(x)
    BY <1>1, <1>2, <1>3, <1>4, <2>1
  <2>2. CASE Negative(x)
    <3>1. A = M - x /\ Signed(x) = x - M
      BY <1>1, <1>2, <2>2
    <3>2. x * y = M * y - A * y /\ Signed(x) * y = -(A * y)
      BY <1>0, <3>1
    <3>3. A * y \in Nat /\ mulhu(A, y) = (A * y) \div M /\ (A * y) \div M \in Words
      BY <1>1, <1>4
    <3>4. HighNegated(mulhu(A, y), x, y) = Wrap((-(A * y)) \div M)
      BY <1>0, <3>2, <3>3, NegatedHigh
    <3> QED
      BY <1>3, <2>2, <3>2, <3>4
  <2> QED
    BY <2>1, <2>2
<1>6. mulh(x, y) = Wrap((Signed(x) * Signed(y)) \div M)
  <2>1. CASE ~Negative(x) /\ ~Negative(y)
    <3>1. A = x /\ Signed(x) = x /\ B = y /\ Signed(y) = y
      BY <1>1, <1>2, <2>1
    <3>2. mulh(x, y) = mulhu(x, y)
      BY <1>b, <1>3, <2>1, <3>1
    <3> QED
      BY <1>4, <3>1, <3>2
  <2>2. CASE Negative(x) /\ Negative(y)
    <3>1. A = M - x /\ Signed(x) = x - M /\ B = M - y /\ Signed(y) = y - M
      BY <1>1, <1>2, <2>2
    <3>2. Signed(x) * Signed(y) = A * B
      BY <1>0, <3>1
    <3>3. mulh(x, y) = mulhu(A, B)
      BY <1>b, <1>3, <2>2
    <3> QED
      BY <1>1, <1>4, <3>2, <3>3
  <2>3. CASE Negative(x) /\ ~Negative(y)
    <3>1. A = M - x /\ Signed(x) = x - M /\ B = y /\ Signed(y) = y
      BY <1>1, <1>2, <2>3
    <3>2. x * y = M * y - A * B /\ Signed(x) * Signed(y) = -(A * B)
      BY <1>0, <3>1
    <3>3. A * B \in Nat /\ mulhu(A, B) = (A * B) \div M /\ (A * B) \div M \in Words
      BY <1>1, <1>4
    <3>4. HighNegated(mulhu(A, B), x, y) = Wrap((-(A * B)) \div M)
      <4> DEFINE P == A * B
      <4>1. P \in Nat /\ P \div M \in Words /\ x \in Int /\ y \in Int /\ mulhu(A, B) = P \div M
        BY <1>0, <3>3
      <4>2. x * y = M * y - P \/ x * y = M * x - P
        BY <3>2
      <4> HIDE DEF P
      <4>3. HighNegated(P \div M, x, y) = Wrap((-P) \div M)
        BY <4>1, <4>2, NegatedHigh
      <4> QED
        BY <4>1, <4>3 DEF P
    <3>5. mulh(x, y) = HighNegated(mulhu(A, B), x, y)
      BY <1>b, <1>3, <2>3
    <3> QED
      BY <3>2, <3>4, <3>5
  <2>4. CASE ~Negative(x) /\ Negative(y)
    <3>1. A = x /\ Signed(x) = x /\ B = M - y /\ Signed(y) = y - M
      BY <1>1, <1>2, <2>4
    <3>2. x * y = M * x - A * B /\ Signed(x) * Signed(y) = -(A * B)
      BY <1>0, <3>1
    <3>3. A * B \in Nat /\ mulhu(A, B) = (A * B) \div M /\ (A * B) \div M \in Words
      BY <1>1, <1>4
    <3>4. HighNegated(mulhu(A, B), x, y) = Wrap((-(A * B)) \div M)
      <4> DEFINE P == A * B
      <4>1. P \in Nat /\ P \div M \in Words /\ x \in Int /\ y \in Int /\ mulhu(A, B) = P \div M
        BY <1>0, <3>3
      <4>2. x * y = M * y - P \/ x * y = M * x - P
        BY <3>2
      <4> HIDE DEF P
      <4>3. HighNegated(P \div M, x, y) = Wrap((-P) \div M)
        BY <4>1, <4>2, NegatedHigh
      <4> QED
        BY <4>1, <4>3 DEF P
    <3>5. mulh(x, y) = HighNegated(mulhu(A, B), x, y)
      BY <1>b, <1>3, <2>4
    <3> QED
      BY <3>2, <3>4, <3>5
  <2> QED
    BY <2>1, <2>2, <2>3, <2>4
<1> QED
  BY <1>4, <1>5, <1>6

LEMMA ProductsAlways == ArithmeticTypeOK => ProductsExact
<1> SUFFICES ASSUME ArithmeticTypeOK PROVE ProductsExact
  OBVIOUS
<1>1. operands.x \in Words /\ operands.y \in Words
  BY DEF ArithmeticTypeOK
<1> QED
  BY <1>1, ProductsOfWords DEF ProductsExact

(***************************************************************************)
(* Rounding.                                                               *)
(***************************************************************************)

(* What is added before a shift makes the shift round                      *)
LEMMA RoundsAsTheModeSays ==
  ASSUME NEW i \in Int, NEW xrm \in RoundingModes, NEW d \in Nat \ {0},
         d = 1 \/ \E h \in Nat : d = 2 * h
  PROVE  /\ INT_ROUNDING(i, xrm, d) \div d = Rounded(i, xrm, d)
         /\ Rounded(i, xrm, d) \in {i \div d, i \div d + 1}
         /\ i \div d \in Int
         /\ i % d = 0 => Rounded(i, xrm, d) = i \div d
<1> DEFINE q == i \div d
           r == i % d
           h == d \div 2
<1>1. q \in Int /\ r \in Int /\ 0 <= r /\ r < d /\ i = d * q + r
  BY DivMod
<1>2. \/ d = 1 /\ h = 0 /\ r = 0
      \/ d = 2 * h /\ h \in Nat \ {0}
  BY <1>1
<1>12. i \div d = q /\ i % d = r /\ d \div 2 = h
  OBVIOUS
<1> HIDE DEF q, r, h
<1>3. Bit(i, d) <=> q % 2 = 1
  BY <1>12 DEF Bit
<1>4. Bit(i, h) <=> d = 2 * h /\ r >= h
  <2>1. CASE d = 1
    BY <1>2, <2>1 DEF Bit
  <2>2. CASE d = 2 * h /\ h \in Nat \ {0}
    <3> DEFINE e == IF r >= h THEN 1 ELSE 0
    <3>1. r - h * e \in Int /\ 0 <= r - h * e /\ r - h * e < h
      BY <1>1, <2>2
    <3>2. i = h * (2 * q + e) + (r - h * e) /\ 2 * q + e \in Int
      BY <1>1, <2>2
    <3>3. i \div h = 2 * q + e
      BY <2>2, <3>1, <3>2, DivModIs
    <3>4. (2 * q + e) % 2 = e
      BY <1>1
    <3> QED
      BY <2>2, <3>3, <3>4 DEF Bit
  <2> QED
    BY <1>2, <2>1, <2>2
<1>5. d = 2 * h /\ h \in Nat \ {0} /\ r >= h => (i % h # 0 <=> r > h)
  <2>1. SUFFICES ASSUME d = 2 * h, h \in Nat \ {0}, r >= h PROVE i % h # 0 <=> r > h
    OBVIOUS
  <2>2. i = h * (2 * q + 1) + (r - h) /\ 2 * q + 1 \in Int /\ r - h \in Int /\ 0 <= r - h /\ r - h < h
    BY <1>1, <2>1
  <2>3. i % h = r - h
    <3>1. (h * (2 * q + 1) + (r - h)) % h = r - h
      BY <2>1, <2>2, DivModIs
    <3> QED
      BY <2>2, <3>1
  <2> QED
    BY <1>1, <2>1, <2>3
<1>6. (i + d) \div d = q + 1
  <2>1. i + d = d * (q + 1) + r /\ q + 1 \in Int
    BY <1>1
  <2> QED
    <3>1. (d * (q + 1) + r) \div d = q + 1
      BY <1>1, <2>1, DivModIs
    <3> QED
      BY <2>1, <3>1
<1>7. (i + h) \div d = IF 2 * r >= d THEN q + 1 ELSE q
  <2>1. CASE 2 * r >= d
    <3>1. i + h = d * (q + 1) + (r + h - d) /\ q + 1 \in Int /\ r + h - d \in Int
          /\ 0 <= r + h - d /\ r + h - d < d
      BY <1>1, <1>2, <2>1
    <3> DEFINE e == q + 1
               s == r + h - d
    <3>2. e \in Int /\ s \in Int /\ 0 <= s /\ s < d /\ i + h = d * e + s
      BY <3>1
    <3> HIDE DEF e, s
    <3>3. (d * e + s) \div d = e
      BY <3>2, DivModIs
    <3> QED
      BY <2>1, <3>2, <3>3 DEF e
  <2>2. CASE ~(2 * r >= d)
    <3>1. i + h = d * q + (r + h) /\ r + h \in Int /\ 0 <= r + h /\ r + h < d
      BY <1>1, <1>2, <2>2
    <3>2. (d * q + (r + h)) \div d = q
      BY <1>1, <3>1, DivModIs
    <3> QED
      BY <2>2, <3>1, <3>2
  <2> QED
    BY <2>1, <2>2
<1>8. q % 2 \in {0, 1}
  BY <1>1
<1>9. xrm \in {"RNU", "RNE", "RDN", "ROD"}
  BY DEF RoundingModes
<1>10. Rounded(i, xrm, d) =
         CASE xrm = "RNU" -> IF 2 * r >= d THEN q + 1 ELSE q
           [] xrm = "RNE" -> IF 2 * r > d \/ (2 * r = d /\ q % 2 = 1) THEN q + 1 ELSE q
           [] xrm = "RDN" -> q
           [] xrm = "ROD" -> IF 2 * r # 0 /\ q % 2 = 0 THEN q + 1 ELSE q
  BY <1>12 DEF Rounded
<1>11. INT_ROUNDING(i, xrm, d) =
         CASE xrm = "RNU" -> i + h
           [] xrm = "RNE" -> IF Bit(i, h) /\ (i % h # 0 \/ Bit(i, d)) THEN i + d ELSE i
           [] xrm = "RDN" -> i
           [] xrm = "ROD" -> IF r # 0 /\ ~Bit(i, d) THEN i + d ELSE i
  BY <1>12 DEF INT_ROUNDING
<1>13. INT_ROUNDING(i, xrm, d) \div d = Rounded(i, xrm, d)
  <2>1. CASE xrm = "RNU"
    BY <1>7, <1>10, <1>11, <2>1
  <2>2. CASE xrm = "RNE"
    <3>1. Bit(i, h) /\ (i % h # 0 \/ Bit(i, d)) <=> 2 * r > d \/ (2 * r = d /\ q % 2 = 1)
      BY <1>1, <1>2, <1>3, <1>4, <1>5
    <3> QED
      BY <1>6, <1>10, <1>11, <1>12, <2>2, <3>1
  <2>3. CASE xrm = "RDN"
    BY <1>10, <1>11, <1>12, <2>3
  <2>4. CASE xrm = "ROD"
    <3>1. r # 0 /\ ~Bit(i, d) <=> 2 * r # 0 /\ q % 2 = 0
      BY <1>1, <1>3, <1>8
    <3> QED
      BY <1>6, <1>10, <1>11, <1>12, <2>4, <3>1
  <2> QED
    BY <1>9, <2>1, <2>2, <2>3, <2>4
<1>14. Rounded(i, xrm, d) \in {q, q + 1} /\ (r = 0 => Rounded(i, xrm, d) = q)
  BY <1>1, <1>2, <1>9, <1>10
<1> QED
  BY <1>1, <1>12, <1>13, <1>14

LEMMA AverageRounds ==
  ASSUME NEW i \in Int, NEW xrm \in RoundingModes
  PROVE  Average(i, xrm) = Wrap(Rounded(i, xrm, 2))
<1>1. 2 \in Nat \ {0} /\ 1 \in Nat /\ 2 = 2 * 1
  OBVIOUS
<1>2. INT_ROUNDING(i, xrm, 2) \div 2 = Rounded(i, xrm, 2)
  BY <1>1, RoundsAsTheModeSays
<1> QED
  BY <1>2 DEF Average

(* The product of two words is rounded in range, but for one               *)
LEMMA VsmulRounds ==
  ASSUME NEW x \in Words, NEW y \in Words, NEW xrm \in RoundingModes
  PROVE  vsmul(x, y, xrm) =
           Wrap(Clamp(Rounded(Signed(x) * Signed(y), xrm, SignWeight), -SignWeight, SignWeight - 1))
<1> DEFINE W == SignWeight
           X == Signed(x)
           Y == Signed(y)
           i == X * Y
           n == Rounded(i, xrm, W)
           q == i \div W
           r == i % W
<1>0. W \in Nat \ {0} /\ W >= 2 /\ (\E h \in Nat : W = 2 * h) /\ Modulus = 2 * W /\ Modulus \in Nat
  BY WordFacts
<1>1. X \in Int /\ -W <= X /\ X < W /\ Y \in Int /\ -W <= Y /\ Y < W
  BY SignFacts
<1>2. x = W <=> X = -W
  BY <1>0, SignFacts
<1>3. y = W <=> Y = -W
  BY <1>0, SignFacts
<1> HIDE DEF W, X, Y
<1>4. i \in Int
  BY <1>1
<1>5. n = INT_ROUNDING(i, xrm, W) \div W /\ n \in {q, q + 1} /\ q \in Int /\ (r = 0 => n = q)
  BY <1>0, <1>4, RoundsAsTheModeSays DEF n
<1>6. q \in Int /\ r \in Int /\ 0 <= r /\ r < W /\ i = W * q + r
  BY <1>0, <1>4, DivMod
<1>7. vsmul(x, y, xrm) = IF x = y /\ x = W THEN W - 1 ELSE Wrap(n)
  BY <1>5 DEF vsmul, W, X, Y
<1>8. CASE X = -W /\ Y = -W
  <2>1. i = W * W + 0
    BY <1>0, <1>1, <1>8
  <2>2. q = W /\ r = 0
    <3>1. W \in Int /\ 0 \in Int /\ 0 < W
      BY <1>0
    <3>2. \A z \in Int : z = 0 => (W * W + z) \div W = W /\ (W * W + z) % W = z
      BY <1>0, <3>1, DivModIs
    <3> QED
      BY <2>1, <3>2
  <2>3. n = W
    BY <1>5, <2>2
  <2>4. Clamp(n, -W, W - 1) = W - 1 /\ Wrap(W - 1) = W - 1
    BY <1>0, <2>3, WrapCases DEF Clamp
  <2>5. vsmul(x, y, xrm) = W - 1
    BY <1>2, <1>3, <1>7, <1>8
  <2>6. vsmul(x, y, xrm) = Wrap(Clamp(n, -W, W - 1))
    BY <2>4, <2>5
  <2> QED
    BY <2>6 DEF W, n, i, X, Y
<1>9. CASE ~(X = -W /\ Y = -W)
  <2>1. i <= W * (W - 1) /\ -(W * (W - 1)) <= i
    <3> DEFINE AX == IF X < 0 THEN -X ELSE X
               AY == IF Y < 0 THEN -Y ELSE Y
    <3>2. ASSUME NEW a \in Nat, NEW b \in Nat, a <= W, b <= W - 1 PROVE a * b <= W * (W - 1) /\ a * b \in Nat
      BY <1>0, <3>2, ProductSign
    <3>3. CASE X = -W
      <4>1. Y > -W
        BY <1>1, <1>9, <3>3
      <4>2. CASE Y >= 0
        <5>1. W * Y <= W * (W - 1) /\ W * Y \in Nat
          BY <1>0, <1>1, <3>2, <4>2
        <5>2. i = -(W * Y)
          BY <1>0, <1>1, <3>3
        <5> QED
          BY <1>0, <5>1, <5>2
      <4>3. CASE Y < 0
        <5>1. -Y \in Nat /\ -Y <= W - 1
          BY <1>0, <1>1, <4>1, <4>3
        <5>2. W * (-Y) <= W * (W - 1) /\ W * (-Y) \in Nat
          BY <1>0, <3>2, <5>1
        <5>3. i = W * (-Y)
          BY <1>0, <1>1, <3>3
        <5> QED
          BY <1>0, <5>2, <5>3
      <4> QED
        BY <1>1, <4>2, <4>3
    <3>4. CASE X # -W
      <4>1. AX \in Nat /\ AX <= W - 1 /\ AY \in Nat /\ AY <= W
        BY <1>0, <1>1, <3>4
      <4>2. AY * AX <= W * (W - 1) /\ AY * AX \in Nat
        BY <3>2, <4>1
      <4>3. i = AY * AX \/ i = -(AY * AX)
        BY <1>1
      <4> HIDE DEF AX, AY, i
      <4> QED
        BY <1>0, <1>4, <4>2, <4>3
    <3> QED
      BY <3>3, <3>4
  <2> DEFINE B == W * (W - 1)
  <2>2. B \in Int /\ B = W * W - W
    BY <1>0
  <2>3. q <= W - 1 /\ (q = W - 1 => r = 0)
    <3>1. ASSUME q >= W PROVE FALSE
      <4>1. q \in Nat /\ W \in Nat /\ W <= q
        BY <1>0, <1>6, <3>1
      <4> HIDE DEF q
      <4>2. W * W <= W * q
        BY <4>1, ProductSign
      <4> QED
        BY <1>0, <1>6, <2>1, <2>2, <4>1, <4>2
    <3>2. ASSUME q = W - 1, r # 0 PROVE FALSE
      <4>1. W * q = B
        BY <3>2
      <4> QED
        BY <1>0, <1>6, <2>1, <2>2, <3>2, <4>1
    <3> QED
      BY <1>0, <1>6, <3>1, <3>2
  <2>4. q >= -W
    <3>1. SUFFICES ASSUME q <= -W - 1 PROVE FALSE
      BY <1>0, <1>6
    <3>2. W * q <= W * (-W - 1)
      <4>1. q \in Int /\ -q \in Nat /\ W + 1 \in Nat /\ W \in Nat /\ W + 1 <= -q
        BY <1>0, <1>6, <3>1
      <4> HIDE DEF q
      <4>2. W * (W + 1) <= W * (-q)
        BY <4>1, ProductSign
      <4>3. W * (-q) = -(W * q) /\ W * (-W - 1) = -(W * (W + 1))
        BY <4>1
      <4>4. W * q \in Int /\ W * (W + 1) \in Int
        BY <4>1
      <4> QED
        BY <4>2, <4>3, <4>4
    <3>3. W * (-W - 1) = -(W * W) - W
      BY <1>0
    <3> QED
      BY <1>0, <1>6, <2>1, <2>2, <3>2, <3>3
  <2> HIDE DEF n, q, r, i
  <2>5. n \in Int /\ -W <= n /\ n <= W - 1
    BY <1>0, <1>5, <1>6, <2>3, <2>4
  <2>6. Clamp(n, -W, W - 1) = n
    BY <1>0, <2>5 DEF Clamp
  <2>7. vsmul(x, y, xrm) = Wrap(n)
    BY <1>2, <1>3, <1>7, <1>9
  <2> QED
    BY <2>6, <2>7 DEF W, n, i, X, Y
<1> QED
  BY <1>8, <1>9

(* The weight of the bit after those that a shift drops                    *)
LEMMA Weights ==
  ASSUME NEW k \in Nat
  PROVE  LET d == 2 ^ (k % 8) IN d \in Nat \ {0} /\ (d = 1 \/ \E h \in Nat : d = 2 * h)
<1> DEFINE j == k % 8
<1>1. j \in {0, 1, 2, 3, 4, 5, 6, 7}
  OBVIOUS
<1> HIDE DEF j
<1>2. /\ 2 ^ 0 = 1 /\ 2 ^ 1 = 2 * 1 /\ 2 ^ 2 = 2 * 2 /\ 2 ^ 3 = 2 * 4
      /\ 2 ^ 4 = 2 * 8 /\ 2 ^ 5 = 2 * 16 /\ 2 ^ 6 = 2 * 32 /\ 2 ^ 7 = 2 * 64
  OBVIOUS
<1>3. CASE j \in {0, 1, 2, 3}
  <2>1. 2 ^ j \in {1, 2 * 1, 2 * 2, 2 * 4}
    BY <1>2, <1>3, Zenon
  <2> QED
    BY <2>1 DEF j
<1>4. CASE j \in {4, 5, 6, 7}
  <2>1. 2 ^ j \in {2 * 8, 2 * 16, 2 * 32, 2 * 64}
    BY <1>2, <1>4, Zenon
  <2> QED
    BY <2>1 DEF j
<1> QED
  BY <1>1, <1>3, <1>4

(* The narrowing shifts: what is kept is the clamped quotient              *)
LEMMA ClipRounds ==
  ASSUME NEW i \in Int, NEW xrm \in RoundingModes, NEW d \in Nat \ {0},
         d = 1 \/ \E h \in Nat : d = 2 * h
  PROVE  /\ vnclip(i, xrm, d) = Wrap(Clamp(Rounded(i, xrm, d), -SignWeight, SignWeight - 1))
         /\ i \in Nat => vnclipu(i, xrm, d) = Clamp(Rounded(i, xrm, d), 0, Modulus - 1)
<1> DEFINE n == Rounded(i, xrm, d)
<1>1. /\ INT_ROUNDING(i, xrm, d) \div d = n /\ n \in {i \div d, i \div d + 1}
      /\ i \div d \in Int
  BY RoundsAsTheModeSays
<1>2. vnclip(i, xrm, d) = Wrap(Clamp(n, -SignWeight, SignWeight - 1))
  BY <1>1 DEF vnclip, Clamp
<1>3. ASSUME i \in Nat PROVE vnclipu(i, xrm, d) = Clamp(n, 0, Modulus - 1)
  <2>0. i \div d \in Nat
    <3> DEFINE q == i \div d
    <3>1. q \in Int /\ i = d * q + (i % d) /\ i % d < d /\ i % d \in Int
      BY DivMod
    <3>2. q = i \div d
      OBVIOUS
    <3> HIDE DEF q
    <3>3. ASSUME q < 0 PROVE FALSE
      <4>1. d * q <= -d
        <5>1. -q \in Nat /\ 1 <= -q /\ d \in Nat /\ d <= d /\ 1 \in Nat
          BY <3>1, <3>3
        <5>2. d * 1 <= d * (-q)
          BY <5>1, ProductSign
        <5>3. d * (-q) = -(d * q) /\ d * q \in Int /\ d * 1 = d
          BY <3>1
        <5> QED
          BY <5>2, <5>3
      <4> QED
        BY <1>3, <3>1, <4>1
    <3> QED
      BY <3>1, <3>2, <3>3
  <2>1. n \in Nat
    BY <1>1, <2>0
  <2>2. Modulus \in Nat \ {0}
    BY WordFacts
  <2>3. n \div Modulus # 0 <=> n > Modulus - 1
    <3> HIDE DEF n
    <3>1. n \div Modulus \in Int /\ n = Modulus * (n \div Modulus) + (n % Modulus)
          /\ 0 <= n % Modulus /\ n % Modulus < Modulus /\ n % Modulus \in Int
      BY <2>1, <2>2, DivMod
    <3>2. ASSUME n < Modulus PROVE n \div Modulus = 0
      <4>1. 0 <= n /\ n < Modulus /\ 0 \in Int /\ n \in Int
        BY <2>1, <3>2
      <4>2. (Modulus * 0 + n) \div Modulus = 0
        BY <2>2, <4>1, DivModIs
      <4>3. Modulus * 0 + n = n
        BY <2>1, <2>2
      <4> QED
        BY <4>2, <4>3
    <3>3. ASSUME n \div Modulus = 0 PROVE n < Modulus
      BY <2>2, <3>1, <3>3
    <3> QED
      BY <2>1, <2>2, <3>2, <3>3
  <2>4. vnclipu(i, xrm, d) = IF n \div Modulus # 0 THEN Modulus - 1 ELSE n
    BY <1>1 DEF vnclipu
  <2> HIDE DEF n
  <2>5. Clamp(n, 0, Modulus - 1) = IF n > Modulus - 1 THEN Modulus - 1 ELSE n
    BY <2>1, <2>2 DEF Clamp
  <2> QED
    BY <2>3, <2>4, <2>5
<1> QED
  BY <1>2, <1>3

LEMMA RoundingAlways == ArithmeticTypeOK => RoundingExact
<1> SUFFICES ASSUME ArithmeticTypeOK PROVE RoundingExact
  OBVIOUS
<1> DEFINE x == operands.x
           y == operands.y
           weight == 2 ^ (operands.z % 8)
           wide == Signed(x) * Modulus + y
           wideUnsigned == x * Modulus + y
<1>1. x \in Words /\ y \in Words /\ operands.z \in Words
  BY DEF ArithmeticTypeOK
<1>2. /\ x \in Nat /\ y \in Nat /\ operands.z \in Nat /\ Signed(x) \in Int /\ Signed(y) \in Int
  BY <1>1, SignFacts
<1>3. weight \in Nat \ {0} /\ (weight = 1 \/ \E h \in Nat : weight = 2 * h)
  BY <1>2, Weights
<1>4. wide \in Int /\ wideUnsigned \in Int /\ wideUnsigned \in Nat
  BY <1>2, WordFacts
<1> SUFFICES ASSUME NEW xrm \in RoundingModes
             PROVE  /\ \A i \in {x + y, x - y, Signed(x) + Signed(y), Signed(x) - Signed(y)} :
                         Average(i, xrm) = Wrap(Rounded(i, xrm, 2))
                    /\ \A i \in {x, Signed(x)} :
                         ScaledShift(i, xrm, weight) = Wrap(Rounded(i, xrm, weight))
                    /\ vsmul(x, y, xrm) =
                         Wrap(Clamp(Rounded(Signed(x) * Signed(y), xrm, SignWeight),
                                    -SignWeight, SignWeight - 1))
                    /\ vnclip(wide, xrm, weight) =
                         Wrap(Clamp(Rounded(wide, xrm, weight), -SignWeight, SignWeight - 1))
                    /\ vnclipu(wideUnsigned, xrm, weight) =
                         Clamp(Rounded(wideUnsigned, xrm, weight), 0, Modulus - 1)
  BY DEF RoundingExact
<1>5. \A i \in {x + y, x - y, Signed(x) + Signed(y), Signed(x) - Signed(y)} : i \in Int
  BY <1>2
<1>6. \A i \in {x, Signed(x)} : i \in Int
  BY <1>2
<1> HIDE DEF x, y, weight, wide, wideUnsigned
<1>7. \A i \in Int : ScaledShift(i, xrm, weight) = Wrap(Rounded(i, xrm, weight))
  BY <1>3, RoundsAsTheModeSays DEF ScaledShift
<1> QED
  BY <1>1, <1>3, <1>4, <1>5, <1>6, <1>7, AverageRounds, VsmulRounds, ClipRounds

(* What the instructions share computes what it should for every radix and *)
(* all operands (arith.h, v_ext_macros.h).                                 *)
THEOREM ArithmeticIsExact == ArithmeticTypeOK => ArithmeticExact
BY ProductsAlways, SaturationAlways, RoundingAlways DEF ArithmeticExact

(***************************************************************************)
(* Reductions: values.                                                     *)
(***************************************************************************)
Terms == [of : Int, widened : 0 .. 1]

(* How often an element has to be widened *)
Times(c, i) == IF i # Scalar /\ Widening(c) /\ c.kind # "widening unsigned" THEN 1 ELSE 0

(* A value is of each member of a set exactly once, widened as it has to be *)
Holds(c, v, S) ==
  /\ v \in Seq(Terms)
  /\ \A j \in 1 .. Len(v) : v[j].of \in S /\ v[j].widened = Times(c, v[j].of)
  /\ \A j, k \in 1 .. Len(v) : v[j].of = v[k].of => j = k
  /\ \A i \in S : \E j \in 1 .. Len(v) : v[j].of = i

LEMMA HoldsNone ==
  ASSUME NEW c
  PROVE  /\ Holds(c, <<>>, {})
         /\ \A v, S : Holds(c, v, S) => (v = <<>> <=> S = {})
<1>1. Holds(c, <<>>, {})
  BY DEF Holds
<1>2. ASSUME NEW v, NEW S, Holds(c, v, S)  PROVE v = <<>> <=> S = {}
  <2>1. v \in Seq(Terms)  BY <1>2 DEF Holds
  <2>2. v = <<>> <=> Len(v) = 0  BY <2>1
  <2>3. Len(v) \in Nat  BY <2>1
  <2>4. CASE S = {}
    <3>1. Len(v) = 0
      <4>1. \A j \in 1 .. Len(v) : v[j].of \in S  BY <1>2 DEF Holds
      <4>2. 1 .. Len(v) = {}  BY <4>1, <2>4
      <4>3. ~(1 <= Len(v))  BY <4>2, <2>3
      <4>4. QED  BY <4>3, <2>3
    <3>2. QED  BY <3>1, <2>2, <2>4
  <2>5. CASE S # {}
    <3>1. PICK j \in 1 .. Len(v) : TRUE  BY <2>5, <1>2 DEF Holds
    <3>2. QED  BY <3>1, <2>2, <2>3, <2>5
  <2>6. QED  BY <2>4, <2>5
<1>3. QED  BY <1>1, <1>2

LEMMA HoldsScalar ==
  ASSUME NEW c
  PROVE  Holds(c, Term(Scalar, 0), {Scalar}) /\ Term(Scalar, 0) # <<>>
<1> DEFINE v == Term(Scalar, 0)
<1>1. v = <<[of |-> Scalar, widened |-> 0]>> /\ Scalar \in Int /\ Times(c, Scalar) = 0
  BY DEF Term, Scalar, Times
<1>2. v \in Seq(Terms) /\ Len(v) = 1 /\ v[1].of = Scalar /\ v[1].widened = 0 /\ v # <<>>
  <2>1. [of |-> Scalar, widened |-> 0] \in Terms  BY <1>1 DEF Terms
  <2> DEFINE t == [of |-> Scalar, widened |-> 0]
  <2>2. t.of = Scalar /\ t.widened = 0  OBVIOUS
  <2>3. v = <<t>>  BY <1>1
  <2> HIDE DEF t, v
  <2>4. QED  BY <2>1, <2>2, <2>3 DEF t
<1> HIDE DEF v
<1>3. QED  BY <1>1, <1>2 DEF Holds, v

LEMMA HoldsElement ==
  ASSUME NEW c, NEW i \in Nat
  PROVE  /\ Holds(c, Widened(c, Term(i, 0)), {i})
         /\ Term(i, 0) # <<>>
<1> DEFINE v == Widened(c, Term(i, 0))
<1>1. Term(i, 0) = <<[of |-> i, widened |-> 0]>> /\ i # Scalar
  BY DEF Term, Scalar
<1>2. v = <<[of |-> i, widened |-> Times(c, i)]>>
  <2>1. CASE Widening(c) /\ c.kind # "widening unsigned"
    <3>1. v = [j \in 1 .. Len(Term(i, 0)) |-> [Term(i, 0)[j] EXCEPT !.widened = @ + 1]]
      BY <2>1 DEF Widened
    <3>2. Len(Term(i, 0)) = 1 /\ Term(i, 0)[1] = [of |-> i, widened |-> 0]
      BY <1>1
    <3>3. [Term(i, 0)[1] EXCEPT !.widened = @ + 1] = [of |-> i, widened |-> 1]
      BY <3>2
    <3>4. v = [j \in 1 .. 1 |-> [of |-> i, widened |-> 1]]
      <4>1. \A j \in 1 .. 1 : j = 1  OBVIOUS
      <4>2. QED  BY <3>1, <3>2, <3>3, <4>1
    <3>5. <<[of |-> i, widened |-> 1]>> = [j \in 1 .. 1 |-> [of |-> i, widened |-> 1]]
      OBVIOUS
    <3>6. Times(c, i) = 1  BY <2>1, <1>1 DEF Times
    <3>7. QED  BY <3>4, <3>5, <3>6
  <2>2. CASE ~(Widening(c) /\ c.kind # "widening unsigned")
    BY <2>2, <1>1 DEF Widened, Times
  <2>3. QED  BY <2>1, <2>2
<1>3. Times(c, i) \in 0 .. 1
  BY DEF Times
<1>4. Holds(c, v, {i})
  <2> HIDE DEF v
  <2>1. v \in Seq(Terms) /\ Len(v) = 1 /\ v[1].of = i /\ v[1].widened = Times(c, i)
    BY <1>2, <1>3 DEF Terms
  <2>2. QED  BY <2>1 DEF Holds
<1>5. QED  BY <1>1, <1>4

LEMMA HoldsBoth ==
  ASSUME NEW c, NEW x, NEW y, NEW A, NEW B, Holds(c, x, A), Holds(c, y, B), A \cap B = {}
  PROVE  Holds(c, x \o y, A \cup B)
<1> DEFINE v == x \o y
<1>1. /\ x \in Seq(Terms) /\ y \in Seq(Terms) /\ v \in Seq(Terms)
      /\ Len(x) \in Nat /\ Len(y) \in Nat /\ Len(v) = Len(x) + Len(y)
      /\ \A j \in 1 .. Len(v) : v[j] = IF j <= Len(x) THEN x[j] ELSE y[j - Len(x)]
  BY DEF Holds
<1> HIDE DEF v
<1>2. ASSUME NEW j \in 1 .. Len(v)
      PROVE  \/ j \in 1 .. Len(x) /\ v[j] = x[j]
             \/ j - Len(x) \in 1 .. Len(y) /\ v[j] = y[j - Len(x)] /\ ~(j <= Len(x))
  BY <1>1
<1>3. \A j \in 1 .. Len(v) : v[j].of \in A \cup B /\ v[j].widened = Times(c, v[j].of)
  <2> SUFFICES ASSUME NEW j \in 1 .. Len(v)
               PROVE  v[j].of \in A \cup B /\ v[j].widened = Times(c, v[j].of)
    OBVIOUS
  <2>1. CASE j \in 1 .. Len(x) /\ v[j] = x[j]
    BY <2>1, Zenon DEF Holds
  <2>2. CASE j - Len(x) \in 1 .. Len(y) /\ v[j] = y[j - Len(x)]
    BY <2>2, Zenon DEF Holds
  <2>3. QED  BY <2>1, <2>2, <1>2
<1>4. ASSUME NEW j \in 1 .. Len(v), NEW k \in 1 .. Len(v), v[j].of = v[k].of
      PROVE  j = k
  <2>1. CASE j \in 1 .. Len(x) /\ v[j] = x[j]
    <3>1. v[j].of \in A  BY <2>1 DEF Holds
    <3>2. k \in 1 .. Len(x) /\ v[k] = x[k]
      <4>1. CASE k - Len(x) \in 1 .. Len(y) /\ v[k] = y[k - Len(x)]
        <5>1. v[k].of \in B  BY <4>1 DEF Holds
        <5>2. QED  BY <5>1, <3>1, <1>4
      <4>2. QED  BY <4>1, <1>2
    <3>3. QED  BY <2>1, <3>2, <1>4 DEF Holds
  <2>2. CASE j - Len(x) \in 1 .. Len(y) /\ v[j] = y[j - Len(x)] /\ ~(j <= Len(x))
    <3>1. v[j].of \in B  BY <2>2 DEF Holds
    <3>2. k - Len(x) \in 1 .. Len(y) /\ v[k] = y[k - Len(x)]
      <4>1. CASE k \in 1 .. Len(x) /\ v[k] = x[k]
        <5>1. v[k].of \in A  BY <4>1 DEF Holds
        <5>2. QED  BY <5>1, <3>1, <1>4
      <4>2. QED  BY <4>1, <1>2
    <3>3. j - Len(x) = k - Len(x)  BY <2>2, <3>2, <1>4 DEF Holds
    <3>4. QED  BY <3>3, <1>1
  <2>3. QED  BY <2>1, <2>2, <1>2
<1>5. ASSUME NEW i \in A \cup B  PROVE \E j \in 1 .. Len(v) : v[j].of = i
  <2>1. CASE i \in A
    <3>1. PICK j \in 1 .. Len(x) : x[j].of = i  BY <2>1 DEF Holds
    <3>2. j \in 1 .. Len(v) /\ v[j] = x[j]  BY <1>1
    <3>3. QED  BY <3>1, <3>2
  <2>2. CASE i \in B
    <3>1. PICK j \in 1 .. Len(y) : y[j].of = i  BY <2>2 DEF Holds
    <3>2. /\ j + Len(x) \in 1 .. Len(v) /\ ~(j + Len(x) <= Len(x))
          /\ (j + Len(x)) - Len(x) = j
      BY <1>1
    <3>3. v[j + Len(x)] = y[j]  BY <3>2, <1>1
    <3>4. QED  BY <3>1, <3>2, <3>3
  <2>3. QED  BY <2>1, <2>2, <1>5
<1>6. QED  BY <1>1, <1>3, <1>4, <1>5 DEF Holds, v

(* What the three loops take in *)
TakenRight(c, loop, y, S) ==
  IF loop = "elements" THEN (y = <<>> /\ S = {}) \/ (\E i \in Nat : S = {i} /\ y = Term(i, 0))
  ELSE Holds(c, y, S)

LEMMA TakenHolds ==
  ASSUME NEW c, NEW loop \in {"elements", "accumulators", "lanes"}, NEW x, NEW y, NEW A, NEW B,
         Holds(c, x, A), TakenRight(c, loop, y, B), A \cap B = {}, loop = "lanes" => A # {}
  PROVE  Holds(c, Taken(c, loop, x, y), A \cup B)
<1>1. CASE loop = "elements"
  <2>1. Taken(c, loop, x, y) = IF y = <<>> THEN x ELSE Added(c, x, y)
    BY <1>1 DEF Taken
  <2>2. CASE y = <<>> /\ B = {}
    BY <2>1, <2>2
  <2>3. ASSUME NEW i \in Nat, B = {i}, y = Term(i, 0)
        PROVE  Holds(c, Taken(c, loop, x, y), A \cup B)
    <3>1. Taken(c, loop, x, y) = Added(c, x, y)
      BY <2>1, <2>3, HoldsElement
    <3>2. Holds(c, Widened(c, y), B)
      BY <2>3, HoldsElement
    <3>3. CASE x = <<>>
      <4>1. A = {}  BY <3>3, HoldsNone
      <4>2. Added(c, x, y) = Widened(c, y)  BY <3>3 DEF Added, InitPart
      <4>3. A \cup B = B  BY <4>1
      <4>4. QED  BY <4>2, <4>3, <3>1, <3>2
    <3>4. CASE x # <<>>
      <4>1. Added(c, x, y) = x \o Widened(c, y)  BY <3>4 DEF Added, Operation
      <4>2. QED  BY <4>1, <3>1, <3>2, HoldsBoth
    <3>5. QED  BY <3>3, <3>4
  <2>4. QED  BY <1>1, <2>2, <2>3 DEF TakenRight
<1>2. CASE loop # "elements"
  <2>1. Holds(c, y, B)  BY <1>2 DEF TakenRight
  <2>2. CASE x = <<>>
    <3>1. A = {}  BY <2>2, HoldsNone
    <3>2. Taken(c, loop, x, y) = y
      BY <2>2, <3>1, <1>2 DEF Taken, Join
    <3>3. A \cup B = B  BY <3>1
    <3>4. QED  BY <3>2, <3>3, <2>1
  <2>3. CASE x # <<>> /\ y = <<>>
    <3>1. B = {}  BY <2>1, <2>3, HoldsNone
    <3>2. Taken(c, loop, x, y) = x
      BY <2>3, <1>2 DEF Taken, Join, TakenIn
    <3>3. A \cup B = A  BY <3>1
    <3>4. QED  BY <3>2, <3>3
  <2>4. CASE x # <<>> /\ y # <<>>
    <3>1. Taken(c, loop, x, y) = x \o y
      BY <2>4, <1>2 DEF Taken, Join, TakenIn, Operation
    <3>2. QED  BY <3>1, <2>1, HoldsBoth
  <2>5. QED  BY <2>2, <2>3, <2>4
<1>3. QED  BY <1>1, <1>2

(* The sums of a loop                                                      *)
Summing(f, c, loop, first, n, value) ==
  f = [i \in 0 .. n |-> IF i = 0 THEN first ELSE Taken(c, loop, f[i - 1], value[i])]

(* They exist: each extends the ones before.                               *)
LEMMA SummingExists ==
  ASSUME NEW c, NEW loop, NEW first, NEW value, NEW n \in Nat
  PROVE  \E f : Summing(f, c, loop, first, n, value)
  <1> DEFINE Next1(x, k) == Taken(c, loop, x, value[k])
             Until(f, m) == f = [k \in 0 .. m |-> IF k = 0 THEN first ELSE Next1(f[k - 1], k)]
             T == {m \in Nat : \E f : Until(f, m)}
  <1>1. 0 \in T
    <2> DEFINE f == [k \in 0 .. 0 |-> first]
    <2>1. Until(f, 0)  OBVIOUS
    <2>2. QED  BY <2>1
  <1>2. ASSUME NEW m \in Nat, m \in T PROVE m + 1 \in T
    <2>1. PICK f : Until(f, m)  BY <1>2
    <2> HIDE DEF Next1
    <2> DEFINE last == Next1(f[m], m + 1)
               g == [k \in 0 .. m + 1 |-> IF k = m + 1 THEN last ELSE f[k]]
    <2>2. ASSUME NEW k \in 0 .. m + 1
          PROVE  g[k] = IF k = 0 THEN first ELSE Next1(g[k - 1], k)
      <3>1. CASE k = m + 1
        <4>1. k # 0 /\ k - 1 = m /\ m \in 0 .. m + 1 /\ m # m + 1  BY <3>1
        <4>2. g[k - 1] = f[m] /\ g[k] = last  BY <4>1, <3>1
        <4>3. QED  BY <3>1, <4>1, <4>2
      <3>2. CASE k # m + 1
        <4>1. k \in 0 .. m  BY <3>2
        <4>2. f[k] = IF k = 0 THEN first ELSE Next1(f[k - 1], k)  BY <2>1, <4>1
        <4>3. g[k] = f[k]  BY <3>2
        <4>4. k # 0 => g[k - 1] = f[k - 1]  BY <4>1
        <4>5. QED  BY <4>2, <4>3, <4>4
      <3>3. QED  BY <3>1, <3>2
    <2>3. Until(g, m + 1)
      <3> HIDE DEF last
      <3>1. g = [k \in 0 .. m + 1 |-> g[k]]  OBVIOUS
      <3> HIDE DEF g
      <3>2. QED  BY <2>2, <3>1
    <2>4. \E h : Until(h, m + 1)
      <3> HIDE DEF g, Until
      <3>1. QED  BY <2>3
    <2>5. QED  BY <2>4
  <1>3. Nat \subseteq T
    <2> HIDE DEF T
    <2>1. QED  BY <1>1, <1>2, SetInduction
  <1>4. n \in T  BY <1>3
  <1>5. \A f : Until(f, n) <=> Summing(f, c, loop, first, n, value)
    BY Zenon DEF Summing
  <1>6. QED
    <2> HIDE DEF Until
    <2>1. QED  BY <1>4, <1>5

(* InLine is the last of them.                                             *)
LEMMA InLineIs ==
  ASSUME NEW c, NEW loop, NEW first, NEW value, NEW n \in Nat
  PROVE  \E f : Summing(f, c, loop, first, n, value) /\ InLine(c, loop, first, n, value) = f[n]
  <1> DEFINE Is(f) == Summing(f, c, loop, first, n, value)
             g == CHOOSE f : Is(f)
  <1>1. \E f : Is(f)  BY SummingExists
  <1>2. Is(g)
    <2> HIDE DEF Is
    <2>1. QED  BY <1>1, Zenon
  <1>3. InLine(c, loop, first, n, value) = g[n]  BY DEF InLine, Summing
  <1> HIDE DEF g
  <1>4. QED  BY <1>2, <1>3

(* A loop keeps what each of its steps keeps: pairs of a step and a sum, a *)
(* set in place of a predicate.                                            *)
LEMMA InLineKeeps ==
  ASSUME NEW c, NEW loop, NEW first, NEW value, NEW n \in Nat, NEW K, <<0, first>> \in K,
         \A i \in 1 .. n : \A x : <<i - 1, x>> \in K => <<i, Taken(c, loop, x, value[i])>> \in K
  PROVE  <<n, InLine(c, loop, first, n, value)>> \in K
  <1>1. PICK f : Summing(f, c, loop, first, n, value) /\ InLine(c, loop, first, n, value) = f[n]
    BY InLineIs
  <1> DEFINE T == {m \in Nat : m <= n => <<m, f[m]>> \in K}
  <1>2. \A m \in 0 .. n : f[m] = IF m = 0 THEN first ELSE Taken(c, loop, f[m - 1], value[m])
    BY <1>1 DEF Summing
  <1>3. 0 \in T  BY <1>2
  <1>4. ASSUME NEW m \in Nat, m \in T  PROVE m + 1 \in T
    <2>1. CASE m + 1 <= n
      <3>1. <<m, f[m]>> \in K /\ m + 1 \in 1 .. n /\ (m + 1) - 1 = m  BY <1>4, <2>1
      <3>2. f[m + 1] = Taken(c, loop, f[m], value[m + 1])  BY <1>2, <3>1
      <3>3. <<m + 1, f[m + 1]>> \in K  BY <3>1, <3>2
      <3>4. QED  BY <3>3
    <2>2. CASE ~(m + 1 <= n)  BY <2>2
    <2>3. QED  BY <2>1, <2>2
  <1>5. Nat \subseteq T
    <2> HIDE DEF T
    <2>1. QED  BY <1>3, <1>4, SetInduction
  <1>6. QED  BY <1>1, <1>5

(* What a loop takes in step by step is there exactly once in the end: X   *)
(* is what is to be taken in, `at` says by which step.                     *)
LEMMA InLineHolds ==
  ASSUME NEW c, NEW loop \in {"elements", "accumulators", "lanes"}, NEW first, NEW value, NEW n \in Nat,
         NEW X, NEW at \in [X -> 0 .. n],
         Holds(c, first, {x \in X : at[x] = 0}),
         loop = "lanes" => \E x \in X : at[x] = 0,
         \A i \in 1 .. n : TakenRight(c, loop, value[i], {x \in X : at[x] = i})
  PROVE  Holds(c, InLine(c, loop, first, n, value), X)
  <1> DEFINE Until(i) == {x \in X : at[x] <= i}
             K == {p \in (0 .. n) \X Seq(Terms) : Holds(c, p[2], Until(p[1]))}
  <1>1. <<0, first>> \in K
    <2>1. Until(0) = {x \in X : at[x] = 0}  OBVIOUS
    <2>2. Holds(c, first, Until(0)) /\ first \in Seq(Terms)  BY <2>1 DEF Holds
    <2> HIDE DEF Until
    <2>3. QED  BY <2>2
  <1>2. ASSUME NEW i \in 1 .. n, NEW v, <<i - 1, v>> \in K
        PROVE  <<i, Taken(c, loop, v, value[i])>> \in K
    <2> DEFINE A == Until(i - 1)
               B == {x \in X : at[x] = i}
               w == Taken(c, loop, v, value[i])
    <2> SUFFICES <<i, w>> \in K  OBVIOUS
    <2>1. Holds(c, v, A)  BY <1>2
    <2>2. A \cap B = {} /\ A \cup B = Until(i)  OBVIOUS
    <2>3. loop = "lanes" => A # {}  OBVIOUS
    <2>4. TakenRight(c, loop, value[i], B)  OBVIOUS
    <2>5. Holds(c, w, A \cup B)
      <3> HIDE DEF A, B
      <3>1. QED  BY <2>1, <2>2, <2>3, <2>4, TakenHolds
    <2>6. Holds(c, w, Until(i)) /\ w \in Seq(Terms) /\ i \in 0 .. n
      BY <2>2, <2>5 DEF Holds
    <2> HIDE DEF Until, w
    <2>7. QED  BY <2>6
  <1>3. <<n, InLine(c, loop, first, n, value)>> \in K
    <2> HIDE DEF K
    <2>1. QED  BY <1>1, <1>2, InLineKeeps
  <1>4. Until(n) = X  OBVIOUS
  <1>5. Holds(c, InLine(c, loop, first, n, value), Until(n))
    <2> HIDE DEF Until
    <2>1. QED  BY <1>3
  <1>6. QED  BY <1>4, <1>5

(* The values of the branches of a tree                                    *)
Branching(f, c, n, leaf) ==
  f = [range \in Ranges(n) |->
         IF range[1] = range[2] THEN leaf[range[1]]
         ELSE Join(c, f[<<range[1], Middle(range)>>], f[<<Middle(range) + 1, range[2]>>])]

(* The two halves of a range                                               *)
LEMMA RangeHalves ==
  ASSUME NEW n \in Nat, NEW range \in Ranges(n)
  PROVE  /\ range[1] \in 0 .. n - 1 /\ range[2] \in 0 .. n - 1 /\ range[1] <= range[2]
         /\ range = <<range[1], range[2]>>
         /\ range[1] # range[2] =>
              /\ Middle(range) \in range[1] .. range[2] - 1
              /\ <<range[1], Middle(range)>> \in Ranges(n)
              /\ <<Middle(range) + 1, range[2]>> \in Ranges(n)
              /\ Middle(range) - range[1] < range[2] - range[1]
              /\ range[2] - (Middle(range) + 1) < range[2] - range[1]
  <1>1. /\ range[1] \in 0 .. n - 1 /\ range[2] \in 0 .. n - 1 /\ range[1] <= range[2]
        /\ range = <<range[1], range[2]>>
    BY DEF Ranges
  <1>2. SUFFICES ASSUME range[1] # range[2]
                 PROVE  /\ Middle(range) \in range[1] .. range[2] - 1
                        /\ <<range[1], Middle(range)>> \in Ranges(n)
                        /\ <<Middle(range) + 1, range[2]>> \in Ranges(n)
    BY <1>1
  <1> DEFINE a == range[1]
             b == range[2]
             m == Middle(range)
  <1>3. a \in Int /\ b \in Int /\ a < b /\ 0 <= a /\ b <= n - 1
    BY <1>1, <1>2
  <1>4. m = a + ((b - a) \div 2)  BY DEF Middle
  <1> HIDE DEF a, b, m
  <1>5. m \in Int /\ a <= m /\ m < b  BY <1>3, <1>4
  <1>6. m \in a .. b - 1 /\ <<a, m>> \in Ranges(n) /\ <<m + 1, b>> \in Ranges(n)
    BY <1>3, <1>5 DEF Ranges
  <1>7. QED  BY <1>6 DEF a, b, m

(* They exist: those of one length are made of shorter ones.               *)
LEMMA BranchingExists ==
  ASSUME NEW c, NEW n \in Nat, NEW leaf
  PROVE  \E f : Branching(f, c, n, leaf)
  <1> DEFINE Made(f, r) == IF r[1] = r[2] THEN leaf[r[1]]
                           ELSE Join(c, f[<<r[1], Middle(r)>>], f[<<Middle(r) + 1, r[2]>>])
             Until(f, m) == \A r \in Ranges(n) : r[2] - r[1] < m => f[r] = Made(f, r)
             T == {m \in Nat : \E f : Until(f, m)}
  <1>1. 0 \in T
    <2>1. \A f : Until(f, 0)  BY RangeHalves
    <2>2. QED  BY <2>1
  <1>2. ASSUME NEW m \in Nat, m \in T  PROVE m + 1 \in T
    <2>1. PICK f : Until(f, m)  BY <1>2
    <2> DEFINE g == [r \in Ranges(n) |-> IF r[2] - r[1] < m THEN f[r] ELSE Made(f, r)]
    <2>2. ASSUME NEW r \in Ranges(n), r[2] - r[1] < m + 1
          PROVE  Made(g, r) = Made(f, r)
      <3>1. CASE r[1] = r[2]  BY <3>1
      <3>2. CASE r[1] # r[2]
        <4> DEFINE p == <<r[1], Middle(r)>>
                   q == <<Middle(r) + 1, r[2]>>
        <4>1. /\ p \in Ranges(n) /\ q \in Ranges(n)
              /\ p[2] - p[1] < m /\ q[2] - q[1] < m
          BY <3>2, <2>2, RangeHalves
        <4>2. g[p] = f[p] /\ g[q] = f[q]
          <5> HIDE DEF p, q, Made
          <5>1. QED  BY <4>1
        <4>3. Made(g, r) = Join(c, g[p], g[q]) /\ Made(f, r) = Join(c, f[p], f[q])
          BY <3>2
        <4>4. QED  BY <4>2, <4>3
      <3>3. QED  BY <3>1, <3>2
    <2>3. Until(g, m + 1)
      <3> SUFFICES ASSUME NEW r \in Ranges(n), r[2] - r[1] < m + 1
                   PROVE  g[r] = Made(g, r)
        OBVIOUS
      <3>1. Made(g, r) = Made(f, r)  BY <2>2
      <3>2. r[2] - r[1] < m => f[r] = Made(f, r)  BY <2>1
      <3> HIDE DEF Made
      <3>3. g[r] = IF r[2] - r[1] < m THEN f[r] ELSE Made(f, r)  OBVIOUS
      <3> HIDE DEF g
      <3>4. QED  BY <3>1, <3>2, <3>3
    <2>4. \E h : Until(h, m + 1)
      <3> HIDE DEF g, Until
      <3>1. QED  BY <2>3
    <2>5. QED  BY <2>4
  <1>3. Nat \subseteq T
    <2> HIDE DEF T
    <2>1. QED  BY <1>1, <1>2, SetInduction
  <1>4. PICK f : Until(f, n)
    BY <1>3
  <1> DEFINE g == [r \in Ranges(n) |-> Made(f, r)]
  <1>5. \A r \in Ranges(n) : f[r] = Made(f, r)
    <2>1. ASSUME NEW r \in Ranges(n)  PROVE r[2] - r[1] < n
      <3>1. r[1] \in 0 .. n - 1 /\ r[2] \in 0 .. n - 1  BY RangeHalves
      <3>2. QED  BY <3>1
    <2> HIDE DEF Made
    <2>2. QED  BY <1>4, <2>1
  <1>6. \A r \in Ranges(n) : Made(g, r) = Made(f, r)
    <2> SUFFICES ASSUME NEW r \in Ranges(n)  PROVE Made(g, r) = Made(f, r)
      OBVIOUS
    <2>1. CASE r[1] = r[2]  BY <2>1
    <2>2. CASE r[1] # r[2]
      <3> DEFINE p == <<r[1], Middle(r)>>
                 q == <<Middle(r) + 1, r[2]>>
      <3>1. p \in Ranges(n) /\ q \in Ranges(n)  BY <2>2, RangeHalves
      <3>2. g[p] = f[p] /\ g[q] = f[q]
        <4> HIDE DEF p, q, Made
        <4>1. QED  BY <3>1, <1>5
      <3>3. Made(g, r) = Join(c, g[p], g[q]) /\ Made(f, r) = Join(c, f[p], f[q])
        BY <2>2
      <3>4. QED  BY <3>2, <3>3
    <2>3. QED  BY <2>1, <2>2
  <1>7. g = [r \in Ranges(n) |-> Made(g, r)]
    <2> DEFINE h == [r \in Ranges(n) |-> Made(g, r)]
    <2>1. \A r \in Ranges(n) : h[r] = g[r]
      BY <1>6
    <2>2. DOMAIN h = Ranges(n) /\ DOMAIN g = Ranges(n)  OBVIOUS
    <2>3. h = [r \in Ranges(n) |-> h[r]] /\ g = [r \in Ranges(n) |-> g[r]]  OBVIOUS
    <2> HIDE DEF h, g
    <2>4. h = g  BY <2>1, <2>3
    <2>5. QED  BY <2>4 DEF h
  <1>8. Branching(g, c, n, leaf)
    <2> HIDE DEF g
    <2>1. QED  BY <1>7 DEF Branching
  <1>9. QED
    <2> HIDE DEF g
    <2>1. QED  BY <1>8

LEMMA TreeIs ==
  ASSUME NEW c, NEW n \in Nat, NEW leaf
  PROVE  \E f : Branching(f, c, n, leaf) /\ Tree(c, n, leaf) = f[<<0, n - 1>>]
  <1> DEFINE Is(f) == Branching(f, c, n, leaf)
             g == CHOOSE f : Is(f)
  <1>1. \E f : Is(f)  BY BranchingExists
  <1>2. Is(g)
    <2> HIDE DEF Is
    <2>1. QED  BY <1>1, Zenon
  <1>3. Tree(c, n, leaf) = g[<<0, n - 1>>]  BY DEF Tree, Branching
  <1> HIDE DEF g
  <1>4. QED  BY <1>2, <1>3

(* A tree has each leaf exactly once.                                      *)
LEMMA TreeHolds ==
  ASSUME NEW c, NEW n \in Nat \ {0}, NEW leaf, NEW X, NEW at \in [X -> 0 .. n - 1],
         \A i \in 0 .. n - 1 : Holds(c, leaf[i], {x \in X : at[x] = i})
  PROVE  Holds(c, Tree(c, n, leaf), X)
  <1>1. PICK f : Branching(f, c, n, leaf) /\ Tree(c, n, leaf) = f[<<0, n - 1>>]
    BY TreeIs
  <1> DEFINE Within(a, b) == {x \in X : a <= at[x] /\ at[x] <= b}
             Right(r) == Holds(c, f[r], Within(r[1], r[2]))
             T == {m \in Nat : \A r \in Ranges(n) : r[2] - r[1] < m => Right(r)}
  <1>2. 0 \in T
    <2>1. ASSUME NEW r \in Ranges(n)  PROVE ~(r[2] - r[1] < 0)
      <3>1. r[1] \in 0 .. n - 1 /\ r[2] \in 0 .. n - 1 /\ r[1] <= r[2]  BY RangeHalves
      <3>2. QED  BY <3>1
    <2> HIDE DEF Right
    <2>2. QED  BY <2>1
  <1>3. ASSUME NEW m \in Nat, m \in T  PROVE m + 1 \in T
    <2> SUFFICES ASSUME NEW r \in Ranges(n), r[2] - r[1] < m + 1  PROVE Right(r)
      OBVIOUS
    <2>1. CASE r[1] = r[2]
      <3>1. f[r] = leaf[r[1]]  BY <1>1, <2>1 DEF Branching
      <3>2. r[1] \in 0 .. n - 1  BY RangeHalves
      <3>3. Within(r[1], r[2]) = {x \in X : at[x] = r[1]}
        BY <2>1, <3>2
      <3> HIDE DEF Within
      <3>4. QED  BY <3>1, <3>2, <3>3
    <2>2. CASE r[1] # r[2]
      <3> DEFINE p == <<r[1], Middle(r)>>
                 q == <<Middle(r) + 1, r[2]>>
                 A == Within(r[1], Middle(r))
                 B == Within(Middle(r) + 1, r[2])
      <3>1. /\ p \in Ranges(n) /\ q \in Ranges(n)
            /\ p[2] - p[1] < m /\ q[2] - q[1] < m
            /\ Middle(r) \in r[1] .. r[2] - 1
            /\ r[1] \in Nat /\ r[2] \in Nat
        BY <2>2, RangeHalves
      <3>2. Right(p) /\ Right(q)
        <4> HIDE DEF p, q, Right
        <4>1. QED  BY <3>1, <1>3
      <3>3. Holds(c, f[p], A) /\ Holds(c, f[q], B)
        BY <3>2
      <3>4. f[r] = Join(c, f[p], f[q])
        BY <1>1, <2>2, Zenon DEF Branching
      <3>5. A \cap B = {} /\ A \cup B = Within(r[1], r[2])
        <4>1. \A x \in X : at[x] \in Nat  OBVIOUS
        <4>2. QED  BY <3>1, <4>1
      <3> HIDE DEF A, B, p, q, Within
      <3>6. Holds(c, Join(c, f[p], f[q]), A \cup B)
        <4>1. Join(c, f[p], f[q]) = Taken(c, "accumulators", f[p], f[q])
          BY DEF Taken
        <4>2. TakenRight(c, "accumulators", f[q], B)
          BY <3>3 DEF TakenRight
        <4> DEFINE loop == "accumulators"
        <4>3. loop \in {"elements", "accumulators", "lanes"} /\ loop # "lanes"  OBVIOUS
        <4> HIDE DEF loop
        <4>4. Holds(c, Taken(c, loop, f[p], f[q]), A \cup B)
          BY <4>2, <4>3, <3>3, <3>5, TakenHolds DEF loop
        <4>5. QED  BY <4>1, <4>4 DEF loop
      <3>7. QED  BY <3>4, <3>5, <3>6
    <2>3. QED  BY <2>1, <2>2
  <1>4. Nat \subseteq T
    <2> HIDE DEF T
    <2>1. QED  BY <1>2, <1>3, SetInduction
  <1>5. Right(<<0, n - 1>>)
    <2>1. <<0, n - 1>> \in Ranges(n)  BY DEF Ranges
    <2> HIDE DEF Right
    <2>2. QED  BY <2>1, <1>4
  <1>6. Within(0, n - 1) = X  OBVIOUS
  <1>7. QED  BY <1>1, <1>5, <1>6

(***************************************************************************)
(* Where the terms are.                                                    *)
(***************************************************************************)
Items(c) == c.active \cup {Scalar}
Place(c, x) == IF x = Scalar THEN FirstCell ELSE Cell(c, x)

LEMMA CallTypes ==
  ASSUME NEW c \in LegalCalls
  PROVE  /\ c.lanes \in Nat \ {0} /\ c.accums \in Nat \ {0} /\ c.parts \in {1, 2, 4, 8}
         /\ Accumulators(c) \in Nat \ {0}
         /\ ResultParts(c) \in {1, 2, 4, 8}
         /\ Widening(c) => c.parts = 2 * ResultParts(c)
         /\ ~Widening(c) => c.parts = ResultParts(c)
         /\ c.vl \in 1 .. MaxVl /\ c.active \subseteq 0 .. c.vl - 1
<1>1. PICK vl \in 1 .. MaxVl :
        c \in [kind : Kinds, lanes : LaneNumbers, accums : AccumNumbers, parts : PartNumbers,
               vl : {vl}, masking : BOOLEAN, active : SUBSET (0 .. vl - 1),
               treeIntra : BOOLEAN, treeInter : BOOLEAN]
  BY DEF LegalCalls, Calls
<1>2. /\ c.lanes \in Nat \ {0} /\ c.accums \in Nat \ {0} /\ c.parts \in {1, 2, 4, 8}
      /\ c.vl \in 1 .. MaxVl /\ c.active \subseteq 0 .. c.vl - 1
  BY <1>1, ReductionAssumption
<1>3. Widening(c) => c.parts > 1
  BY DEF LegalCalls, Legal, Widening
<1>4. QED  BY <1>2, <1>3 DEF Accumulators, ResultParts

LEMMA PlaceTypes ==
  ASSUME NEW c \in LegalCalls, NEW x \in Items(c)
  PROVE  /\ Place(c, x) = [lane |-> Place(c, x).lane, accum |-> Place(c, x).accum,
                           part |-> Place(c, x).part]
         /\ Place(c, x).lane \in 0 .. c.lanes - 1
         /\ Place(c, x).accum \in 0 .. Accumulators(c) - 1
         /\ Place(c, x).part \in 0 .. ResultParts(c) - 1
<1>1. CASE x = Scalar
  <2>1. Place(c, x) = [lane |-> 0, accum |-> 0, part |-> 0]  BY <1>1 DEF Place, FirstCell
  <2>2. QED  BY <2>1, CallTypes
<1>2. CASE x # Scalar
  <2>1. x \in Nat  BY <1>2, CallTypes DEF Items
  <2>2. Place(c, x) = Cell(c, x)  BY <1>2 DEF Place
  <2> DEFINE n == c.parts * c.lanes
  <2>3. n \in Nat \ {0}
    <3>1. c.parts \in {1, 2, 4, 8} /\ c.lanes \in Nat \ {0}  BY CallTypes
    <3>2. QED  BY <3>1
  <2> HIDE DEF n
  <2>4. x \div c.parts \in Nat /\ x \div n \in Nat /\ x % c.parts \in 0 .. c.parts - 1
    <3> DEFINE parts == c.parts
    <3>1. parts \in Nat \ {0}  BY CallTypes
    <3>2. x \div n \in Nat  BY <2>1, <2>3, Quotients
    <3> HIDE DEF parts
    <3>3. x \div parts \in Nat /\ x % parts \in Nat /\ x % parts < parts
      BY <2>1, <3>1, Quotients
    <3>4. x % parts \in 0 .. parts - 1  BY <3>1, <3>3
    <3>5. QED  BY <3>2, <3>3, <3>4 DEF parts
  <2>5. /\ (x \div c.parts) % c.lanes \in 0 .. c.lanes - 1
        /\ (x \div n) % Accumulators(c) \in 0 .. Accumulators(c) - 1
    <3>1. \A a \in Nat, m \in Nat \ {0} : a % m \in 0 .. m - 1
      <4> SUFFICES ASSUME NEW a \in Nat, NEW m \in Nat \ {0}  PROVE a % m \in 0 .. m - 1
        OBVIOUS
      <4>1. a % m \in Nat /\ a % m < m  BY Quotients
      <4>2. QED  BY <4>1
    <3>2. c.lanes \in Nat \ {0} /\ Accumulators(c) \in Nat \ {0}  BY CallTypes
    <3>3. QED  BY <2>4, <3>1, <3>2
  <2>6. (IF Widening(c) THEN (x % c.parts) \div 2 ELSE x % c.parts) \in 0 .. ResultParts(c) - 1
    <3> DEFINE m == x % c.parts
    <3>1. m \in 0 .. c.parts - 1  BY <2>4
    <3> HIDE DEF m
    <3>2. ASSUME Widening(c)  PROVE m \div 2 \in 0 .. ResultParts(c) - 1
      <4>1. c.parts = 2 * ResultParts(c) /\ ResultParts(c) \in Nat  BY <3>2, CallTypes
      <4>2. QED  BY <4>1, <3>1
    <3>3. QED  BY <3>1, <3>2, CallTypes DEF m
  <2>7. QED  BY <2>2, <2>5, <2>6 DEF Cell, n
<1>3. QED  BY <1>1, <1>2

(* The scalar, if it is there, is what a loop over the elements begins     *)
(* with; a step deals at most one element.                                 *)
LEMMA DealtHolds ==
  ASSUME NEW c \in LegalCalls, NEW elements \in SUBSET c.active, NEW scalar \in SUBSET {Scalar}
  PROVE  Holds(c, InLine(c, "elements", IF scalar # {} THEN Term(Scalar, 0) ELSE <<>>, c.vl,
                         Dealt(c, elements)), elements \cup scalar)
<1> DEFINE loop == "elements"
           X == elements \cup scalar
           at == [x \in X |-> x + 1]
           first == IF scalar # {} THEN Term(Scalar, 0) ELSE <<>>
           value == Dealt(c, elements)
           n == c.vl
<1>1. n \in Nat /\ \A x \in X : x \in Int /\ x + 1 \in 0 .. n
  <2>1. n \in Nat /\ c.active \subseteq 0 .. n - 1  BY CallTypes
  <2>2. ASSUME NEW x \in elements  PROVE x \in 0 .. n - 1  BY <2>1
  <2>3. ASSUME NEW x \in scalar  PROVE x = -1  BY DEF Scalar
  <2> HIDE DEF n
  <2>4. ASSUME NEW x \in X  PROVE x \in Int /\ x + 1 \in 0 .. n
    <3>1. CASE x \in elements
      <4>1. x \in 0 .. n - 1  BY <3>1, <2>2
      <4>2. QED  BY <4>1, <2>1
    <3>2. CASE x \in scalar
      <4>1. x = -1  BY <3>2, <2>3
      <4>2. QED  BY <4>1, <2>1
    <3>3. QED  BY <3>1, <3>2
  <2>5. QED  BY <2>1, <2>4
<1>2. at \in [X -> 0 .. n]
  BY <1>1
<1>3. {x \in X : at[x] = 0} = scalar
  <2>1. \A x \in X : at[x] = 0 <=> x = Scalar  BY <1>1 DEF Scalar
  <2>2. Scalar \notin elements  BY CallTypes DEF Scalar
  <2> HIDE DEF at
  <2>3. QED  BY <2>1, <2>2
<1>4. Holds(c, first, scalar)
  <2>1. CASE scalar = {}  BY <2>1, HoldsNone
  <2>2. CASE scalar # {}
    <3>1. scalar = {Scalar}  BY <2>2
    <3>2. QED  BY <3>1, HoldsScalar
  <2>3. QED  BY <2>1, <2>2
<1>5. ASSUME NEW i \in 1 .. n
      PROVE  TakenRight(c, loop, value[i], {x \in X : at[x] = i})
  <2>1. i - 1 \in Nat /\ i - 1 # Scalar  BY <1>1 DEF Scalar
  <2>2. {x \in X : at[x] = i} = {i - 1} \cap elements
    <3>1. \A x \in X : at[x] = i <=> x = i - 1  BY <1>1
    <3>2. i - 1 \notin scalar  BY <2>1
    <3> HIDE DEF at
    <3>3. QED  BY <3>1, <3>2
  <2>3. value[i] = IF i - 1 \in elements THEN Term(i - 1, 0) ELSE <<>>
    BY DEF Dealt
  <2> HIDE DEF value, at, X
  <2>4. CASE i - 1 \in elements
    <3>1. {x \in X : at[x] = i} = {i - 1}  BY <2>4, <2>2
    <3>2. value[i] = Term(i - 1, 0)  BY <2>4, <2>3
    <3>3. QED  BY <3>1, <3>2, <2>1 DEF TakenRight
  <2>5. CASE i - 1 \notin elements
    <3>1. {x \in X : at[x] = i} = {}  BY <2>5, <2>2
    <3>2. value[i] = <<>>  BY <2>5, <2>3
    <3>3. QED  BY <3>1, <3>2 DEF TakenRight
  <2>6. QED  BY <2>4, <2>5
<1>6. loop \in {"elements", "accumulators", "lanes"} /\ loop # "lanes"
  OBVIOUS
<1> HIDE DEF at, first, value, n, X, loop
<1>7. Holds(c, InLine(c, loop, first, n, value), X)
  BY <1>1, <1>2, <1>3, <1>4, <1>5, <1>6, InLineHolds
<1>8. QED  BY <1>7 DEF first, value, n, X, loop

LEMMA FilledHolds ==
  ASSUME NEW c \in LegalCalls, NEW cell
  PROVE  Holds(c, Filled(c, cell), {x \in Items(c) : Place(c, x) = cell})
<1> DEFINE elements == {i \in c.active : Cell(c, i) = cell}
           scalar == {x \in {Scalar} : cell = FirstCell}
<1>1. scalar # {} <=> cell = FirstCell
  OBVIOUS
<1>2. elements \in SUBSET c.active /\ scalar \in SUBSET {Scalar}
  OBVIOUS
<1>3. {x \in Items(c) : Place(c, x) = cell} = elements \cup scalar
  <2>1. Scalar \notin c.active  BY CallTypes DEF Scalar
  <2>2. QED  BY <2>1 DEF Items, Place
<1>4. Filled(c, cell) = InLine(c, "elements", IF scalar # {} THEN Term(Scalar, 0) ELSE <<>>, c.vl,
                               Dealt(c, elements))
  <2>1. (IF scalar # {} THEN Term(Scalar, 0) ELSE <<>>) = (IF cell = FirstCell THEN Term(Scalar, 0) ELSE <<>>)
    BY <1>1
  <2> HIDE DEF scalar
  <2>2. QED  BY <2>1 DEF Filled
<1> DEFINE held == {x \in Items(c) : Place(c, x) = cell}
<1>5. held = elements \cup scalar  BY <1>3
<1> HIDE DEF elements, scalar
<1>6. Holds(c, Filled(c, cell), elements \cup scalar)
  BY <1>2, <1>4, DealtHolds
<1> HIDE DEF held
<1>7. Holds(c, Filled(c, cell), held)  BY <1>5, <1>6
<1>8. QED  BY <1>7 DEF held

LEMMA IntralaneHolds ==
  ASSUME NEW c \in LegalCalls, NEW lane, NEW k
  PROVE  Holds(c, IntralaneMerge(c, lane, k),
               {x \in Items(c) : Place(c, x).lane = lane /\ Place(c, x).part = k})
<1> DEFINE X == {x \in Items(c) : Place(c, x).lane = lane /\ Place(c, x).part = k}
           at == [x \in X |-> Place(c, x).accum]
           n == Accumulators(c)
           leaf == [a \in 0 .. n - 1 |-> Filled(c, [lane |-> lane, accum |-> a, part |-> k])]
<1>1. n \in Nat \ {0}  BY CallTypes
<1>2. at \in [X -> 0 .. n - 1]  BY PlaceTypes
<1>3. ASSUME NEW i \in 0 .. n - 1  PROVE Holds(c, leaf[i], {x \in X : at[x] = i})
  <2> DEFINE cell == [lane |-> lane, accum |-> i, part |-> k]
  <2>1. leaf[i] = Filled(c, cell)  OBVIOUS
  <2>2. \A x \in Items(c) : Place(c, x) = cell <=> x \in X /\ at[x] = i
    BY PlaceTypes
  <2>3. {x \in X : at[x] = i} = {x \in Items(c) : Place(c, x) = cell}
    <3> HIDE DEF at, cell
    <3>1. QED  BY <2>2
  <2> HIDE DEF leaf, at, X, cell
  <2>4. QED  BY <2>1, <2>3, FilledHolds
<1>4. IntralaneMerge(c, lane, k) = IF TreeIntra(c) THEN Tree(c, n, leaf)
                                   ELSE InLine(c, "accumulators", leaf[0], n - 1, leaf)
  BY DEF IntralaneMerge
<1> HIDE DEF X, at, n, leaf
<1>5. CASE TreeIntra(c)
  <2>1. Holds(c, Tree(c, n, leaf), X)  BY <1>1, <1>2, <1>3, TreeHolds
  <2>2. QED  BY <2>1, <1>4, <1>5 DEF X
<1>6. CASE ~TreeIntra(c)
  <2> DEFINE loop == "accumulators"
  <2>1. loop \in {"elements", "accumulators", "lanes"} /\ loop # "lanes" /\ loop # "elements"
    OBVIOUS
  <2> HIDE DEF loop
  <2>2. Holds(c, leaf[0], {x \in X : at[x] = 0}) /\ n - 1 \in Nat
    <3>1. 0 \in 0 .. n - 1 /\ n - 1 \in Nat  BY <1>1
    <3>2. QED  BY <3>1, <1>3
  <2>3. \A i \in 1 .. n - 1 : TakenRight(c, loop, leaf[i], {x \in X : at[x] = i})
    BY <1>1, <1>3, <2>1 DEF TakenRight
  <2>4. Holds(c, InLine(c, loop, leaf[0], n - 1, leaf), X)
    BY <1>2, <2>1, <2>2, <2>3, InLineHolds
  <2>5. QED  BY <2>4, <1>4, <1>6 DEF X, loop
<1>7. QED  BY <1>5, <1>6

(* The parts of an accumulator have each term of X once between them.      *)
PartsHold(c, a, n, X) ==
  \E at \in [X -> 0 .. n - 1] : \A k \in 0 .. n - 1 : Holds(c, a[k], {x \in X : at[x] = k})

LEMMA HalvedHolds ==
  ASSUME NEW c, NEW left \in Nat \ {0}, NEW a, NEW X, left < ResultParts(c),
         PartsHold(c, a, 2 * left, X)
  PROVE  PartsHold(c, Halved(c, left, a), left, X)
<1>1. PICK at \in [X -> 0 .. 2 * left - 1] :
        \A k \in 0 .. 2 * left - 1 : Holds(c, a[k], {x \in X : at[x] = k})
  BY DEF PartsHold
<1> DEFINE at2 == [x \in X |-> IF at[x] >= left THEN at[x] - left ELSE at[x]]
           h == Halved(c, left, a)
<1>2. at2 \in [X -> 0 .. left - 1]
  OBVIOUS
<1>3. ASSUME NEW k \in 0 .. left - 1  PROVE Holds(c, h[k], {x \in X : at2[x] = k})
  <2> DEFINE A == {x \in X : at[x] = k}
             B == {x \in X : at[x] = k + left}
  <2>1. h[k] = Join(c, a[k], a[k + left])  BY DEF Halved
  <2>2. k \in 0 .. 2 * left - 1 /\ k + left \in 0 .. 2 * left - 1 /\ k # k + left  OBVIOUS
  <2>3. Holds(c, a[k], A) /\ Holds(c, a[k + left], B)  BY <1>1, <2>2
  <2>4. A \cap B = {}  BY <2>2
  <2>5. A \cup B = {x \in X : at2[x] = k}
    <3>1. \A x \in X : at2[x] = k <=> at[x] = k \/ at[x] = k + left  OBVIOUS
    <3> HIDE DEF at2
    <3>2. QED  BY <3>1
  <2> DEFINE loop == "accumulators"
  <2>6. loop \in {"elements", "accumulators", "lanes"} /\ loop # "lanes" /\ loop # "elements"
    OBVIOUS
  <2>7. \A x, y : Taken(c, loop, x, y) = Join(c, x, y)  BY DEF Taken
  <2> HIDE DEF loop, A, B, h, at2
  <2>8. TakenRight(c, loop, a[k + left], B)  BY <2>3, <2>6 DEF TakenRight
  <2>9. Holds(c, Taken(c, loop, a[k], a[k + left]), A \cup B)
    BY <2>3, <2>4, <2>6, <2>8, TakenHolds
  <2>10. QED  BY <2>1, <2>5, <2>7, <2>9
<1> HIDE DEF at2, h
<1>4. PartsHold(c, h, left, X)  BY <1>2, <1>3 DEF PartsHold
<1>5. QED  BY <1>4 DEF h

LEMMA FoldHolds ==
  ASSUME NEW c, NEW a, NEW X, ResultParts(c) \in {1, 2, 4, 8}, PartsHold(c, a, ResultParts(c), X)
  PROVE  Holds(c, Fold(c, a), X)
<1> DEFINE n == ResultParts(c)
           a4 == Halved(c, 4, a)
           a2 == Halved(c, 2, a4)
           a1 == Halved(c, 1, a2)
<1>1. \A left \in Nat : \A b : ~(left < n) => Halved(c, left, b) = b
  BY DEF Halved
<1>2. PartsHold(c, a4, IF n > 4 THEN 4 ELSE n, X)
  <2>1. CASE n = 8
    <3>1. 4 < ResultParts(c) /\ PartsHold(c, a, 2 * 4, X)  BY <2>1
    <3>2. PartsHold(c, a4, 4, X)  BY <3>1, HalvedHolds
    <3>3. QED  BY <2>1, <3>2
  <2>2. CASE n # 8
    <3>1. ~(4 < n) /\ ~(n > 4)  BY <2>2
    <3>2. a4 = a  BY <1>1, <3>1
    <3>3. QED  BY <3>1, <3>2
  <2>3. QED  BY <2>1, <2>2
<1> HIDE DEF a4
<1>3. PartsHold(c, a2, IF n > 2 THEN 2 ELSE n, X)
  <2>1. CASE n > 2
    <3>1. (IF n > 4 THEN 4 ELSE n) = 2 * 2  BY <2>1
    <3>2. 2 < ResultParts(c) /\ PartsHold(c, a4, 2 * 2, X)  BY <3>1, <2>1, <1>2
    <3>3. PartsHold(c, a2, 2, X)  BY <3>2, HalvedHolds
    <3>4. QED  BY <2>1, <3>3
  <2>2. CASE ~(n > 2)
    <3>1. ~(2 < n) /\ (IF n > 4 THEN 4 ELSE n) = n  BY <2>2
    <3>2. a2 = a4  BY <1>1, <3>1
    <3>3. QED  BY <3>1, <3>2, <1>2, <2>2
  <2>3. QED  BY <2>1, <2>2
<1> HIDE DEF a2
<1>4. PartsHold(c, a1, 1, X)
  <2>1. CASE n > 1
    <3>1. (IF n > 2 THEN 2 ELSE n) = 2 * 1  BY <2>1
    <3>2. 1 < ResultParts(c) /\ PartsHold(c, a2, 2 * 1, X)  BY <3>1, <2>1, <1>3
    <3>3. QED  BY <3>2, HalvedHolds
  <2>2. CASE ~(n > 1)
    <3>1. ~(1 < n) /\ (IF n > 2 THEN 2 ELSE n) = 1  BY <2>2
    <3>2. a1 = a2  BY <1>1, <3>1
    <3>3. QED  BY <3>1, <3>2, <1>3
  <2>3. QED  BY <2>1, <2>2
<1> HIDE DEF a1
<1>5. PICK at \in [X -> 0 .. 0] : Holds(c, a1[0], {x \in X : at[x] = 0})
  <2>1. 1 - 1 = 0 /\ 0 \in 0 .. 0  OBVIOUS
  <2>2. \E at \in [X -> 0 .. 1 - 1] : \A k \in 0 .. 1 - 1 : Holds(c, a1[k], {x \in X : at[x] = k})
    BY <1>4, Zenon DEF PartsHold
  <2>3. QED  BY <2>1, <2>2
<1>6. {x \in X : at[x] = 0} = X  OBVIOUS
<1>7. Fold(c, a) = a1[0]  BY DEF Fold, a1, a2, a4
<1>8. QED  BY <1>5, <1>6, <1>7

LEMMA LaneHolds ==
  ASSUME NEW c \in LegalCalls, NEW lane
  PROVE  Holds(c, LaneValue(c, lane), {x \in Items(c) : Place(c, x).lane = lane})
<1> DEFINE X == {x \in Items(c) : Place(c, x).lane = lane}
           at == [x \in X |-> Place(c, x).part]
           n == ResultParts(c)
           a == [k \in 0 .. n - 1 |-> IntralaneMerge(c, lane, k)]
<1>1. at \in [X -> 0 .. n - 1]  BY PlaceTypes
<1>2. ASSUME NEW k \in 0 .. n - 1  PROVE Holds(c, a[k], {x \in X : at[x] = k})
  <2>1. a[k] = IntralaneMerge(c, lane, k)  OBVIOUS
  <2>2. {x \in X : at[x] = k} = {x \in Items(c) : Place(c, x).lane = lane /\ Place(c, x).part = k}
    OBVIOUS
  <2> HIDE DEF a, X, at
  <2>3. QED  BY <2>1, <2>2, IntralaneHolds
<1>3. LaneValue(c, lane) = Fold(c, a)  BY DEF LaneValue
<1> HIDE DEF a, X, at
<1>4. PartsHold(c, a, n, X)  BY <1>1, <1>2 DEF PartsHold
<1>5. Holds(c, Fold(c, a), X)  BY <1>4, CallTypes, FoldHolds
<1>6. QED  BY <1>3, <1>5 DEF X

LEMMA MergeHolds ==
  ASSUME NEW c \in LegalCalls
  PROVE  Holds(c, MergeAccums(c), Items(c))
<1> DEFINE X == Items(c)
           at == [x \in X |-> Place(c, x).lane]
           n == c.lanes
           leaf == Lanes(c)
<1>1. n \in Nat \ {0}  BY CallTypes
<1>2. at \in [X -> 0 .. n - 1]  BY PlaceTypes
<1>3. ASSUME NEW i \in 0 .. n - 1  PROVE Holds(c, leaf[i], {x \in X : at[x] = i})
  <2>1. leaf[i] = LaneValue(c, i)  BY DEF Lanes
  <2>2. {x \in X : at[x] = i} = {x \in Items(c) : Place(c, x).lane = i}  OBVIOUS
  <2> HIDE DEF leaf, X, at
  <2>3. QED  BY <2>1, <2>2, LaneHolds
<1>4. Scalar \in X /\ at[Scalar] = 0
  BY DEF Items, Place, FirstCell
<1>5. MergeAccums(c) = IF TreeInter(c) /\ NecessaryLanes(c) >= n THEN Tree(c, n, leaf)
                       ELSE InLine(c, "lanes", leaf[0], n - 1, leaf)
  BY DEF MergeAccums, InterlaneMerge
<1> HIDE DEF X, at, n, leaf
<1>6. Holds(c, Tree(c, n, leaf), X)
  BY <1>1, <1>2, <1>3, TreeHolds
<1> DEFINE loop == "lanes"
<1>7. loop \in {"elements", "accumulators", "lanes"} /\ loop # "elements"
  OBVIOUS
<1>8. Holds(c, InLine(c, loop, leaf[0], n - 1, leaf), X)
  <2> HIDE DEF loop
  <2>1. Holds(c, leaf[0], {x \in X : at[x] = 0}) /\ n - 1 \in Nat
    <3>1. 0 \in 0 .. n - 1 /\ n - 1 \in Nat  BY <1>1
    <3>2. QED  BY <3>1, <1>3
  <2>2. \A i \in 1 .. n - 1 : TakenRight(c, loop, leaf[i], {x \in X : at[x] = i})
    <3> SUFFICES ASSUME NEW i \in 1 .. n - 1
                 PROVE  TakenRight(c, loop, leaf[i], {x \in X : at[x] = i})
      OBVIOUS
    <3>1. i \in 0 .. n - 1  BY <1>1
    <3>2. QED  BY <3>1, <1>3, <1>7 DEF TakenRight
  <2>3. QED  BY <1>2, <1>4, <1>7, <2>1, <2>2, InLineHolds
<1>9. QED  BY <1>5, <1>6, <1>8 DEF X

(***************************************************************************)
(* Ordered reductions: one loop over the elements.                         *)
(***************************************************************************)
Ascends(v) == \A j, k \in 1 .. Len(v) : j < k => v[j].of < v[k].of

LEMMA AppendAscends ==
  ASSUME NEW v \in Seq(Terms), NEW w \in Seq(Terms), NEW i \in Int,
         Ascends(v), \A j \in 1 .. Len(v) : v[j].of < i, Len(w) = 1, w[1].of = i
  PROVE  /\ Ascends(v \o w)
         /\ \A j \in 1 .. Len(v \o w) : (v \o w)[j].of < i + 1
<1> DEFINE u == v \o w
<1>1. /\ Len(v) \in Nat /\ Len(u) = Len(v) + 1
      /\ \A j \in 1 .. Len(v) : u[j] = v[j]
      /\ u[Len(v) + 1] = w[1]
  <2>1. Len(v) \in Nat /\ Len(u) = Len(v) + 1
    <3>1. v \in Seq(Terms) /\ w \in Seq(Terms)  OBVIOUS
    <3>2. Len(u) = Len(v) + Len(w) /\ Len(v) \in Nat  BY ONLY <3>1
    <3>3. Len(w) = 1  OBVIOUS
    <3>4. QED  BY ONLY <3>2, <3>3
  <2>2. \A j \in 1 .. Len(u) : u[j] = IF j <= Len(v) THEN v[j] ELSE w[j - Len(v)]  OBVIOUS
  <2> HIDE DEF u
  <2>3. Len(v) + 1 \in 1 .. Len(u) /\ ~(Len(v) + 1 <= Len(v)) /\ (Len(v) + 1) - Len(v) = 1  BY <2>1
  <2>4. u[Len(v) + 1] = w[1]  BY <2>2, <2>3
  <2>5. QED  BY <2>1, <2>2, <2>4
<1>2. \A j \in 1 .. Len(v) : v[j].of \in Int
  <2>1. \A j \in 1 .. Len(v) : v[j] \in Terms  OBVIOUS
  <2>2. QED  BY <2>1 DEF Terms
<1> HIDE DEF u
<1>3. ASSUME NEW j \in 1 .. Len(u)
      PROVE  (j \in 1 .. Len(v) /\ u[j] = v[j]) \/ (j = Len(v) + 1 /\ u[j].of = i)
  BY <1>1
<1>4. ASSUME NEW j \in 1 .. Len(u)  PROVE u[j].of < i + 1
  BY <1>2, <1>3
<1>5. ASSUME NEW j \in 1 .. Len(u), NEW k \in 1 .. Len(u), j < k  PROVE u[j].of < u[k].of
  <2>1. j \in 1 .. Len(v) /\ u[j] = v[j]  BY <1>1, <1>3, <1>5
  <2>2. CASE k \in 1 .. Len(v) /\ u[k] = v[k]
    BY <2>1, <2>2, <1>5 DEF Ascends
  <2>3. CASE k = Len(v) + 1 /\ u[k].of = i
    BY <2>1, <2>3
  <2>4. QED  BY <2>2, <2>3, <1>3
<1>6. QED  BY <1>4, <1>5 DEF Ascends, u

LEMMA OrderedHolds ==
  ASSUME NEW c \in LegalCalls
  PROVE  Holds(c, ReductionOrd(c), Items(c)) /\ Ascends(ReductionOrd(c))
<1> DEFINE loop == "elements"
           first == Term(Scalar, 0)
           value == Dealt(c, c.active)
           n == c.vl
           v == InLine(c, loop, first, n, value)
<1>1. ReductionOrd(c) = v  BY DEF ReductionOrd
<1>2. Holds(c, v, Items(c))
  <2> DEFINE scalar == {Scalar}
  <2>1. scalar # {} /\ scalar \in SUBSET {Scalar} /\ c.active \in SUBSET c.active
    OBVIOUS
  <2>2. (IF scalar # {} THEN Term(Scalar, 0) ELSE <<>>) = first  BY <2>1
  <2>3. Items(c) = c.active \cup scalar  BY DEF Items
  <2> HIDE DEF scalar, first
  <2>4. QED  BY <2>1, <2>2, <2>3, DealtHolds
<1> DEFINE K == {p \in (0 .. n) \X Seq(Terms) :
                   /\ p[2] # <<>> /\ Ascends(p[2])
                   /\ \A j \in 1 .. Len(p[2]) : p[2][j].of < p[1]}
<1>3. n \in Nat  BY CallTypes
<1>4. <<0, first>> \in K
  <2>1. Holds(c, first, {Scalar}) /\ first # <<>>  BY HoldsScalar
  <2>2. first \in Seq(Terms)  BY <2>1 DEF Holds
  <2>3. \A j \in 1 .. Len(first) : first[j].of = -1  BY <2>1 DEF Holds, Scalar
  <2>4. Ascends(first)
    <3>1. \A j, k \in 1 .. Len(first) : first[j].of = first[k].of  BY <2>3
    <3>2. \A j, k \in 1 .. Len(first) : j = k  BY <2>1, <3>1 DEF Holds
    <3>3. \A j \in 1 .. Len(first) : ~(j < j)  BY <2>2
    <3>4. QED  BY <3>2, <3>3 DEF Ascends
  <2> HIDE DEF first
  <2>5. QED  BY <1>3, <2>1, <2>2, <2>3, <2>4
<1>5. ASSUME NEW i \in 1 .. n, NEW x, <<i - 1, x>> \in K
      PROVE  <<i, Taken(c, loop, x, value[i])>> \in K
  <2>1. /\ x \in Seq(Terms) /\ x # <<>> /\ Ascends(x)
        /\ \A j \in 1 .. Len(x) : x[j].of < i - 1
    BY <1>5
  <2>2. value[i] = IF i - 1 \in c.active THEN Term(i - 1, 0) ELSE <<>>
    BY DEF Dealt
  <2> DEFINE w == Taken(c, loop, x, value[i])
             In(u) == u \in Seq(Terms) /\ u # <<>> /\ Ascends(u) /\ \A j \in 1 .. Len(u) : u[j].of < i
  <2>3. i - 1 \in Nat /\ i \in 0 .. n /\ (i - 1) + 1 = i  BY <1>3
  <2>4. In(w)
    <3>1. CASE i - 1 \in c.active
      <4> DEFINE t == Widened(c, Term(i - 1, 0))
      <4>1. value[i] = Term(i - 1, 0) /\ value[i] # <<>>
        BY <3>1, <2>2, <2>3, HoldsElement
      <4>2. Holds(c, t, {i - 1})  BY <2>3, HoldsElement
      <4>3. w = x \o t  BY <4>1, <2>1 DEF Taken, Added, Operation
      <4> HIDE DEF t, w, value
      <4>4. t \in Seq(Terms) /\ Len(t) = 1 /\ t[1].of = i - 1
        <5>1. t \in Seq(Terms) /\ Len(t) \in Nat  BY <4>2 DEF Holds
        <5>2. \A j, k \in 1 .. Len(t) : j = k  BY <4>2 DEF Holds
        <5>3. PICK j \in 1 .. Len(t) : t[j].of = i - 1  BY <4>2 DEF Holds
        <5>4. 1 \in 1 .. Len(t) /\ Len(t) \in 1 .. Len(t)  BY <5>1, <5>3
        <5>5. QED  BY <5>1, <5>2, <5>3, <5>4
      <4>5. /\ Ascends(x \o t)
            /\ \A j \in 1 .. Len(x \o t) : (x \o t)[j].of < i
        BY <2>1, <2>3, <4>4, AppendAscends
      <4>6. x \o t \in Seq(Terms) /\ x \o t # <<>>
        BY <2>1, <4>4
      <4>7. QED  BY <4>3, <4>5, <4>6
    <3>2. CASE i - 1 \notin c.active
      <4>1. value[i] = <<>>  BY <3>2, <2>2
      <4>2. w = x  BY <4>1 DEF Taken
      <4>3. \A j \in 1 .. Len(x) : x[j].of \in Int
        <5>1. \A j \in 1 .. Len(x) : x[j] \in Terms  BY <2>1
        <5>2. QED  BY <5>1 DEF Terms
      <4>4. ASSUME NEW j \in 1 .. Len(x)  PROVE x[j].of < i
        <5>1. x[j].of \in Int /\ x[j].of < i - 1  BY <2>1, <4>3
        <5>2. QED  BY <5>1, <2>3
      <4>5. QED  BY <2>1, <4>2, <4>4
    <3>3. QED  BY <3>1, <3>2
  <2> SUFFICES <<i, w>> \in K  OBVIOUS
  <2> HIDE DEF w
  <2>5. QED  BY <2>3, <2>4
<1>6. <<n, v>> \in K
  <2> HIDE DEF K, first, value
  <2>1. QED  BY <1>3, <1>4, <1>5, InLineKeeps
<1>7. Ascends(v)
  <2> HIDE DEF v
  <2>1. QED  BY <1>6
<1>8. QED  BY <1>1, <1>2, <1>7

(***************************************************************************)
(* The result.                                                             *)
(***************************************************************************)
(* A value is as long as its set, and consists of its terms.               *)
LEMMA HoldsCounts ==
  ASSUME NEW c, NEW v, NEW S, Holds(c, v, S)
  PROVE  LET terms == {[of |-> i, widened |-> Times(c, i)] : i \in S} IN
         /\ Len(v) = Cardinality(terms)
         /\ {v[j] : j \in 1 .. Len(v)} = terms
<1> DEFINE terms == {[of |-> i, widened |-> Times(c, i)] : i \in S}
           n == Len(v)
<1>1. v \in Seq(Terms) /\ n \in Nat  BY DEF Holds
<1>2. \A j \in 1 .. n : v[j] = [of |-> v[j].of, widened |-> v[j].widened]
  <2>1. \A j \in 1 .. n : v[j] \in Terms  BY <1>1
  <2>2. QED  BY <2>1 DEF Terms
<1>3. \A j \in 1 .. n : v[j].of \in S /\ v[j] = [of |-> v[j].of, widened |-> Times(c, v[j].of)]
  BY <1>2 DEF Holds
<1>4. \A j \in 1 .. n : v[j] \in terms
  BY <1>3
<1>5. \A t \in terms : \E j \in 1 .. n : v[j] = t
  <2> SUFFICES ASSUME NEW i \in S
               PROVE  \E j \in 1 .. n : v[j] = [of |-> i, widened |-> Times(c, i)]
    OBVIOUS
  <2>1. PICK j \in 1 .. n : v[j].of = i  BY DEF Holds
  <2>2. v[j] = [of |-> i, widened |-> Times(c, i)]  BY <2>1, <1>3
  <2>3. QED  BY <2>2
<1>6. \A j, k \in 1 .. n : v[j] = v[k] => j = k
  BY DEF Holds
<1> HIDE DEF terms
<1>7. {v[j] : j \in 1 .. n} = terms
  BY <1>4, <1>5
<1>8. ExistsBijection(1 .. n, terms)
  <2> DEFINE f == [j \in 1 .. n |-> v[j]]
  <2>1. f \in [1 .. n -> terms]  BY <1>4
  <2>2. \A j, k \in 1 .. n : f[j] = f[k] => j = k  BY <1>6
  <2>3. \A t \in terms : \E j \in 1 .. n : f[j] = t  BY <1>5
  <2> HIDE DEF f
  <2>4. f \in Bijection(1 .. n, terms)
    BY <2>1, <2>2, <2>3 DEF Bijection, Injection, Surjection, IsInjective
  <2>5. QED  BY <2>4 DEF ExistsBijection
<1>9. IsFiniteSet(1 .. n) /\ Cardinality(1 .. n) = n
  BY <1>1, FS_Interval
<1>10. Cardinality(terms) = n
  BY <1>8, <1>9, FS_Bijection
<1>11. QED  BY <1>7, <1>10 DEF terms

(* What do_reduction returns, for any call                                 *)
ReductionInv ==
  /\ arguments \in LegalCalls
  /\ result # <<>> => /\ Holds(arguments, result, Items(arguments))
                      /\ Ordered(arguments) => Ascends(result)

LEMMA ReductionInitInv == ReductionInit => ReductionInv
BY DEF ReductionInit, ReductionInv

LEMMA ReductionStepInv ==
  ASSUME ReductionInv, [DoReduction]_reductionVars
  PROVE  ReductionInv'
<1>1. CASE UNCHANGED reductionVars
  BY <1>1 DEF ReductionInv, reductionVars
<1>2. CASE DoReduction
  <2>1. arguments' = arguments /\ arguments \in LegalCalls
    BY <1>2 DEF DoReduction, ReductionInv
  <2>2. CASE Ordered(arguments)
    <3>1. result' = ReductionOrd(arguments)  BY <1>2, <2>2 DEF DoReduction
    <3>2. Holds(arguments, result', Items(arguments)) /\ Ascends(result')
      BY <2>1, <3>1, OrderedHolds
    <3>3. QED  BY <2>1, <3>2 DEF ReductionInv
  <2>3. CASE ~Ordered(arguments)
    <3>1. result' = MergeAccums(arguments)  BY <1>2, <2>3 DEF DoReduction
    <3>2. Holds(arguments, result', Items(arguments))
      BY <2>1, <3>1, MergeHolds
    <3>3. QED  BY <2>1, <2>3, <3>2 DEF ReductionInv
  <2>4. QED  BY <2>2, <2>3
<1>3. QED  BY <1>1, <1>2

LEMMA ReductionInvTypes == ReductionInv => ReductionTypeOK
<1> SUFFICES ASSUME ReductionInv PROVE ReductionTypeOK
  OBVIOUS
<1> DEFINE c == arguments
<1>1. PICK vl \in 1 .. MaxVl :
        c \in [kind : Kinds, lanes : LaneNumbers, accums : AccumNumbers, parts : PartNumbers,
               vl : {vl}, masking : BOOLEAN, active : SUBSET (0 .. vl - 1),
               treeIntra : BOOLEAN, treeInter : BOOLEAN]
  BY DEF ReductionInv, LegalCalls, Calls
<1>2. Legal(c)  BY DEF ReductionInv, LegalCalls
<1> DEFINE R == [of : -1 .. MaxVl - 1, widened : 0 .. 3]
<1>3. result \in Seq(R)
  <2>1. CASE result = <<>>  BY <2>1
  <2>2. CASE result # <<>>
    <3> DEFINE n == Len(result)
    <3>1. Holds(c, result, Items(c))  BY <2>2 DEF ReductionInv
    <3>2. result \in Seq(Terms)  BY <3>1 DEF Holds
    <3>3. Items(c) \subseteq -1 .. MaxVl - 1
      <4>1. c.vl = vl /\ c.active \subseteq 0 .. vl - 1 /\ vl \in 1 .. MaxVl /\ MaxVl \in Nat
        BY <1>1, ReductionAssumption
      <4>2. ASSUME NEW x \in Items(c)  PROVE x \in -1 .. MaxVl - 1
        <5>1. x \in 0 .. vl - 1 \/ x = -1  BY <4>1 DEF Items, Scalar
        <5>2. QED  BY <5>1, <4>1
      <4>3. QED  BY <4>2
    <3>4. \A j \in 1 .. n : result[j] \in R
      <4> SUFFICES ASSUME NEW j \in 1 .. n  PROVE result[j] \in R
        OBVIOUS
      <4>1. result[j] \in Terms  BY <3>2
      <4>2. result[j].of \in -1 .. MaxVl - 1  BY <3>1, <3>3 DEF Holds
      <4>3. QED  BY <4>1, <4>2 DEF Terms
    <3>5. n \in Nat /\ result = [j \in 1 .. n |-> result[j]]  BY <3>2
    <3> HIDE DEF n, R
    <3>6. QED  BY <3>4, <3>5
  <2>3. QED  BY <2>1, <2>2
<1>4. QED  BY <1>1, <1>2, <1>3 DEF ReductionTypeOK

(* The type invariant of the reduction reference model: the result of any  *)
(* call is a sequence of terms.                                            *)
THEOREM ReductionTypeCorrect == ReductionSpec => []ReductionTypeOK
<1>1. ReductionSpec => []ReductionInv
  BY ReductionInitInv, ReductionStepInv, PTL DEF ReductionSpec
<1>2. QED  BY <1>1, ReductionInvTypes, PTL

(* do_reduction adds the scalar and each active element exactly once, for  *)
(* any number of lanes, accumulators and elements.                         *)
THEOREM TermsOnce == ReductionSpec => []EachTermOnce
<1>1. ReductionSpec => []ReductionInv
  BY ReductionInitInv, ReductionStepInv, PTL DEF ReductionSpec
<1>2. ReductionInv => EachTermOnce
  <2> SUFFICES ASSUME ReductionInv, result # <<>>
               PROVE  LET c == arguments
                          times == IF Widening(c) /\ c.kind # "widening unsigned" THEN 1 ELSE 0
                          terms == {[of |-> i, widened |-> times] : i \in c.active}
                                     \cup {[of |-> Scalar, widened |-> 0]}
                      IN /\ Len(result) = Cardinality(terms)
                         /\ {result[j] : j \in 1 .. Len(result)} = terms
                         /\ Ordered(c) => \A j, k \in 1 .. Len(result) : j < k => result[j].of < result[k].of
    BY DEF EachTermOnce
  <2> DEFINE c == arguments
             times == IF Widening(c) /\ c.kind # "widening unsigned" THEN 1 ELSE 0
             terms == {[of |-> i, widened |-> times] : i \in c.active} \cup {[of |-> Scalar, widened |-> 0]}
             meant == {[of |-> i, widened |-> Times(c, i)] : i \in Items(c)}
  <2>1. Len(result) = Cardinality(meant) /\ {result[j] : j \in 1 .. Len(result)} = meant
    BY HoldsCounts DEF ReductionInv
  <2>2. terms = meant
    <3>1. Scalar \notin c.active  BY CallTypes DEF ReductionInv, Scalar
    <3>2. \A i \in c.active : Times(c, i) = times  BY <3>1 DEF Times
    <3>3. Times(c, Scalar) = 0  BY DEF Times
    <3> HIDE DEF times
    <3>4. QED  BY <3>2, <3>3 DEF Items
  <2>3. Ordered(c) => Ascends(result)  BY DEF ReductionInv
  <2> HIDE DEF terms, meant
  <2>4. /\ Len(result) = Cardinality(terms)
        /\ {result[j] : j \in 1 .. Len(result)} = terms
        /\ Ordered(c) => \A j, k \in 1 .. Len(result) : j < k => result[j].of < result[k].of
    BY <2>1, <2>2, <2>3 DEF Ascends
  <2>5. QED  BY <2>4 DEF terms
<1>3. QED  BY <1>1, <1>2, PTL
=============================================================================
