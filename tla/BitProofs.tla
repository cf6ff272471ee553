------------------------------ MODULE BitProofs ------------------------------
(***************************************************************************)
(* Theorems about the bit manipulation: for words of any width that is a   *)
(* power of two, each algorithm computes what its instruction is defined   *)
(* to compute.                                                             *)
(***************************************************************************)
EXTENDS BitManip, ComputationProofs

(***************************************************************************)
(* Loops.                                                                  *)
(***************************************************************************)

(* The states of a loop, one for each number of iterations                 *)
States(f, step, first, n) == f = [k \in 0 .. n |-> IF k = 0 THEN first ELSE step[k][f[k - 1]]]

(* They exist: each extends the ones before.                               *)
LEMMA StatesExist ==
  ASSUME NEW step, NEW first, NEW n \in Nat
  PROVE  \E f : States(f, step, first, n)
<1> DEFINE T == {m \in Nat : \E f : States(f, step, first, m)}
<1>1. 0 \in T
  <2> DEFINE f == [k \in 0 .. 0 |-> first]
  <2>1. States(f, step, first, 0)
    BY DEF States
  <2> QED
    BY <2>1
<1>2. ASSUME NEW m \in Nat, m \in T PROVE m + 1 \in T
  <2>1. PICK f : States(f, step, first, m)
    BY <1>2
  <2> DEFINE last == step[m + 1][f[m]]
             g == [k \in 0 .. m + 1 |-> IF k = m + 1 THEN last ELSE f[k]]
  <2>2. ASSUME NEW k \in 0 .. m + 1
        PROVE  g[k] = IF k = 0 THEN first ELSE step[k][g[k - 1]]
    <3>1. CASE k = m + 1
      <4>1. k # 0 /\ k - 1 = m /\ m \in 0 .. m + 1 /\ m # m + 1
        BY <3>1
      <4>2. g[k - 1] = f[m] /\ g[k] = last
        BY <4>1, <3>1
      <4> QED
        BY <3>1, <4>1, <4>2
    <3>2. CASE k # m + 1
      <4>1. k \in 0 .. m
        BY <3>2
      <4>2. f[k] = IF k = 0 THEN first ELSE step[k][f[k - 1]]
        BY <2>1, <4>1 DEF States
      <4>3. g[k] = f[k]
        BY <3>2
      <4>4. k # 0 => g[k - 1] = f[k - 1]
        BY <4>1
      <4> QED
        BY <4>2, <4>3, <4>4
    <3> QED
      BY <3>1, <3>2
  <2>3. States(g, step, first, m + 1)
    <3> HIDE DEF last
    <3>1. g = [k \in 0 .. m + 1 |-> g[k]]
      OBVIOUS
    <3> HIDE DEF g
    <3> QED
      BY <2>2, <3>1 DEF States
  <2>4. \E h : States(h, step, first, m + 1)
    <3> HIDE DEF g
    <3> QED
      BY <2>3
  <2> QED
    BY <2>4
<1>3. Nat \subseteq T
  <2> HIDE DEF T
  <2> QED
    BY <1>1, <1>2, SetInduction
<1> QED
  BY <1>3

(* A loop ends in the last of them.                                        *)
LEMMA IteratedIs ==
  ASSUME NEW step, NEW first, NEW n \in Nat
  PROVE  \E f : States(f, step, first, n) /\ Iterated(step, first, n) = f[n]
<1> DEFINE Is(f) == States(f, step, first, n)
           g == CHOOSE f : Is(f)
<1>1. \E f : Is(f)
  BY StatesExist
<1>2. Is(g)
  <2> HIDE DEF Is
  <2> QED
    BY <1>1, Zenon
<1>3. Iterated(step, first, n) = g[n]
  BY DEF Iterated, States
<1> HIDE DEF g
<1> QED
  BY <1>2, <1>3

(* A loop keeps what each of its iterations keeps: K is a set of pairs of  *)
(* a number of iterations and a state, in place of a predicate.            *)
LEMMA StatesKeep ==
  ASSUME NEW step, NEW first, NEW n \in Nat, NEW f, States(f, step, first, n),
         NEW K, <<0, first>> \in K,
         \A i \in 1 .. n : \A x : <<i - 1, x>> \in K => <<i, step[i][x]>> \in K
  PROVE  \A i \in 0 .. n : <<i, f[i]>> \in K
<1> DEFINE T == {m \in Nat : m <= n => <<m, f[m]>> \in K}
<1>1. \A m \in 0 .. n : f[m] = IF m = 0 THEN first ELSE step[m][f[m - 1]]
  BY DEF States
<1>2. 0 \in T
  BY <1>1
<1>3. ASSUME NEW m \in Nat, m \in T PROVE m + 1 \in T
  <2>1. CASE m + 1 <= n
    <3>1. <<m, f[m]>> \in K /\ m + 1 \in 1 .. n /\ (m + 1) - 1 = m
      BY <1>3, <2>1
    <3>2. f[m + 1] = step[m + 1][f[m]]
      BY <1>1, <3>1
    <3>3. <<m + 1, f[m + 1]>> \in K
      BY <3>1, <3>2
    <3> QED
      BY <3>3
  <2>2. CASE ~(m + 1 <= n)
    BY <2>2
  <2> QED
    BY <2>1, <2>2
<1>4. Nat \subseteq T
  <2> HIDE DEF T
  <2> QED
    BY <1>2, <1>3, SetInduction
<1> QED
  BY <1>4

LEMMA IteratedKeeps ==
  ASSUME NEW step, NEW first, NEW n \in Nat, NEW K, <<0, first>> \in K,
         \A i \in 1 .. n : \A x : <<i - 1, x>> \in K => <<i, step[i][x]>> \in K
  PROVE  <<n, Iterated(step, first, n)>> \in K
<1>1. PICK f : States(f, step, first, n) /\ Iterated(step, first, n) = f[n]
  BY IteratedIs
<1>2. \A i \in 0 .. n : <<i, f[i]>> \in K
  BY <1>1, StatesKeep
<1> QED
  BY <1>1, <1>2

(***************************************************************************)
(* Powers of two.                                                          *)
(***************************************************************************)
LEMMA PowerFacts ==
  /\ LogWidth \in Nat /\ LogWidth >= 1
  /\ \A k \in 0 .. LogWidth : Power[k] \in Nat \ {0}
  /\ Power[0] = 1
  /\ \A k \in 1 .. LogWidth : Power[k] = 2 * Power[k - 1]
  /\ Width \in Nat \ {0} /\ Width = 2 * Power[LogWidth - 1]
<1>1. LogWidth \in Nat /\ LogWidth >= 1
  BY BitManipAssumption
<1> DEFINE step == [k \in 1 .. LogWidth |-> [x \in Nat \ {0} |-> 2 * x]]
           Is(f) == f = [k \in 0 .. LogWidth |-> IF k = 0 THEN 1 ELSE 2 * f[k - 1]]
           K == Nat \X (Nat \ {0})
<1>2. PICK f : States(f, step, 1, LogWidth)
  BY <1>1, StatesExist
<1>3. \A i \in 0 .. LogWidth : <<i, f[i]>> \in K
  <2>1. <<0, 1>> \in K
    OBVIOUS
  <2>2. \A i \in 1 .. LogWidth : \A x : <<i - 1, x>> \in K => <<i, step[i][x]>> \in K
    BY <1>1
  <2> HIDE DEF K, step
  <2> QED
    BY <1>1, <1>2, <2>1, <2>2, StatesKeep
<1>4. ASSUME NEW i \in 1 .. LogWidth PROVE step[i][f[i - 1]] = 2 * f[i - 1]
  <2>1. i - 1 \in 0 .. LogWidth
    BY <1>1
  <2>2. f[i - 1] \in Nat \ {0}
    BY <1>3, <2>1
  <2>3. step[i] = [x \in Nat \ {0} |-> 2 * x]
    OBVIOUS
  <2> QED
    BY <2>2, <2>3
<1>5. Is(f)
  <2> HIDE DEF step
  <2> QED
    BY <1>1, <1>2, <1>4 DEF States
<1>6. Power = CHOOSE g : Is(g)
  BY DEF Power
<1>7. Is(Power)
  <2> HIDE DEF Is
  <2> QED
    BY <1>5, <1>6, Zenon
<1>8. \A k \in 0 .. LogWidth : Power[k] = IF k = 0 THEN 1 ELSE 2 * Power[k - 1]
  BY <1>7
<1> DEFINE T == {m \in Nat : m <= LogWidth => Power[m] \in Nat \ {0}}
<1>9. Nat \subseteq T
  <2>1. 0 \in T
    BY <1>1, <1>8
  <2>2. ASSUME NEW m \in Nat, m \in T PROVE m + 1 \in T
    <3>1. m + 1 <= LogWidth => Power[m + 1] = 2 * Power[m] /\ m <= LogWidth
      BY <1>1, <1>8
    <3> QED
      BY <2>2, <3>1
  <2> HIDE DEF T
  <2> QED
    BY <2>1, <2>2, SetInduction
<1>10. \A k \in 0 .. LogWidth : Power[k] \in Nat \ {0}
  BY <1>9
<1> HIDE DEF Is
<1>11. 0 \in 0 .. LogWidth /\ LogWidth \in 1 .. LogWidth /\ LogWidth # 0
  BY <1>1
<1> QED
  BY <1>1, <1>8, <1>10, <1>11 DEF Width

(* A smaller one divides a greater one an even number of times.            *)
LEMMA PowersDivide ==
  ASSUME NEW l \in 0 .. LogWidth, NEW k \in 0 .. LogWidth, l < k
  PROVE  \E c \in Nat \ {0} : Power[k] = Power[l] * (2 * c)
<1>0. LogWidth \in Nat /\ l \in Nat /\ k \in Nat
  BY PowerFacts
<1> DEFINE T == {n \in Nat : l + 1 + n <= LogWidth =>
                               \E c \in Nat \ {0} : Power[l + 1 + n] = Power[l] * (2 * c)}
<1>1. 0 \in T
  <2>1. l + 1 + 0 <= LogWidth => Power[l + 1 + 0] = Power[l] * (2 * 1)
    BY PowerFacts
  <2> QED
    BY <2>1
<1>2. ASSUME NEW n \in Nat, n \in T PROVE n + 1 \in T
  <2> SUFFICES ASSUME l + 1 + (n + 1) <= LogWidth
               PROVE  \E c \in Nat \ {0} : Power[l + 1 + (n + 1)] = Power[l] * (2 * c)
    OBVIOUS
  <2>1. PICK c \in Nat \ {0} : Power[l + 1 + n] = Power[l] * (2 * c)
    BY <1>0, <1>2
  <2>2. l + 1 + (n + 1) \in 1 .. LogWidth /\ l + 1 + (n + 1) - 1 = l + 1 + n
    BY <1>0
  <2>3. Power[l + 1 + (n + 1)] = 2 * Power[l + 1 + n]
    BY <2>2, PowerFacts
  <2>4. Power[l] \in Nat
    BY PowerFacts
  <2>5. 2 * (Power[l] * (2 * c)) = Power[l] * (2 * (2 * c)) /\ 2 * c \in Nat \ {0}
    BY <2>4
  <2> QED
    BY <2>1, <2>3, <2>5
<1>3. Nat \subseteq T
  <2> HIDE DEF T
  <2> QED
    BY <1>1, <1>2, SetInduction
<1>4. k - l - 1 \in Nat /\ l + 1 + (k - l - 1) = k
  BY <1>0
<1> QED
  BY <1>3, <1>4, <1>0

(***************************************************************************)
(* The bits of a position.                                                 *)
(***************************************************************************)
LEMMA PositionFacts ==
  ASSUME NEW i \in Positions
  PROVE  i \in Nat /\ i < Width /\ i <= Width - 1
BY PowerFacts DEF Positions

(* Quotients by neighbouring powers differ in one bit.                     *)
LEMMA NextBit ==
  ASSUME NEW l \in 1 .. LogWidth, NEW i \in Nat
  PROVE  i \div Power[l - 1] =
           2 * (i \div Power[l]) + IF Selected(i, Power[l - 1]) THEN 1 ELSE 0
<1> DEFINE P == Power[l - 1]
           q == i \div P
           r == i % P
           h == q \div 2
           b == q % 2
<1>1. P \in Nat \ {0} /\ Power[l] = 2 * P
  BY PowerFacts
<1>2. q \in Nat /\ r \in Nat /\ r < P /\ i = P * q + r
  BY <1>1, Quotients
<1> HIDE DEF P, q, r
<1>3. h \in Nat /\ b \in {0, 1} /\ q = 2 * h + b
  BY <1>2
<1> HIDE DEF h, b
<1>4. P * q = (2 * P) * h + P * b
  BY <1>1, <1>3
<1>5. i = (2 * P) * h + (P * b + r) /\ 0 <= P * b + r /\ P * b + r < 2 * P
  BY <1>1, <1>2, <1>3, <1>4
<1>6. i \div (2 * P) = h
  BY <1>1, <1>2, <1>3, <1>5, DivModIs
<1>7. Selected(i, P) <=> b = 1
  BY DEF Selected, b, q
<1> QED
  BY <1>1, <1>3, <1>6, <1>7 DEF P, q

(* A position is known by its bits.                                        *)
LEMMA IndexInjective ==
  ASSUME NEW i \in Positions, NEW j \in Positions, Index(i) = Index(j)
  PROVE  i = j
<1>1. i \in Nat /\ j \in Nat /\ i < Width /\ j < Width
  BY PositionFacts
<1> DEFINE T == {n \in Nat : n <= LogWidth => i \div Power[LogWidth - n] = j \div Power[LogWidth - n]}
<1>2. 0 \in T
  <2>1. Power[LogWidth - 0] = Width /\ Width \in Nat \ {0}
    BY PowerFacts DEF Width
  <2>2. i = Width * 0 + i /\ j = Width * 0 + j
    BY <1>1, <2>1
  <2>3. i \div Width = 0 /\ j \div Width = 0
    BY <1>1, <2>1, <2>2, DivModIs
  <2> QED
    BY <2>1, <2>3
<1>3. ASSUME NEW n \in Nat, n \in T PROVE n + 1 \in T
  <2> SUFFICES ASSUME n + 1 <= LogWidth
               PROVE  i \div Power[LogWidth - (n + 1)] = j \div Power[LogWidth - (n + 1)]
    OBVIOUS
  <2> DEFINE l == LogWidth - n
  <2>1. l \in 1 .. LogWidth /\ LogWidth - (n + 1) = l - 1 /\ l - 1 \in 0 .. LogWidth - 1
    BY PowerFacts
  <2>2. i \div Power[l] = j \div Power[l]
    BY <1>3, PowerFacts
  <2> HIDE DEF l
  <2>3. Selected(i, Power[l - 1]) <=> Selected(j, Power[l - 1])
    BY <2>1 DEF Index
  <2> QED
    BY <1>1, <2>1, <2>2, <2>3, NextBit
<1>4. Nat \subseteq T
  <2> HIDE DEF T
  <2> QED
    BY <1>2, <1>3, SetInduction
<1>5. i \div Power[0] = j \div Power[0]
  <2>1. LogWidth \in T /\ LogWidth - LogWidth = 0 /\ LogWidth <= LogWidth
    BY <1>4, PowerFacts
  <2> QED
    BY <2>1
<1>6. i \div 1 = j \div 1
  BY <1>5, PowerFacts
<1> QED
  BY <1>1, <1>6

(* Adding a power of two to a position that does not have it adds that bit *)
(* and no carry.                                                           *)
LEMMA BitAdded ==
  ASSUME NEW i \in Positions, NEW k \in 0 .. LogWidth - 1, ~Selected(i, Power[k])
  PROVE  /\ i + Power[k] \in Positions
         /\ \A l \in 0 .. LogWidth - 1 :
              Selected(i + Power[k], Power[l]) <=> (l = k \/ Selected(i, Power[l]))
<1> DEFINE P == Power[k]
           q == i \div P
           r == i % P
           h == q \div 2
           j == i + P
<1>1. LogWidth \in Nat /\ k \in 0 .. LogWidth /\ k \in Nat /\ P \in Nat \ {0} /\ i \in Nat
  BY PowerFacts, PositionFacts
<1>2. q \in Nat /\ r \in Nat /\ r < P /\ i = P * q + r
  BY <1>1, Quotients
<1>3. q % 2 # 1
  BY DEF Selected
<1> HIDE DEF P, q, r
<1>4. h \in Nat /\ q = 2 * h
  BY <1>2, <1>3
<1> HIDE DEF h
<1>5. j = P * (q + 1) + r /\ j \in Nat
  BY <1>1, <1>2
(* above: a multiple of 2 * P is as far from both *)
<1>6. ASSUME NEW l \in 0 .. LogWidth, k < l
      PROVE  j \div Power[l] = i \div Power[l]
  <2>1. PICK c \in Nat \ {0} : Power[l] = P * (2 * c)
    BY <1>1, <1>6, PowersDivide DEF P
  <2> DEFINE Q == Power[l]
             a == i \div Q
             b == i % Q
  <2>2. Q \in Nat \ {0} /\ Q = P * (2 * c)
    BY <2>1, PowerFacts
  <2>3. a \in Nat /\ b \in Nat /\ b < Q /\ i = Q * a + b
    BY <1>1, <2>2, Quotients
  <2> HIDE DEF Q, a, b
  <2> DEFINE d == h - c * a
  <2>4. d \in Int /\ c * a \in Nat
    BY <1>4, <2>1, <2>3
  <2>5. b = P * (2 * d) + r
    <3>1. Q * a = P * (2 * (c * a))
      BY <2>1, <2>2, <2>3, <1>1
    <3>2. P * q = P * (2 * (c * a)) + P * (2 * d)
      BY <1>1, <1>4, <2>4
    <3> QED
      BY <1>1, <1>2, <2>3, <2>4, <3>1, <3>2
  <2>6. d <= c - 1
    <3>1. SUFFICES ASSUME d >= c PROVE FALSE
      BY <2>1, <2>4
    <3>2. P * (2 * d) >= P * (2 * c)
      BY <1>1, <2>1, <2>4, <3>1
    <3> QED
      BY <1>1, <1>2, <2>2, <2>3, <2>4, <2>5, <3>2
  <2>7. b + P < Q
    <3>1. P * (2 * d) <= P * (2 * (c - 1))
      BY <1>1, <2>1, <2>4, <2>6
    <3>2. P * (2 * (c - 1)) = P * (2 * c) - 2 * P
      BY <1>1, <2>1
    <3> QED
      BY <1>1, <1>2, <2>1, <2>2, <2>3, <2>4, <2>5, <3>1, <3>2
  <2>8. j = Q * a + (b + P) /\ 0 <= b + P /\ b + P \in Int
    <3>1. Q * a \in Nat
      BY <2>2, <2>3
    <3> QED
      BY <1>1, <2>3, <3>1
  <2> HIDE DEF j
  <2>9. j \div Q = a
    BY <2>2, <2>3, <2>7, <2>8, DivModIs
  <2> QED
    BY <2>9 DEF Q, a
(* below: the quotient changes by an even number *)
<1>7. ASSUME NEW l \in 0 .. LogWidth - 1, l < k
      PROVE  Selected(j, Power[l]) <=> Selected(i, Power[l])
  <2>0. l \in 0 .. LogWidth
    BY <1>1
  <2>1. PICK c \in Nat \ {0} : P = Power[l] * (2 * c)
    BY <1>1, <1>7, <2>0, PowersDivide DEF P
  <2> DEFINE Q == Power[l]
             a == i \div Q
             b == i % Q
  <2>2. Q \in Nat \ {0} /\ P = Q * (2 * c)
    BY <2>0, <2>1, PowerFacts
  <2>3. a \in Nat /\ b \in Nat /\ b < Q /\ i = Q * a + b
    BY <1>1, <2>2, Quotients
  <2> HIDE DEF Q, a, b
  <2>4. j = Q * (a + 2 * c) + b /\ a + 2 * c \in Int /\ b \in Int /\ 0 <= b
    BY <1>1, <2>1, <2>2, <2>3
  <2> HIDE DEF j
  <2>5. j \div Q = a + 2 * c
    BY <2>2, <2>3, <2>4, DivModIs
  <2>6. (a + 2 * c) % 2 = a % 2
    BY <2>1, <2>3
  <2> QED
    BY <2>5, <2>6 DEF Selected, Q, a
<1>8. Selected(j, P)
  <2>1. j \div P = q + 1
    <3>1. q + 1 \in Int /\ r \in Int /\ 0 <= r
      BY <1>2
    <3> HIDE DEF j
    <3> QED
      BY <1>1, <1>2, <1>5, <3>1, DivModIs
  <2>2. (q + 1) % 2 = 1
    BY <1>4
  <2> QED
    BY <2>1, <2>2 DEF Selected
<1>9. j \in Positions
  <2>1. j \div Width = i \div Width
    BY <1>1, <1>6, PowerFacts DEF Width
  <2>2. i \div Width = 0
    <3>1. i = Width * 0 + i /\ i < Width
      BY <1>1, PositionFacts, PowerFacts
    <3> QED
      BY <1>1, <3>1, PowerFacts, DivModIs
  <2>3. j = Width * 0 + (j % Width) /\ j % Width < Width
    <3> HIDE DEF j
    <3>1. j \in Nat /\ Width \in Nat \ {0} /\ j \div Width = 0
      BY <1>5, <2>1, <2>2, PowerFacts
    <3>2. j = Width * (j \div Width) + (j % Width) /\ j % Width < Width
      BY <3>1, Quotients
    <3> QED
      BY <3>1, <3>2
  <2>4. j < Width
    <3> HIDE DEF j
    <3> QED
      BY <1>5, <2>3, PowerFacts
  <2> QED
    BY <1>5, <2>4, PowerFacts DEF Positions
<1>10. ASSUME NEW l \in 0 .. LogWidth - 1, k < l
       PROVE  Selected(j, Power[l]) <=> Selected(i, Power[l])
  BY <1>1, <1>6, <1>10 DEF Selected
<1>11. ASSUME NEW l \in 0 .. LogWidth - 1
       PROVE  Selected(j, Power[l]) <=> (l = k \/ Selected(i, Power[l]))
  <2>1. l < k \/ l = k \/ k < l
    BY <1>1
  <2> HIDE DEF j
  <2> QED
    BY <1>7, <1>8, <1>10, <2>1 DEF P
<1> QED
  BY <1>9, <1>11 DEF P

(* The other member of the pair that a step of grev exchanges              *)
Flip(i, k) == IF Selected(i, Power[k]) THEN i - Power[k] ELSE i + Power[k]

LEMMA BitFlipped ==
  ASSUME NEW i \in Positions, NEW k \in 0 .. LogWidth - 1
  PROVE  /\ Flip(i, k) \in Positions
         /\ Selected(Flip(i, k), Power[k]) <=> ~Selected(i, Power[k])
         /\ Index(Flip(i, k)) = Xor(Index(i), {k})
<1> DEFINE P == Power[k]
<1>1. k \in 0 .. LogWidth /\ P \in Nat \ {0} /\ i \in Nat /\ i < Width /\ Width \in Nat
  BY PowerFacts, PositionFacts
<1>2. CASE ~Selected(i, P)
  BY <1>2, BitAdded DEF Flip, Index, Xor
<1>3. CASE Selected(i, P)
  <2> DEFINE q == i \div P
             r == i % P
             j == i - P
  <2>1. q \in Nat /\ r \in Nat /\ r < P /\ i = P * q + r
    BY <1>1, Quotients
  <2>2. q % 2 = 1
    BY <1>3 DEF Selected
  <2> HIDE DEF P, q, r
  <2>3. q - 1 \in Nat /\ (q - 1) % 2 # 1
    BY <2>1, <2>2
  <2>4. j = P * (q - 1) + r
    BY <1>1, <2>1, <2>3
  <2>5. P * (q - 1) \in Nat
    BY <1>1, <2>3
  <2>6. j \in Nat /\ j < Width /\ j + P = i
    BY <1>1, <2>1, <2>4, <2>5
  <2>7. j \div P = q - 1
    <3>1. q - 1 \in Int /\ r \in Int /\ 0 <= r
      BY <2>1
    <3> HIDE DEF j
    <3> QED
      BY <1>1, <2>1, <2>4, <3>1, DivModIs
  <2>8. j \in Positions /\ ~Selected(j, P)
    <3>1. ~Selected(j, P)
      BY <2>3, <2>7 DEF Selected
    <3> QED
      BY <1>1, <2>6, <3>1 DEF Positions
  <2> HIDE DEF j
  <2>9. \A l \in 0 .. LogWidth - 1 :
          Selected(i, Power[l]) <=> (l = k \/ Selected(j, Power[l]))
    BY <2>6, <2>8, BitAdded DEF P
  <2>10. Flip(i, k) = j
    BY <1>3 DEF Flip, j, P
  <2>11. Index(j) = Index(i) \ {k} /\ k \in Index(i)
    BY <2>8, <2>9, <1>3 DEF Index, P
  <2> QED
    BY <1>3, <2>8, <2>10, <2>11 DEF Xor, P
<1> QED
  BY <1>2, <1>3

LEMMA ExchangedFlips ==
  ASSUME NEW w \in BitSets, NEW k \in 0 .. LogWidth - 1
  PROVE  Exchanged(w, Power[k]) = {i \in Positions : Flip(i, k) \in w}
<1> DEFINE P == Power[k]
           low == {i \in Positions : (i \div P) % 2 = 0}
<1>1. k \in 0 .. LogWidth /\ P \in Nat \ {0}
  BY PowerFacts
<1>2. \A i \in Positions : i \in Nat /\ (i \in low <=> ~Selected(i, P))
  <2> SUFFICES ASSUME NEW i \in Positions PROVE i \in Nat /\ (i \in low <=> ~Selected(i, P))
    OBVIOUS
  <2>1. i \in Nat /\ i \div P \in Nat
    BY <1>1, PositionFacts, Quotients
  <2> HIDE DEF P
  <2>2. (i \div P) % 2 = 0 <=> ~((i \div P) % 2 = 1)
    BY <2>1
  <2> QED
    BY <2>1, <2>2 DEF Selected
<1>3. w \subseteq Positions
  BY DEF BitSets
<1>4. Exchanged(w, P) = ShiftLeft(w \cap low, P) \cup ShiftRight(w \ low, P)
  BY DEF Exchanged
<1> HIDE DEF low
<1>5. ASSUME NEW i \in Positions, Flip(i, k) \in w PROVE i \in Exchanged(w, P)
  <2>1. /\ Flip(i, k) \in Positions
        /\ Selected(Flip(i, k), P) <=> ~Selected(i, P)
    BY BitFlipped
  <2>2. CASE Selected(i, P)
    <3>1. i - P \in w \cap low /\ i = (i - P) + P
      BY <1>1, <1>2, <1>5, <2>1, <2>2 DEF Flip
    <3> QED
      BY <1>4, <3>1 DEF ShiftLeft
  <2>3. CASE ~Selected(i, P)
    <3>1. i + P \in w \ low /\ i = (i + P) - P
      BY <1>1, <1>2, <1>5, <2>1, <2>3 DEF Flip
    <3> QED
      BY <1>4, <3>1 DEF ShiftRight
  <2> QED
    BY <2>2, <2>3
<1>6. ASSUME NEW i \in Exchanged(w, P) PROVE i \in Positions /\ Flip(i, k) \in w
  <2>1. i \in Positions
    BY <1>4 DEF ShiftLeft, ShiftRight
  <2>2. CASE i \in ShiftLeft(w \cap low, P)
    <3>1. PICK j \in w \cap low : i = j + P
      BY <2>2 DEF ShiftLeft
    <3>2. j \in Positions /\ ~Selected(j, P) /\ j \in Nat
      BY <1>2, <1>3, <3>1
    <3>3. Flip(j, k) = i
      BY <3>1, <3>2 DEF Flip
    <3>4. Selected(i, P)
      BY <3>2, <3>3, BitFlipped
    <3>5. i - P = j
      BY <1>1, <3>1, <3>2
    <3> QED
      BY <2>1, <3>1, <3>4, <3>5 DEF Flip
  <2>3. CASE i \in ShiftRight(w \ low, P)
    <3>1. PICK j \in w \ low : i = j - P
      BY <2>3 DEF ShiftRight
    <3>2. j \in Positions /\ Selected(j, P) /\ j \in Nat
      BY <1>2, <1>3, <3>1
    <3>3. Flip(j, k) = i
      BY <3>1, <3>2 DEF Flip
    <3>4. ~Selected(i, P)
      BY <3>2, <3>3, BitFlipped
    <3>5. i + P = j
      BY <1>1, <3>1, <3>2
    <3> QED
      BY <2>1, <3>1, <3>4, <3>5 DEF Flip
  <2> QED
    BY <1>4, <2>2, <2>3
<1> QED
  BY <1>5, <1>6

(***************************************************************************)
(* Permutations by pairs.                                                  *)
(***************************************************************************)
LEMMA XorBit ==
  ASSUME NEW A, NEW B, NEW S, NEW b, b \notin S
  PROVE  /\ Xor(Xor(A, {b}), B) = S <=> Xor(A, B) = S \cup {b}
         /\ (Xor(A, B) \subseteq S \/ Xor(Xor(A, {b}), B) \subseteq S) <=> Xor(A, B) \subseteq S \cup {b}
<1>1. \A x : x \in Xor(Xor(A, {b}), B) <=> IF x = b THEN ~(x \in Xor(A, B)) ELSE x \in Xor(A, B)
  BY DEF Xor
<1> DEFINE X == Xor(A, B)
           Y == Xor(Xor(A, {b}), B)
<1>2. \A x : x \in Y <=> IF x = b THEN ~(x \in X) ELSE x \in X
  BY <1>1
<1> HIDE DEF X, Y
<1>3. ASSUME Y = S PROVE X = S \cup {b}
  BY <1>2, <1>3
<1>4. ASSUME X = S \cup {b} PROVE Y = S
  BY <1>2, <1>4
<1>5. ASSUME X \subseteq S \/ Y \subseteq S PROVE X \subseteq S \cup {b}
  BY <1>2, <1>5
<1>6. ASSUME X \subseteq S \cup {b} PROVE X \subseteq S \/ Y \subseteq S
  BY <1>2, <1>6
<1> QED
  BY <1>3, <1>4, <1>5, <1>6 DEF X, Y

(* What the first k bits of a shift amount select                          *)
FirstBits(shamt, k) == Index(shamt) \cap 0 .. k - 1

LEMMA FirstBitsGrow ==
  ASSUME NEW shamt, NEW k \in 1 .. LogWidth
  PROVE  /\ Rising[k] = Power[k - 1] /\ k - 1 \in 0 .. LogWidth - 1
         /\ k - 1 \notin FirstBits(shamt, k - 1)
         /\ FirstBits(shamt, k) = IF Selected(shamt, Power[k - 1])
                                  THEN FirstBits(shamt, k - 1) \cup {k - 1}
                                  ELSE FirstBits(shamt, k - 1)
         /\ FirstBits(shamt, 0) = {} /\ FirstBits(shamt, LogWidth) = Index(shamt)
<1>1. LogWidth \in Nat /\ k - 1 \in 0 .. LogWidth - 1
  BY PowerFacts
<1>2. k - 1 \in Index(shamt) <=> Selected(shamt, Power[k - 1])
  BY <1>1 DEF Index
<1>3. Index(shamt) \subseteq 0 .. LogWidth - 1
  BY DEF Index
<1> HIDE DEF Index
<1>4. FirstBits(shamt, k) = IF k - 1 \in Index(shamt)
                            THEN FirstBits(shamt, k - 1) \cup {k - 1} ELSE FirstBits(shamt, k - 1)
  BY <1>1, <1>3 DEF FirstBits
<1>5. FirstBits(shamt, 0) = {} /\ FirstBits(shamt, LogWidth) = Index(shamt)
  BY <1>1, <1>3 DEF FirstBits
<1> QED
  BY <1>1, <1>2, <1>4, <1>5 DEF FirstBits, Rising

(* After k steps the bits come from where the first k bits of the shift    *)
(* amount say.                                                             *)
LEMMA GrevExact ==
  ASSUME NEW v \in BitSets, NEW shamt \in Positions
  PROVE  grev(v, shamt) = {i \in Positions : \E j \in v : Xor(Index(i), Index(j)) = Index(shamt)}
<1> DEFINE Is(S) == {i \in Positions : \E j \in v : Xor(Index(i), Index(j)) = S}
           step == [k \in 1 .. LogWidth |-> [w \in BitSets |->
                      IF Selected(shamt, Rising[k]) THEN Exchanged(w, Rising[k]) ELSE w]]
           K == {p \in (0 .. LogWidth) \X BitSets : p[2] = Is(FirstBits(shamt, p[1]))}
<1>1. LogWidth \in Nat /\ LogWidth \in 1 .. LogWidth
  BY PowerFacts
<1>2. <<0, v>> \in K
  <2>1. Is({}) = v
    <3>1. \A i \in Positions, j \in v : Xor(Index(i), Index(j)) = {} <=> i = j
      <4> SUFFICES ASSUME NEW i \in Positions, NEW j \in v
                   PROVE  Xor(Index(i), Index(j)) = {} <=> i = j
        OBVIOUS
      <4>1. Xor(Index(i), Index(j)) = {} <=> Index(i) = Index(j)
        BY DEF Xor
      <4>2. j \in Positions
        BY DEF BitSets
      <4> QED
        BY <4>1, <4>2, IndexInjective
    <3>2. v \subseteq Positions
      BY DEF BitSets
    <3> QED
      BY <3>1, <3>2
  <2>2. FirstBits(shamt, 0) = {}
    BY <1>1, FirstBitsGrow
  <2> HIDE DEF Is
  <2> QED
    BY <1>1, <2>1, <2>2
<1>3. ASSUME NEW k \in 1 .. LogWidth, NEW x, <<k - 1, x>> \in K
      PROVE  <<k, step[k][x]>> \in K
  <2> DEFINE S == FirstBits(shamt, k - 1)
  <2>1. x \in BitSets /\ x = Is(S)
    BY <1>3
  <2>2. Rising[k] = Power[k - 1] /\ k - 1 \in 0 .. LogWidth - 1 /\ k - 1 \notin S
    BY FirstBitsGrow
  <2>3. step[k][x] = IF Selected(shamt, Power[k - 1]) THEN Exchanged(x, Power[k - 1]) ELSE x
    BY <2>1, <2>2
  <2>4. Exchanged(x, Power[k - 1]) = Is(S \cup {k - 1})
    <3>1. Exchanged(x, Power[k - 1]) = {i \in Positions : Flip(i, k - 1) \in x}
      BY <2>1, <2>2, ExchangedFlips
    <3>2. ASSUME NEW i \in Positions
          PROVE  Flip(i, k - 1) \in x <=> \E j \in v : Xor(Index(i), Index(j)) = S \cup {k - 1}
      <4>1. Flip(i, k - 1) \in Positions /\ Index(Flip(i, k - 1)) = Xor(Index(i), {k - 1})
        BY <2>2, BitFlipped
      <4>2. Flip(i, k - 1) \in x <=> \E j \in v : Xor(Xor(Index(i), {k - 1}), Index(j)) = S
        BY <2>1, <4>1
      <4> HIDE DEF S
      <4> QED
        BY <2>2, <4>2, XorBit
    <3> HIDE DEF S
    <3> QED
      BY <3>1, <3>2
  <2>5. FirstBits(shamt, k) = IF Selected(shamt, Power[k - 1]) THEN S \cup {k - 1} ELSE S
    BY FirstBitsGrow
  <2>6. step[k][x] = Is(FirstBits(shamt, k))
    <3> HIDE DEF step, Is, S
    <3> QED
      BY <2>1, <2>3, <2>4, <2>5
  <2>7. Is(FirstBits(shamt, k)) \in BitSets
    BY DEF BitSets
  <2>8. k \in 0 .. LogWidth
    BY <1>1
  <2> HIDE DEF step, Is
  <2> QED
    BY <2>6, <2>7, <2>8
<1>4. <<LogWidth, Iterated(step, v, LogWidth)>> \in K
  <2> HIDE DEF K, step
  <2> QED
    BY <1>1, <1>2, <1>3, IteratedKeeps
<1>5. FirstBits(shamt, LogWidth) = Index(shamt)
  BY <1>1, FirstBitsGrow
<1>6. grev(v, shamt) = Iterated(step, v, LogWidth)
  BY DEF grev
<1> HIDE DEF step
<1> QED
  BY <1>4, <1>5, <1>6

LEMMA GorcExact ==
  ASSUME NEW v \in BitSets, NEW shamt \in Positions
  PROVE  gorc(v, shamt) =
           {i \in Positions : \E j \in v : Xor(Index(i), Index(j)) \subseteq Index(shamt)}
<1> DEFINE Is(S) == {i \in Positions : \E j \in v : Xor(Index(i), Index(j)) \subseteq S}
           step == [k \in 1 .. LogWidth |-> [w \in BitSets |->
                      IF Selected(shamt, Rising[k]) THEN w \cup Exchanged(w, Rising[k]) ELSE w]]
           K == {p \in (0 .. LogWidth) \X BitSets : p[2] = Is(FirstBits(shamt, p[1]))}
<1>1. LogWidth \in Nat /\ LogWidth \in 1 .. LogWidth
  BY PowerFacts
<1>2. <<0, v>> \in K
  <2>1. Is({}) = v
    <3>1. \A i \in Positions, j \in v : Xor(Index(i), Index(j)) \subseteq {} <=> i = j
      <4> SUFFICES ASSUME NEW i \in Positions, NEW j \in v
                   PROVE  Xor(Index(i), Index(j)) \subseteq {} <=> i = j
        OBVIOUS
      <4>1. Xor(Index(i), Index(j)) \subseteq {} <=> Index(i) = Index(j)
        BY DEF Xor
      <4>2. j \in Positions
        BY DEF BitSets
      <4> QED
        BY <4>1, <4>2, IndexInjective
    <3>2. v \subseteq Positions
      BY DEF BitSets
    <3> QED
      BY <3>1, <3>2
  <2>2. FirstBits(shamt, 0) = {}
    BY <1>1, FirstBitsGrow
  <2> HIDE DEF Is
  <2> QED
    BY <1>1, <2>1, <2>2
<1>3. ASSUME NEW k \in 1 .. LogWidth, NEW x, <<k - 1, x>> \in K
      PROVE  <<k, step[k][x]>> \in K
  <2> DEFINE S == FirstBits(shamt, k - 1)
  <2>1. x \in BitSets /\ x = Is(S)
    BY <1>3
  <2>2. Rising[k] = Power[k - 1] /\ k - 1 \in 0 .. LogWidth - 1 /\ k - 1 \notin S
    BY FirstBitsGrow
  <2>3. step[k][x] =
          IF Selected(shamt, Power[k - 1]) THEN x \cup Exchanged(x, Power[k - 1]) ELSE x
    BY <2>1, <2>2
  <2>4. x \cup Exchanged(x, Power[k - 1]) = Is(S \cup {k - 1})
    <3>1. Exchanged(x, Power[k - 1]) = {i \in Positions : Flip(i, k - 1) \in x}
      BY <2>1, <2>2, ExchangedFlips
    <3>2. ASSUME NEW i \in Positions
          PROVE  (i \in x \/ Flip(i, k - 1) \in x) <=>
                   \E j \in v : Xor(Index(i), Index(j)) \subseteq S \cup {k - 1}
      <4>1. Flip(i, k - 1) \in Positions /\ Index(Flip(i, k - 1)) = Xor(Index(i), {k - 1})
        BY <2>2, BitFlipped
      <4>2. Flip(i, k - 1) \in x <=> \E j \in v : Xor(Xor(Index(i), {k - 1}), Index(j)) \subseteq S
        BY <2>1, <4>1
      <4>3. i \in x <=> \E j \in v : Xor(Index(i), Index(j)) \subseteq S
        BY <2>1
      <4> HIDE DEF S
      <4> QED
        BY <2>2, <4>2, <4>3, XorBit
    <3>3. x \subseteq Positions
      BY <2>1 DEF BitSets
    <3> HIDE DEF S
    <3> QED
      BY <3>1, <3>2, <3>3
  <2>5. FirstBits(shamt, k) = IF Selected(shamt, Power[k - 1]) THEN S \cup {k - 1} ELSE S
    BY FirstBitsGrow
  <2>6. step[k][x] = Is(FirstBits(shamt, k))
    <3> HIDE DEF step, Is, S
    <3> QED
      BY <2>1, <2>3, <2>4, <2>5
  <2>7. Is(FirstBits(shamt, k)) \in BitSets
    BY DEF BitSets
  <2>8. k \in 0 .. LogWidth
    BY <1>1
  <2> HIDE DEF step, Is
  <2> QED
    BY <2>6, <2>7, <2>8
<1>4. <<LogWidth, Iterated(step, v, LogWidth)>> \in K
  <2> HIDE DEF K, step
  <2> QED
    BY <1>1, <1>2, <1>3, IteratedKeeps
<1>5. FirstBits(shamt, LogWidth) = Index(shamt)
  BY <1>1, FirstBitsGrow
<1>6. gorc(v, shamt) = Iterated(step, v, LogWidth)
  BY DEF gorc
<1> HIDE DEF step
<1> QED
  BY <1>4, <1>5, <1>6

(***************************************************************************)
(* Shuffles.                                                               *)
(***************************************************************************)

(* Where a step of shfl moves a bit                                        *)
Swapped(i, p) ==
  IF (i \div p) % 4 = 1 THEN i + p ELSE IF (i \div p) % 4 = 2 THEN i - p ELSE i

(* The quarter that each quarter is exchanged with                         *)
Opposite(b) == IF b = 1 THEN 2 ELSE IF b = 2 THEN 1 ELSE b

(* Position r of quarter b of field h                                      *)
InQuarter(p, h, b, r) == p * (4 * h + b) + r

LEMMA SwappedIs ==
  ASSUME NEW p \in Nat \ {0}, NEW h \in Nat, NEW b \in 0 .. 3, NEW r \in Nat, r < p
  PROVE  Swapped(InQuarter(p, h, b, r), p) = InQuarter(p, h, Opposite(b), r)
<1> DEFINE i == InQuarter(p, h, b, r)
<1>1. i \div p = 4 * h + b
  <2>1. 4 * h + b \in Int /\ r \in Int /\ 0 <= r
    OBVIOUS
  <2> QED
    BY <2>1, DivModIs DEF InQuarter
<1>2. (4 * h + b) % 4 = b
  OBVIOUS
<1>3. (i \div p) % 4 = b
  BY <1>1, <1>2
<1>4. b = 1 => i + p = p * (4 * h + 2) + r
  BY DEF InQuarter
<1>5. b = 2 => i - p = p * (4 * h + 1) + r
  BY DEF InQuarter
<1>6. Swapped(i, p) = IF b = 1 THEN i + p ELSE IF b = 2 THEN i - p ELSE i
  BY <1>3 DEF Swapped
<1> QED
  BY <1>4, <1>5, <1>6 DEF Opposite, InQuarter

(* A step is its own inverse.                                              *)
LEMMA SwappedTwice ==
  ASSUME NEW p \in Nat \ {0}, NEW c \in Nat \ {0}, Width = p * (4 * c), NEW i \in Positions
  PROVE  Swapped(i, p) \in Positions /\ Swapped(Swapped(i, p), p) = i
<1>1. i \in Nat /\ i < Width /\ Width \in Nat
  BY PositionFacts, PowerFacts
<1>2. PICK q \in Nat, r \in Nat : r < p /\ i = p * q + r
  BY <1>1, Quotients
<1>3. PICK h \in Nat, b \in 0 .. 3 : q = 4 * h + b
  <2>1. q \div 4 \in Nat /\ q % 4 \in 0 .. 3 /\ q = 4 * (q \div 4) + (q % 4)
    OBVIOUS
  <2> QED
    BY <2>1
<1>4. PICK s \in 0 .. 3 : s = Opposite(b) /\ b = Opposite(s)
  BY DEF Opposite
<1>5. i = InQuarter(p, h, b, r)
  BY <1>2, <1>3 DEF InQuarter
<1>6. PICK j : j = InQuarter(p, h, s, r)
  OBVIOUS
<1>7. /\ Swapped(InQuarter(p, h, b, r), p) = InQuarter(p, h, Opposite(b), r)
      /\ Swapped(InQuarter(p, h, s, r), p) = InQuarter(p, h, Opposite(s), r)
  BY <1>2, SwappedIs, Zenon
<1>8. Swapped(i, p) = j /\ Swapped(j, p) = i
  BY <1>4, <1>5, <1>6, <1>7
<1>9. h <= c - 1
  <2>1. SUFFICES ASSUME h >= c PROVE FALSE
    OBVIOUS
  <2>2. p * (4 * h) >= p * (4 * c)
    BY <2>1
  <2>3. p * (4 * h + b) = p * (4 * h) + p * b /\ p * b >= 0
    OBVIOUS
  <2> QED
    BY <1>1, <1>2, <1>5, <2>2, <2>3 DEF InQuarter
<1>10. j \in Positions
  <2>1. p * (4 * h + s) \in Nat /\ p * (4 * h + s) <= p * (4 * c - 1)
    BY <1>9, ProductSign
  <2>2. p * (4 * c - 1) = p * (4 * c) - p
    OBVIOUS
  <2>3. j \in Nat /\ j < Width
    BY <1>1, <1>2, <1>6, <2>1, <2>2 DEF InQuarter
  <2> QED
    BY <1>1, <2>3 DEF Positions
<1> QED
  BY <1>8, <1>10

LEMMA ShuffledSwaps ==
  ASSUME NEW p \in Nat \ {0}, NEW c \in Nat \ {0}, Width = p * (4 * c), NEW w \in BitSets
  PROVE  /\ Shuffled(w, p) = {Swapped(i, p) : i \in w}
         /\ Shuffled(w, p) \in BitSets
         /\ Shuffled(Shuffled(w, p), p) = w
<1>1. ASSUME NEW u \in BitSets
      PROVE  Shuffled(u, p) = {Swapped(i, p) : i \in u} /\ Shuffled(u, p) \in BitSets
  <2> DEFINE quarter(q) == {i \in u : (i \div p) % 4 = q}
  <2>1. \A i \in u : i \in Positions /\ i \in Nat /\ Swapped(i, p) \in Positions
    BY PositionFacts, SwappedTwice DEF BitSets
  <2>2. Shuffled(u, p) = quarter(0) \cup ShiftLeft(quarter(1), p)
                           \cup ShiftRight(quarter(2), p) \cup quarter(3)
    BY DEF Shuffled
  <2>3. \A i \in u : i \in quarter(0) \/ i \in quarter(1) \/ i \in quarter(2) \/ i \in quarter(3)
    <3> SUFFICES ASSUME NEW i \in u PROVE (i \div p) % 4 \in {0, 1, 2, 3}
      OBVIOUS
    <3>1. i \div p \in Nat
      BY <2>1, Quotients
    <3> QED
      BY <3>1
  <2>4. /\ \A i \in quarter(0) \cup quarter(3) : Swapped(i, p) = i
        /\ \A i \in quarter(1) : Swapped(i, p) = i + p
        /\ \A i \in quarter(2) : Swapped(i, p) = i - p
    BY DEF Swapped
  <2>5. \A q : quarter(q) \subseteq u
    OBVIOUS
  <2> HIDE DEF quarter
  <2>6. ShiftLeft(quarter(1), p) = {Swapped(i, p) : i \in quarter(1)}
    BY <2>1, <2>4, <2>5 DEF ShiftLeft
  <2>7. ShiftRight(quarter(2), p) = {Swapped(i, p) : i \in quarter(2)}
    BY <2>1, <2>4, <2>5 DEF ShiftRight
  <2>8. quarter(0) = {Swapped(i, p) : i \in quarter(0)} /\ quarter(3) = {Swapped(i, p) : i \in quarter(3)}
    BY <2>4
  <2>9. Shuffled(u, p) = {Swapped(i, p) : i \in u}
    BY <2>2, <2>3, <2>5, <2>6, <2>7, <2>8
  <2> QED
    BY <2>1, <2>9 DEF BitSets
<1>2. Shuffled(Shuffled(w, p), p) = {Swapped(Swapped(i, p), p) : i \in w}
  <2>1. Shuffled(w, p) = {Swapped(i, p) : i \in w} /\ Shuffled(w, p) \in BitSets
    BY <1>1
  <2>2. Shuffled(Shuffled(w, p), p) = {Swapped(i, p) : i \in Shuffled(w, p)}
    BY <1>1, <2>1
  <2> QED
    BY <2>1, <2>2
<1>3. \A i \in w : Swapped(Swapped(i, p), p) = i
  BY SwappedTwice DEF BitSets
<1> QED
  BY <1>1, <1>2, <1>3

(* Which steps are taken at all: those of fields with four quarters        *)
LEMMA FourQuarters ==
  ASSUME NEW l \in 0 .. LogWidth - 1
  PROVE  /\ 2 * Power[l] < Width <=> l # LogWidth - 1
         /\ 2 * Power[l] < Width => \E c \in Nat \ {0} : Width = Power[l] * (4 * c)
<1>1. LogWidth \in Nat /\ l + 1 \in 1 .. LogWidth /\ l + 1 \in 0 .. LogWidth
      /\ LogWidth \in 0 .. LogWidth /\ l \in 0 .. LogWidth /\ (l + 1) - 1 = l
  BY PowerFacts
<1>2. Power[l + 1] = 2 * Power[l] /\ Power[l] \in Nat \ {0}
  BY <1>1, PowerFacts
<1>3. CASE l = LogWidth - 1
  BY <1>1, <1>2, <1>3 DEF Width
<1>4. CASE l # LogWidth - 1
  <2>1. l + 1 < LogWidth
    BY <1>1, <1>4
  <2>2. PICK c \in Nat \ {0} : Power[LogWidth] = Power[l + 1] * (2 * c)
    BY <1>1, <2>1, PowersDivide
  <2>3. Width = Power[l] * (4 * c)
    BY <1>2, <2>2 DEF Width
  <2>4. Power[l] * (4 * c) >= Power[l] * 4
    BY <1>2, <2>2
  <2> QED
    BY <1>2, <1>4, <2>3, <2>4
<1> QED
  BY <1>3, <1>4

(* The steps of unshfl take back those of shfl, the last first.            *)
LEMMA UnshuffleExact ==
  ASSUME NEW v \in BitSets, NEW shamt
  PROVE  shfl(v, shamt) \in BitSets /\ unshfl(shfl(v, shamt), shamt) = v
<1> DEFINE F(p) == [w \in BitSets |->
                      IF 2 * p < Width /\ Selected(shamt, p) THEN Shuffled(w, p) ELSE w]
           falling == [k \in 1 .. LogWidth |-> F(Falling[k])]
           rising == [k \in 1 .. LogWidth |-> F(Rising[k])]
           n == LogWidth
<1>1. n \in Nat
  BY PowerFacts
<1>2. ASSUME NEW l \in 0 .. LogWidth - 1, NEW w \in BitSets
      PROVE  F(Power[l])[w] \in BitSets /\ F(Power[l])[F(Power[l])[w]] = w
  <2> DEFINE taken == 2 * Power[l] < Width /\ Selected(shamt, Power[l])
             p == Power[l]
  <2>1. \A u \in BitSets : F(p)[u] = IF taken THEN Shuffled(u, p) ELSE u
    OBVIOUS
  <2>2. CASE ~taken
    BY <2>1, <2>2
  <2>3. CASE taken
    <3>1. p \in Nat \ {0}
      BY <1>1, PowerFacts
    <3>2. PICK c \in Nat \ {0} : Width = p * (4 * c)
      BY <2>3, FourQuarters
    <3>3. Shuffled(w, p) \in BitSets /\ Shuffled(Shuffled(w, p), p) = w
      BY <3>1, <3>2, ShuffledSwaps
    <3> HIDE DEF taken, p, F
    <3> QED
      BY <2>1, <2>3, <3>3 DEF p
  <2> QED
    BY <2>2, <2>3
<1>3. \A k \in 1 .. n : /\ falling[k] = F(Power[n - k]) /\ n - k \in 0 .. n - 1
                        /\ rising[k] = F(Power[k - 1]) /\ k - 1 \in 0 .. n - 1
  BY <1>1 DEF Falling, Rising
<1> HIDE DEF F, falling, rising
<1>4. PICK f : States(f, falling, v, n) /\ Iterated(falling, v, n) = f[n]
  BY <1>1, IteratedIs
<1>5. \A k \in 0 .. n : f[k] \in BitSets
  <2> DEFINE K == (0 .. n) \X BitSets
  <2>1. <<0, v>> \in K
    BY <1>1
  <2>2. ASSUME NEW k \in 1 .. n, NEW x, <<k - 1, x>> \in K
        PROVE  <<k, falling[k][x]>> \in K
    <3>1. falling[k][x] \in BitSets
      BY <1>2, <1>3, <2>2
    <3> QED
      BY <3>1
  <2>3. \A k \in 0 .. n : <<k, f[k]>> \in K
    <3> HIDE DEF K
    <3> QED
      BY <1>1, <1>4, <2>1, <2>2, StatesKeep
  <2> QED
    BY <2>3
<1>6. <<n, Iterated(rising, f[n], n)>> \in {p \in (0 .. n) \X BitSets : p[2] = f[n - p[1]]}
  <2> DEFINE K == {p \in (0 .. n) \X BitSets : p[2] = f[n - p[1]]}
  <2>1. <<0, f[n]>> \in K
    BY <1>1, <1>5
  <2>2. ASSUME NEW k \in 1 .. n, NEW x, <<k - 1, x>> \in K
        PROVE  <<k, rising[k][x]>> \in K
    <3> DEFINE m == n - k
    <3>1. m \in 0 .. n /\ m + 1 \in 1 .. n /\ n - (k - 1) = m + 1 /\ (m + 1) - 1 = m
          /\ n - (m + 1) = k - 1 /\ m + 1 # 0 /\ m + 1 \in 0 .. n
      BY <1>1
    <3>2. x = f[m + 1]
      BY <2>2, <3>1
    <3>3. f[m + 1] = falling[m + 1][f[m]]
      BY <1>4, <3>1 DEF States
    <3>4. f[m + 1] = F(Power[k - 1])[f[m]]
      <4>1. falling[m + 1] = F(Power[n - (m + 1)])
        BY <1>3, <3>1
      <4> QED
        BY <3>1, <3>3, <4>1
    <3>5. rising[k] = F(Power[k - 1]) /\ k - 1 \in 0 .. LogWidth - 1
      BY <1>3
    <3>6. f[m] \in BitSets
      BY <1>5, <3>1
    <3>7. rising[k][x] = f[m]
      BY <1>2, <3>2, <3>4, <3>5, <3>6
    <3>8. k \in 0 .. n
      BY <1>1
    <3> QED
      BY <3>6, <3>7, <3>8
  <2> HIDE DEF K
  <2>3. <<n, Iterated(rising, f[n], n)>> \in K
    BY <1>1, <2>1, <2>2, IteratedKeeps
  <2> QED
    BY <2>3 DEF K
<1>7. f[n - n] = v /\ f[n] \in BitSets
  <2>1. n - n = 0 /\ 0 \in 0 .. n /\ n \in 0 .. n
    BY <1>1
  <2>2. f[0] = v
    BY <1>4, <2>1 DEF States
  <2> QED
    BY <1>5, <2>1, <2>2
<1>8. shfl(v, shamt) = Iterated(falling, v, n)
  BY DEF shfl, Shuffles, falling, F
<1>9. unshfl(f[n], shamt) = Iterated(rising, f[n], n)
  BY DEF unshfl, Shuffles, rising, F
<1> QED
  BY <1>4, <1>6, <1>7, <1>8, <1>9

(* Where a position is when its highest bit has come down to p             *)
Interleaved(i, p) ==
  LET half == Width \div 2
      low == i % half
  IN (low \div p) * (2 * p) + (i \div half) * p + (low % p)

LEMMA HalfWidth ==
  /\ Width \div 2 = Power[LogWidth - 1] /\ Power[LogWidth - 1] \in Nat \ {0}
  /\ Width = 2 * Power[LogWidth - 1] /\ LogWidth - 1 \in 0 .. LogWidth
<1>1. LogWidth - 1 \in 0 .. LogWidth
  BY PowerFacts
<1>2. Power[LogWidth - 1] \in Nat \ {0} /\ Width = 2 * Power[LogWidth - 1]
  BY <1>1, PowerFacts
<1> QED
  BY <1>1, <1>2

LEMMA PositionHalves ==
  ASSUME NEW i \in Positions
  PROVE  \E h \in 0 .. 1, m \in Nat :
           /\ m < Power[LogWidth - 1] /\ i = Power[LogWidth - 1] * h + m
           /\ i \div (Width \div 2) = h /\ i % (Width \div 2) = m
<1> DEFINE H == Power[LogWidth - 1]
           h == i \div H
           m == i % H
<1>1. H \in Nat \ {0} /\ Width = 2 * H /\ Width \div 2 = H /\ i \in Nat /\ i < Width
  BY HalfWidth, PositionFacts
<1>2. h \in Nat /\ m \in Nat /\ m < H /\ i = H * h + m
  BY <1>1, Quotients
<1> HIDE DEF H
<1>3. h \in 0 .. 1
  <2>1. SUFFICES ASSUME h >= 2 PROVE FALSE
    BY <1>2
  <2> HIDE DEF h, m
  <2>2. H * h >= H * 2
    BY <1>1, <1>2, <2>1
  <2> QED
    BY <1>1, <1>2, <2>2
<1> QED
  BY <1>1, <1>2, <1>3 DEF H

(* A step moves that bit down by one.                                      *)
LEMMA InterleavedStep ==
  ASSUME NEW p \in Nat \ {0}, NEW i \in Positions
  PROVE  Swapped(Interleaved(i, 2 * p), p) = Interleaved(i, p)
<1>1. PICK h \in 0 .. 1, m \in Nat : i \div (Width \div 2) = h /\ i % (Width \div 2) = m
  BY PositionHalves
<1>2. PICK q \in Nat, c \in Nat : c < p /\ m = p * q + c /\ m \div p = q /\ m % p = c
  BY <1>1, Quotients
<1>3. PICK a \in Nat, b \in 0 .. 1 : q = 2 * a + b
  <2>1. q \div 2 \in Nat /\ q % 2 \in 0 .. 1 /\ q = 2 * (q \div 2) + (q % 2)
    OBVIOUS
  <2> QED
    BY <2>1
<1>4. m \div (2 * p) = a /\ m % (2 * p) = p * b + c
  <2>1. p * q = (2 * p) * a + p * b
    BY <1>3
  <2>2. p * b \in Nat /\ p * b + c < 2 * p
    BY <1>2
  <2> DEFINE f == 2 * p
             e == p * b + c
  <2>3. m = f * a + e /\ f \in Nat \ {0} /\ e \in Int /\ 0 <= e /\ e < f /\ a \in Int
    BY <1>2, <2>1, <2>2
  <2> HIDE DEF f, e
  <2>4. m \div f = a /\ m % f = e
    BY <2>3, DivModIs
  <2> QED
    BY <2>4 DEF f, e
<1>5. Interleaved(i, 2 * p) = InQuarter(p, a, 2 * h + b, c)
  <2>1. Interleaved(i, 2 * p) = a * (2 * (2 * p)) + h * (2 * p) + (p * b + c)
    BY <1>1, <1>4 DEF Interleaved
  <2> QED
    BY <2>1 DEF InQuarter
<1>6. Interleaved(i, p) = InQuarter(p, a, 2 * b + h, c)
  <2>1. Interleaved(i, p) = (2 * a + b) * (2 * p) + h * p + c
    BY <1>1, <1>2, <1>3 DEF Interleaved
  <2> QED
    BY <2>1 DEF InQuarter
<1>7. 2 * h + b \in 0 .. 3 /\ Opposite(2 * h + b) = 2 * b + h
  BY DEF Opposite
<1>8. Swapped(InQuarter(p, a, 2 * h + b, c), p) = InQuarter(p, a, Opposite(2 * h + b), c)
  BY <1>2, <1>7, SwappedIs, Zenon
<1> QED
  BY <1>5, <1>6, <1>7, <1>8

(* With all steps taken, shfl deals the two halves out in turn.            *)
LEMMA ShuffleExact ==
  ASSUME NEW v \in BitSets
  PROVE  shfl(v, Width \div 2 - 1) =
           {((2 * i) % Width) + (i \div (Width \div 2)) : i \in v}
<1> DEFINE n == LogWidth
           shamt == Width \div 2 - 1
           Is(k) == IF k = 0 THEN v ELSE {Interleaved(i, Power[n - k]) : i \in v}
           step == [k \in 1 .. LogWidth |-> [w \in BitSets |->
                      IF 2 * Falling[k] < Width /\ Selected(shamt, Falling[k])
                      THEN Shuffled(w, Falling[k]) ELSE w]]
           K == {s \in (0 .. n) \X BitSets : s[2] = Is(s[1])}
<1>1. n \in Nat /\ n >= 1
  BY PowerFacts
<1>2. v \subseteq Positions
  BY DEF BitSets
<1>3. ASSUME NEW l \in 0 .. n - 2 PROVE Selected(shamt, Power[l])
  <2>1. l \in 0 .. n /\ n - 1 \in 0 .. n /\ l < n - 1
    BY <1>1
  <2> DEFINE p == Power[l]
  <2>2. PICK c \in Nat \ {0} : Power[n - 1] = p * (2 * c)
    BY <2>1, PowersDivide
  <2>3. p \in Nat \ {0}
    BY <2>1, PowerFacts
  <2>4. shamt = Power[n - 1] - 1
    BY HalfWidth
  <2> HIDE DEF p, shamt
  <2>5. shamt = p * (2 * c - 1) + (p - 1)
    BY <2>2, <2>3, <2>4
  <2>6. 2 * c - 1 \in Int /\ p - 1 \in Int /\ 0 <= p - 1 /\ p - 1 < p
    BY <2>3
  <2>7. shamt \div p = 2 * c - 1
    BY <2>3, <2>5, <2>6, DivModIs
  <2>8. (2 * c - 1) % 2 = 1
    OBVIOUS
  <2> QED
    BY <2>7, <2>8 DEF Selected, p
<1>4. <<0, v>> \in K
  BY <1>1
<1>5. ASSUME NEW k \in 1 .. n, NEW x, <<k - 1, x>> \in K
      PROVE  <<k, step[k][x]>> \in K
  <2> DEFINE p == Power[n - k]
  <2>1. x \in BitSets /\ x = Is(k - 1) /\ k \in 0 .. n /\ k # 0 /\ n - k \in 0 .. n - 1 /\ n - k \in 0 .. n
    BY <1>1, <1>5
  <2>2. Falling[k] = p /\ p \in Nat \ {0}
    BY <1>1, <2>1, PowerFacts DEF Falling
  <2>3. step[k][x] = IF 2 * p < Width /\ Selected(shamt, p) THEN Shuffled(x, p) ELSE x
    BY <2>1, <2>2
  <2>4. CASE k = 1
    <3>1. ~(2 * p < Width)
      BY <2>1, <2>4, FourQuarters
    <3>2. Is(k - 1) = v
      BY <2>4
    <3>3. Is(k) = v
      <4>1. \A i \in v : Interleaved(i, p) = i
        <5> SUFFICES ASSUME NEW i \in v PROVE Interleaved(i, p) = i
          OBVIOUS
        <5>1. PICK h \in 0 .. 1, m \in Nat :
                /\ m < p /\ i = p * h + m
                /\ i \div (Width \div 2) = h /\ i % (Width \div 2) = m
          BY <1>2, <2>4, PositionHalves
        <5>2. m \div p = 0 /\ m % p = m
          <6>1. m = p * 0 + m
            BY <2>2
          <6> QED
            BY <2>2, <5>1, <6>1, DivModIs
        <5>3. Interleaved(i, p) = 0 * (2 * p) + h * p + m
          BY <5>1, <5>2 DEF Interleaved
        <5> HIDE DEF p
        <5> QED
          BY <2>2, <5>1, <5>3
      <4>2. Is(k) = {Interleaved(i, p) : i \in v}
        BY <2>1
      <4> HIDE DEF Is, p
      <4> QED
        BY <4>1, <4>2
    <3> HIDE DEF step, Is, p
    <3> QED
      BY <2>1, <2>3, <3>1, <3>2, <3>3
  <2>5. CASE k # 1
    <3>1. n - k \in 0 .. n - 2 /\ n - k # n - 1 /\ k - 1 # 0
          /\ n - (k - 1) \in 1 .. n /\ n - (k - 1) - 1 = n - k
      BY <1>1, <2>1, <2>5
    <3>2. Selected(shamt, p)
      BY <1>3, <3>1
    <3>3. 2 * p < Width /\ \E c \in Nat \ {0} : Width = p * (4 * c)
      BY <2>1, <3>1, FourQuarters
    <3>4. Power[n - (k - 1)] = 2 * p
      BY <3>1, PowerFacts
    <3>5. x = {Interleaved(i, 2 * p) : i \in v}
      BY <2>1, <3>1, <3>4
    <3>6. Shuffled(x, p) = {Swapped(y, p) : y \in x} /\ Shuffled(x, p) \in BitSets
      BY <2>1, <2>2, <3>3, ShuffledSwaps
    <3>7. \A i \in v : Swapped(Interleaved(i, 2 * p), p) = Interleaved(i, p)
      BY <1>2, <2>2, InterleavedStep
    <3>8. Is(k) = {Interleaved(i, p) : i \in v}
      BY <2>1
    <3>9. step[k][x] = Shuffled(x, p)
      BY <2>3, <3>2, <3>3
    <3> HIDE DEF step, Is, p
    <3>10. Shuffled(x, p) = Is(k)
      BY <3>5, <3>6, <3>7, <3>8
    <3> QED
      BY <2>1, <3>6, <3>9, <3>10
  <2> QED
    BY <2>4, <2>5
<1>6. <<n, Iterated(step, v, n)>> \in K
  <2> HIDE DEF K, step
  <2> QED
    BY <1>1, <1>4, <1>5, IteratedKeeps
<1>7. shfl(v, shamt) = Iterated(step, v, n)
  BY DEF shfl, Shuffles
<1>8. Is(n) = {Interleaved(i, 1) : i \in v}
  <2>1. n # 0 /\ n - n = 0 /\ Power[0] = 1
    BY <1>1, PowerFacts
  <2> QED
    BY <2>1
<1>9. \A i \in v : Interleaved(i, 1) = ((2 * i) % Width) + (i \div (Width \div 2))
  <2> SUFFICES ASSUME NEW i \in v
               PROVE  Interleaved(i, 1) = ((2 * i) % Width) + (i \div (Width \div 2))
    OBVIOUS
  <2> DEFINE H == Power[n - 1]
  <2>1. PICK h \in 0 .. 1, m \in Nat :
          /\ m < H /\ i = H * h + m
          /\ i \div (Width \div 2) = h /\ i % (Width \div 2) = m
    BY <1>2, PositionHalves
  <2>2. H \in Nat \ {0} /\ Width = 2 * H /\ Width \in Nat \ {0}
    BY HalfWidth, PowerFacts
  <2> HIDE DEF H
  <2>3. 2 * i = Width * h + 2 * m /\ 0 <= 2 * m /\ 2 * m < Width /\ h \in Int /\ 2 * m \in Int
    BY <2>1, <2>2
  <2>4. (2 * i) % Width = 2 * m
    BY <2>2, <2>3, DivModIs
  <2>5. m \div 1 = m /\ m % 1 = 0
    OBVIOUS
  <2>6. Interleaved(i, 1) = m * (2 * 1) + h * 1 + 0
    BY <2>1, <2>5 DEF Interleaved
  <2> QED
    BY <2>1, <2>4, <2>6
<1> HIDE DEF step, Is
<1> QED
  BY <1>6, <1>7, <1>8, <1>9

(***************************************************************************)
(* Rotations.                                                              *)
(***************************************************************************)

(* Remainders one modulus away                                             *)
LEMMA NearRemainders ==
  ASSUME NEW w \in Nat \ {0}, NEW x \in Int
  PROVE  /\ 0 <= x /\ x < w => x % w = x
         /\ w <= x /\ x < 2 * w => x % w = x - w
         /\ -w <= x /\ x < 0 => x % w = x + w
<1>1. x = w * 0 + x /\ x = w * 1 + (x - w) /\ x = w * (-1) + (x + w)
  OBVIOUS
<1>2. 0 <= x /\ x < w => x % w = x
  BY <1>1, DivModIs
<1>3. w <= x /\ x < 2 * w => x % w = x - w
  BY <1>1, DivModIs
<1>4. -w <= x /\ x < 0 => x % w = x + w
  <2>1. -1 \in Int /\ x + w \in Int
    OBVIOUS
  <2> QED
    BY <1>1, <2>1, DivModIs
<1> QED
  BY <1>2, <1>3, <1>4

LEMMA ComplementIs ==
  ASSUME NEW k \in 0 .. Width - 1
  PROVE  Complement(k) = IF k = 0 THEN 0 ELSE Width - k
<1>1. Width \in Nat \ {0} /\ k \in Nat /\ k < Width
  BY PowerFacts
<1>2. -k \in Int /\ (k = 0 => -k = 0) /\ (k # 0 => -Width <= -k /\ -k < 0 /\ -k + Width = Width - k)
  BY <1>1
<1>3. /\ 0 <= -k /\ -k < Width => (-k) % Width = -k
      /\ -Width <= -k /\ -k < 0 => (-k) % Width = -k + Width
  BY <1>1, <1>2, NearRemainders
<1> QED
  BY <1>1, <1>2, <1>3 DEF Complement

LEMMA RotationsAlways ==
  ASSUME NEW v \in BitSets, NEW k \in 0 .. Width - 1
  PROVE  /\ rol(v, k) = {(i + k) % Width : i \in v}
         /\ ror(v, k) = {(i - k) % Width : i \in v}
<1>1. Width \in Nat \ {0} /\ k \in Nat /\ k < Width
  BY PowerFacts
<1>2. \A i \in v : i \in Nat /\ i < Width
  BY PositionFacts DEF BitSets
<1>3. \A i \in Int : i \in Positions <=> 0 <= i /\ i < Width
  BY <1>1 DEF Positions
<1>4. PICK c \in Nat : c = Complement(k) /\ c = IF k = 0 THEN 0 ELSE Width - k
  BY <1>1, ComplementIs
<1>5. \A i \in v : /\ (i + k) % Width = IF i + k < Width THEN i + k ELSE i + k - Width
                   /\ (i - k) % Width = IF i >= k THEN i - k ELSE i - k + Width
  <2> SUFFICES ASSUME NEW i \in v
               PROVE  /\ (i + k) % Width = IF i + k < Width THEN i + k ELSE i + k - Width
                      /\ (i - k) % Width = IF i >= k THEN i - k ELSE i - k + Width
    OBVIOUS
  <2>1. i \in Nat /\ i < Width /\ i + k \in Int /\ i - k \in Int
    BY <1>1, <1>2
  <2>2. /\ 0 <= i + k /\ i + k < Width => (i + k) % Width = i + k
        /\ Width <= i + k /\ i + k < 2 * Width => (i + k) % Width = i + k - Width
    <3>1. PICK x \in Int : x = i + k
      BY <2>1
    <3>2. /\ 0 <= x /\ x < Width => x % Width = x
          /\ Width <= x /\ x < 2 * Width => x % Width = x - Width
      BY <1>1, NearRemainders
    <3> QED
      BY <1>1, <2>1, <3>1, <3>2
  <2>3. /\ 0 <= i - k /\ i - k < Width => (i - k) % Width = i - k
        /\ -Width <= i - k /\ i - k < 0 => (i - k) % Width = i - k + Width
    <3>1. PICK x \in Int : x = i - k
      BY <2>1
    <3>2. /\ 0 <= x /\ x < Width => x % Width = x
          /\ -Width <= x /\ x < 0 => x % Width = x + Width
      BY <1>1, NearRemainders
    <3> QED
      BY <3>1, <3>2
  <2> QED
    BY <1>1, <2>1, <2>2, <2>3
<1>6. rol(v, k) = {(i + k) % Width : i \in v}
  <2>1. ASSUME NEW i \in v PROVE (i + k) % Width \in rol(v, k)
    <3>1. CASE i + k < Width
      <4>1. i + k \in ShiftLeft(v, k)
        BY <1>1, <1>2, <1>3, <3>1 DEF ShiftLeft
      <4> QED
        BY <1>5, <3>1, <4>1 DEF rol
    <3>2. CASE ~(i + k < Width)
      <4>1. k # 0 /\ i - c = i + k - Width /\ i - c \in Positions
        BY <1>1, <1>2, <1>3, <1>4, <3>2
      <4>2. i - c \in ShiftRight(v, c)
        BY <4>1 DEF ShiftRight
      <4> QED
        BY <1>4, <1>5, <3>2, <4>1, <4>2 DEF rol
    <3> QED
      BY <3>1, <3>2
  <2>2. ASSUME NEW x \in rol(v, k) PROVE \E i \in v : x = (i + k) % Width
    <3>1. CASE x \in ShiftLeft(v, k)
      <4>1. PICK i \in v : x = i + k /\ x \in Positions
        BY <3>1 DEF ShiftLeft
      <4>2. x = (i + k) % Width
        BY <1>1, <1>2, <1>3, <1>5, <4>1
      <4> QED
        BY <4>2
    <3>2. CASE x \in ShiftRight(v, c)
      <4>1. PICK i \in v : x = i - c /\ x \in Positions
        BY <3>2 DEF ShiftRight
      <4>2. x = (i + k) % Width
        BY <1>1, <1>2, <1>3, <1>4, <1>5, <4>1
      <4> QED
        BY <4>2
    <3> QED
      BY <1>4, <3>1, <3>2 DEF rol
  <2> QED
    BY <2>1, <2>2
<1>7. ror(v, k) = {(i - k) % Width : i \in v}
  <2>1. ASSUME NEW i \in v PROVE (i - k) % Width \in ror(v, k)
    <3>1. CASE i >= k
      <4>1. i - k \in ShiftRight(v, k)
        BY <1>1, <1>2, <1>3, <3>1 DEF ShiftRight
      <4> QED
        BY <1>5, <3>1, <4>1 DEF ror
    <3>2. CASE ~(i >= k)
      <4>1. k # 0 /\ i + c = i - k + Width /\ i + c \in Positions
        BY <1>1, <1>2, <1>3, <1>4, <3>2
      <4>2. i + c \in ShiftLeft(v, c)
        BY <4>1 DEF ShiftLeft
      <4> QED
        BY <1>4, <1>5, <3>2, <4>1, <4>2 DEF ror
    <3> QED
      BY <3>1, <3>2
  <2>2. ASSUME NEW x \in ror(v, k) PROVE \E i \in v : x = (i - k) % Width
    <3>1. CASE x \in ShiftRight(v, k)
      <4>1. PICK i \in v : x = i - k /\ x \in Positions
        BY <3>1 DEF ShiftRight
      <4>2. x = (i - k) % Width
        BY <1>1, <1>2, <1>3, <1>5, <4>1
      <4> QED
        BY <4>2
    <3>2. CASE x \in ShiftLeft(v, c)
      <4>1. PICK i \in v : x = i + c /\ x \in Positions
        BY <3>2 DEF ShiftLeft
      <4>2. x = (i - k) % Width
        BY <1>1, <1>2, <1>3, <1>4, <1>5, <4>1
      <4> QED
        BY <4>2
    <3> QED
      BY <1>4, <3>1, <3>2 DEF ror
  <2> QED
    BY <2>1, <2>2
<1> QED
  BY <1>6, <1>7

(* What is in a word that is taken out of two                              *)
LEMMA FunnelsAlways ==
  ASSUME NEW lower \in BitSets, NEW upper \in BitSets, NEW k \in 0 .. 2 * Width - 1
  PROVE  LET both == lower \cup {i + Width : i \in upper}
         IN /\ fsr(lower, upper, k) = {(i - k) % (2 * Width) : i \in both} \cap Positions
            /\ fsl(lower, upper, k) =
                 {i - Width : i \in {(j + k + Width) % (2 * Width) : j \in both} \ Positions}
<1> DEFINE both == lower \cup {i + Width : i \in upper}
           W == Width
           shamt == k % W
           a == IF k >= W THEN upper ELSE lower
           b == IF k >= W THEN lower ELSE upper
           Right(x) == IF x >= k THEN x - k ELSE x - k + 2 * W
           Left(x) == IF x + k < W THEN x + k + W ELSE IF x + k < 3 * W THEN x + k - W ELSE x + k - 3 * W
<1>1. W \in Nat \ {0} /\ k \in Nat /\ k < 2 * W
  BY PowerFacts
<1>2. /\ \A i \in lower : i \in Nat /\ i < W
      /\ \A i \in upper : i \in Nat /\ i < W
  BY PositionFacts DEF BitSets
<1>3. \A i \in Int : i \in Positions <=> 0 <= i /\ i < W
  BY <1>1 DEF Positions
<1>4. shamt \in Nat /\ shamt < W /\ shamt = IF k >= W THEN k - W ELSE k
  <2>1. /\ 0 <= k /\ k < W => k % W = k
        /\ W <= k /\ k < 2 * W => k % W = k - W
    <3>1. k \in Int
      BY <1>1
    <3> HIDE DEF W
    <3> QED
      BY <1>1, <3>1, NearRemainders
  <2> QED
    BY <1>1, <2>1
<1>5. Complement(shamt) = IF shamt = 0 THEN 0 ELSE W - shamt
  <2>1. shamt \in 0 .. W - 1
    BY <1>1, <1>4
  <2> HIDE DEF shamt
  <2> QED
    BY <2>1, ComplementIs
<1>6. \A x \in both : x \in Nat /\ x < 2 * W
  BY <1>1, <1>2
<1>7. \A x \in both : (x - k) % (2 * W) = Right(x)
  <2> SUFFICES ASSUME NEW x \in both PROVE (x - k) % (2 * W) = Right(x)
    OBVIOUS
  <2>0. x - k \in Int
    BY <1>1, <1>6
  <2>1. PICK y \in Int : y = x - k
    BY <2>0
  <2>2. PICK m \in Nat \ {0} : m = 2 * W
    BY <1>1
  <2>3. /\ 0 <= y /\ y < m => y % m = y
        /\ -m <= y /\ y < 0 => y % m = y + m
    BY NearRemainders
  <2> HIDE DEF both
  <2>4. y % m = IF y >= 0 THEN y ELSE y + m
    BY <1>1, <1>6, <2>1, <2>2, <2>3
  <2> QED
    BY <1>1, <1>6, <2>1, <2>2, <2>4
<1>8. \A x \in both : (x + k + W) % (2 * W) = Left(x)
  <2> SUFFICES ASSUME NEW x \in both PROVE (x + k + W) % (2 * W) = Left(x)
    OBVIOUS
  <2>1. PICK y \in Int : y = x + k + W
    BY <1>1, <1>6
  <2>2. PICK m \in Nat \ {0} : m = 2 * W
    BY <1>1
  <2>3. /\ 0 <= y /\ y < m => y % m = y
        /\ m <= y /\ y < 2 * m => y % m = y - m
    BY NearRemainders
  <2>4. 2 * m <= y => y % m = y - 2 * m
    <3>1. PICK z \in Int : z = y - 2 * m
      OBVIOUS
    <3> HIDE DEF both
    <3>2. y = m * 2 + z /\ (2 * m <= y => 0 <= z /\ z < m)
      BY <1>1, <1>6, <2>1, <2>2, <3>1
    <3>3. 2 * m <= y => y % m = z
      BY <3>2, DivModIs
    <3> QED
      BY <3>1, <3>3
  <2> HIDE DEF both
  <2>5. y % m = IF y < m THEN y ELSE IF y < 2 * m THEN y - m ELSE y - 2 * m
    BY <1>1, <1>6, <2>1, <2>2, <2>3, <2>4
  <2> QED
    BY <1>1, <1>6, <2>1, <2>2, <2>5
<1> DEFINE taken == {(i - k) % (2 * Width) : i \in both} \cap Positions
           given == {i - Width : i \in {(j + k + Width) % (2 * Width) : j \in both} \ Positions}
<1>9. fsr(lower, upper, k) = taken
  <2>1. taken = {Right(x) : x \in both} \cap Positions
    <3> HIDE DEF both, Right
    <3> QED
      BY <1>7
  <2>2. fsr(lower, upper, k) =
          IF shamt = 0 THEN a ELSE ShiftLeft(b, Complement(shamt)) \cup ShiftRight(a, shamt)
    BY DEF fsr
  <2> HIDE DEF taken
  <2>3. CASE shamt = 0
    <3>1. a = {Right(x) : x \in both} \cap Positions
      <4>1. k = 0 \/ k = W
        BY <1>1, <1>4, <2>3
      <4>2. CASE k = 0
        BY <1>1, <1>2, <1>3, <4>2
      <4>3. CASE k = W
        BY <1>1, <1>2, <1>3, <4>3
      <4> QED
        BY <4>1, <4>2, <4>3
    <3> QED
      BY <2>1, <2>2, <2>3, <3>1
  <2>4. CASE shamt # 0
    <3>1. ShiftLeft(b, W - shamt) \cup ShiftRight(a, shamt) = {Right(x) : x \in both} \cap Positions
      <4>1. CASE k < W
        <5>1. shamt = k /\ a = lower /\ b = upper
          BY <1>1, <1>4, <4>1
        <5> HIDE DEF shamt, a, b
        <5>2. {Right(x) : x \in both} = {Right(i) : i \in lower} \cup {Right(i + W) : i \in upper}
          OBVIOUS
        <5>3. {Right(i) : i \in lower} \cap Positions = ShiftRight(lower, k)
          BY <1>1, <1>2, <1>3, <4>1 DEF ShiftRight
        <5>4. {Right(i + W) : i \in upper} \cap Positions = ShiftLeft(upper, W - k)
          BY <1>1, <1>2, <1>3, <4>1 DEF ShiftLeft
        <5> QED
          BY <5>1, <5>2, <5>3, <5>4
      <4>2. CASE ~(k < W)
        <5>1. shamt = k - W /\ a = upper /\ b = lower /\ k # W
          BY <1>1, <1>4, <4>2, <2>4
        <5> HIDE DEF shamt, a, b
        <5>2. {Right(x) : x \in both} = {Right(i) : i \in lower} \cup {Right(i + W) : i \in upper}
          OBVIOUS
        <5>3. {Right(i) : i \in lower} \cap Positions = ShiftLeft(lower, W - shamt)
          BY <1>1, <1>2, <1>3, <4>2, <5>1 DEF ShiftLeft
        <5>4. {Right(i + W) : i \in upper} \cap Positions = ShiftRight(upper, shamt)
          BY <1>1, <1>2, <1>3, <4>2, <5>1 DEF ShiftRight
        <5> QED
          BY <5>1, <5>2, <5>3, <5>4
      <4> QED
        BY <4>1, <4>2
    <3> QED
      BY <1>5, <2>1, <2>2, <2>4, <3>1
  <2> QED
    BY <2>3, <2>4
<1>10. fsl(lower, upper, k) = given
  <2>1. given = {i - W : i \in {Left(x) : x \in both} \ Positions}
    <3> HIDE DEF both, Left
    <3> QED
      BY <1>8
  <2>2. fsl(lower, upper, k) =
          IF shamt = 0 THEN a ELSE ShiftLeft(a, shamt) \cup ShiftRight(b, Complement(shamt))
    BY DEF fsl
  <2>3. given = {Left(x) - W : x \in {y \in both : Left(y) \notin Positions}}
    <3> HIDE DEF both, Left
    <3> QED
      BY <2>1
  <2>4. given = {Left(i) - W : i \in {y \in lower : Left(y) \notin Positions}}
                  \cup {Left(i + W) - W : i \in {y \in upper : Left(y + W) \notin Positions}}
    <3> HIDE DEF Left
    <3> QED
      BY <2>3
  <2> HIDE DEF given
  <2> DEFINE low == {Left(i) - W : i \in {y \in lower : Left(y) \notin Positions}}
             high == {Left(i + W) - W : i \in {y \in upper : Left(y + W) \notin Positions}}
  <2>5. CASE k = 0
    <3>1. shamt = 0 /\ a = lower
      BY <1>1, <1>4, <2>5
    <3>2. \A i \in lower : Left(i) \notin Positions /\ Left(i) - W = i
      BY <1>1, <1>2, <1>3, <2>5
    <3>3. \A i \in upper : Left(i + W) \in Positions
      BY <1>1, <1>2, <1>3, <2>5
    <3> HIDE DEF Left, shamt, a, b
    <3>4. low = lower /\ high = {}
      BY <3>2, <3>3
    <3> QED
      BY <2>2, <2>4, <3>1, <3>4
  <2>6. CASE k = W
    <3>1. shamt = 0 /\ a = upper
      BY <1>1, <1>4, <2>6
    <3>2. \A i \in lower : Left(i) \in Positions
      BY <1>1, <1>2, <1>3, <2>6
    <3>3. \A i \in upper : Left(i + W) \notin Positions /\ Left(i + W) - W = i
      BY <1>1, <1>2, <1>3, <2>6
    <3> HIDE DEF Left, shamt, a, b
    <3>4. low = {} /\ high = upper
      BY <3>2, <3>3
    <3> QED
      BY <2>2, <2>4, <3>1, <3>4
  <2>7. CASE 0 < k /\ k < W
    <3>1. shamt = k /\ a = lower /\ b = upper /\ Complement(shamt) = W - k
      BY <1>1, <1>4, <1>5, <2>7
    <3>2. \A i \in lower : IF i + k \in Positions THEN Left(i) \notin Positions /\ Left(i) - W = i + k
                                                 ELSE Left(i) \in Positions
      BY <1>1, <1>2, <1>3, <2>7
    <3>3. \A i \in upper : IF i - (W - k) \in Positions
                           THEN Left(i + W) \notin Positions /\ Left(i + W) - W = i - (W - k)
                           ELSE Left(i + W) \in Positions
      BY <1>1, <1>2, <1>3, <2>7
    <3> HIDE DEF Left, shamt, a, b
    <3>4. low = ShiftLeft(lower, k)
      BY <3>2 DEF ShiftLeft
    <3>5. high = ShiftRight(upper, W - k)
      BY <3>3 DEF ShiftRight
    <3> QED
      BY <1>1, <2>2, <2>4, <2>7, <3>1, <3>4, <3>5
  <2>8. CASE W < k
    <3>1. shamt = k - W /\ shamt # 0 /\ a = upper /\ b = lower /\ Complement(shamt) = W - shamt
      BY <1>1, <1>4, <1>5, <2>8
    <3> HIDE DEF shamt, a, b
    <3>2. \A i \in lower : IF i - (W - shamt) \in Positions
                           THEN Left(i) \notin Positions /\ Left(i) - W = i - (W - shamt)
                           ELSE Left(i) \in Positions
      BY <1>1, <1>2, <1>3, <2>8, <3>1
    <3>3. \A i \in upper : IF i + shamt \in Positions
                           THEN Left(i + W) \notin Positions /\ Left(i + W) - W = i + shamt
                           ELSE Left(i + W) \in Positions
      BY <1>1, <1>2, <1>3, <2>8, <3>1
    <3> HIDE DEF Left
    <3>4. low = ShiftRight(lower, W - shamt)
      BY <3>2 DEF ShiftRight
    <3>5. high = ShiftLeft(upper, shamt)
      BY <3>3 DEF ShiftLeft
    <3> QED
      BY <2>2, <2>4, <3>1, <3>4, <3>5
  <2> QED
    BY <1>1, <2>5, <2>6, <2>7, <2>8
<1> QED
  BY <1>9, <1>10

(***************************************************************************)
(* Counts.                                                                 *)
(***************************************************************************)
LEMMA FallingFacts ==
  ASSUME NEW k \in 1 .. LogWidth
  PROVE  /\ Falling[k] \in Nat \ {0} /\ Falling[k] <= Width
         /\ LogWidth - k \in 0 .. LogWidth /\ LogWidth - (k - 1) \in 0 .. LogWidth
         /\ Falling[k] = Power[LogWidth - k] /\ Power[LogWidth - (k - 1)] = 2 * Falling[k]
<1>1. LogWidth \in Nat /\ LogWidth - k \in 0 .. LogWidth /\ LogWidth - (k - 1) \in 1 .. LogWidth
      /\ (LogWidth - (k - 1)) - 1 = LogWidth - k /\ LogWidth \in 0 .. LogWidth
  BY PowerFacts
<1>2. Falling[k] = Power[LogWidth - k]
  BY DEF Falling
<1>3. Power[LogWidth - k] \in Nat \ {0} /\ Power[LogWidth - (k - 1)] = 2 * Power[LogWidth - k]
  BY <1>1, PowerFacts
<1>4. Power[LogWidth - k] <= Width
  <2>1. LogWidth - k < LogWidth
    BY <1>1
  <2>2. PICK c \in Nat \ {0} : Power[LogWidth] = Power[LogWidth - k] * (2 * c)
    BY <1>1, <2>1, PowersDivide
  <2>3. Power[LogWidth - k] * (2 * c) >= Power[LogWidth - k]
    BY <1>3
  <2> QED
    BY <2>2, <2>3 DEF Width
<1> QED
  BY <1>1, <1>2, <1>3, <1>4

(* No one is lost at the bottom, and the lowest one is below 2 ^ the       *)
(* number of steps that are left.                                          *)
LEMMA CtzExact ==
  ASSUME NEW v \in BitSets, v # {}
  PROVE  ctz(v) \in v /\ \A i \in v : i >= ctz(v)
<1> DEFINE n == LogWidth
           step == [k \in 1 .. LogWidth |-> [s \in Search |->
                      IF ShiftLeft(s.val, Width - Falling[k]) = {}
                      THEN [val |-> ShiftRight(s.val, Falling[k]), res |-> s.res + Falling[k]]
                      ELSE s]]
           first == [val |-> v, res |-> 0]
           Low(s, p) == /\ \A i \in v : i >= s.res
                        /\ s.val = {i - s.res : i \in v}
                        /\ \E i \in v : i < s.res + p
           K == {s \in (0 .. n) \X Search : Low(s[2], Power[n - s[1]])}
<1>1. n \in Nat
  BY PowerFacts
<1>2. \A i \in v : i \in Nat /\ i < Width /\ i \in Positions
  BY PositionFacts DEF BitSets
<1>3. <<0, first>> \in K
  <2>1. first \in Search
    BY DEF Search
  <2>2. v = {i - 0 : i \in v}
    BY <1>2
  <2>3. Low(first, Width)
    BY <1>2, <2>2, PowerFacts
  <2>4. Power[n - 0] = Width
    BY <1>1 DEF Width
  <2> HIDE DEF Low, first
  <2> QED
    BY <1>1, <2>1, <2>3, <2>4
<1>4. ASSUME NEW k \in 1 .. n, NEW s, <<k - 1, s>> \in K
      PROVE  <<k, step[k][s]>> \in K
  <2> DEFINE p == Falling[k]
             t == [val |-> ShiftRight(s.val, p), res |-> s.res + p]
  <2>1. s \in Search /\ Low(s, Power[n - (k - 1)]) /\ k \in 0 .. n
    BY <1>1, <1>4
  <2>2. p \in Nat \ {0} /\ p <= Width /\ p = Power[n - k] /\ Power[n - (k - 1)] = 2 * p
    BY FallingFacts
  <2>3. step[k][s] = IF ShiftLeft(s.val, Width - p) = {} THEN t ELSE s
    BY <2>1
  <2> HIDE DEF p, step
  <2>4. s.val \in BitSets /\ s.res \in Nat
    BY <2>1 DEF Search
  <2>5. Width \in Nat
    BY PowerFacts
  <2>6. CASE ShiftLeft(s.val, Width - p) = {}
    <3>1. \A i \in v : i >= s.res + p
      <4> SUFFICES ASSUME NEW i \in v, i < s.res + p PROVE FALSE
        BY <1>2, <2>2, <2>4
      <4>1. i - s.res \in s.val
        BY <2>1
      <4>2. (i - s.res) + (Width - p) \in Positions
        BY <1>2, <2>1, <2>2, <2>4, <2>5 DEF Positions
      <4>3. (i - s.res) + (Width - p) \in ShiftLeft(s.val, Width - p)
        BY <4>1, <4>2 DEF ShiftLeft
      <4> QED
        BY <2>6, <4>3
    <3>2. t.val = {i - t.res : i \in v}
      <4>1. \A i \in v : (i - s.res) - p \in Positions /\ (i - s.res) - p = i - t.res
        BY <1>2, <2>1, <2>2, <2>4, <2>5, <3>1 DEF Positions
      <4>2. t.val = {j - p : j \in s.val} \cap Positions
        BY DEF ShiftRight
      <4>3. s.val = {i - s.res : i \in v}
        BY <2>1
      <4> QED
        BY <4>1, <4>2, <4>3
    <3>3. \E i \in v : i < t.res + p
      <4>1. PICK i \in v : i < s.res + 2 * p
        BY <2>1, <2>2
      <4> QED
        BY <1>2, <2>2, <2>4, <4>1
    <3>4. Low(t, p)
      BY <3>1, <3>2, <3>3
    <3>5. t \in Search
      BY <2>2, <2>4 DEF Search, BitSets, ShiftRight
    <3> HIDE DEF t, Low
    <3> QED
      BY <2>1, <2>2, <2>3, <2>6, <3>4, <3>5
  <2>7. CASE ShiftLeft(s.val, Width - p) # {}
    <3>1. PICK j \in s.val : j + (Width - p) \in Positions
      BY <2>7 DEF ShiftLeft
    <3>2. PICK i \in v : j = i - s.res
      BY <2>1, <3>1
    <3>3. i < s.res + p
      BY <1>2, <2>2, <2>4, <2>5, <3>1, <3>2 DEF Positions
    <3>4. Low(s, p)
      BY <2>1, <3>3
    <3> HIDE DEF t, Low
    <3> QED
      BY <2>1, <2>2, <2>3, <2>7, <3>4
  <2> QED
    BY <2>6, <2>7
<1> DEFINE last == Iterated(step, first, n)
<1>5. <<n, last>> \in K
  <2> HIDE DEF K, step, first
  <2> QED
    BY <1>1, <1>3, <1>4, IteratedKeeps
<1>6. ctz(v) = last.res
  BY DEF ctz, Counted
<1> HIDE DEF last
<1>7. last \in Search /\ Low(last, Power[n - n])
  BY <1>5
<1>8. Power[n - n] = 1 /\ last.res \in Nat
  BY <1>1, <1>7, PowerFacts DEF Search
<1>9. PICK i \in v : i < last.res + 1 /\ i >= last.res
  BY <1>7, <1>8
<1>10. i = last.res
  BY <1>2, <1>8, <1>9
<1> QED
  BY <1>6, <1>7, <1>10

(* The same from the top                                                   *)
LEMMA ClzExact ==
  ASSUME NEW v \in BitSets, v # {}
  PROVE  Width - 1 - clz(v) \in v /\ \A i \in v : i <= Width - 1 - clz(v)
<1> DEFINE n == LogWidth
           step == [k \in 1 .. LogWidth |-> [s \in Search |->
                      IF ShiftRight(s.val, Width - Falling[k]) = {}
                      THEN [val |-> ShiftLeft(s.val, Falling[k]), res |-> s.res + Falling[k]]
                      ELSE s]]
           first == [val |-> v, res |-> 0]
           High(s, p) == /\ \A i \in v : i + s.res < Width
                         /\ s.val = {i + s.res : i \in v}
                         /\ \E i \in v : i + s.res + p >= Width
           K == {s \in (0 .. n) \X Search : High(s[2], Power[n - s[1]])}
<1>1. n \in Nat
  BY PowerFacts
<1>2. \A i \in v : i \in Nat /\ i < Width /\ i \in Positions
  BY PositionFacts DEF BitSets
<1>3. <<0, first>> \in K
  <2>1. first \in Search
    BY DEF Search
  <2>2. v = {i + 0 : i \in v}
    BY <1>2
  <2>3. High(first, Width)
    BY <1>2, <2>2, PowerFacts
  <2>4. Power[n - 0] = Width
    BY <1>1 DEF Width
  <2> HIDE DEF High, first
  <2> QED
    BY <1>1, <2>1, <2>3, <2>4
<1>4. ASSUME NEW k \in 1 .. n, NEW s, <<k - 1, s>> \in K
      PROVE  <<k, step[k][s]>> \in K
  <2> DEFINE p == Falling[k]
             t == [val |-> ShiftLeft(s.val, p), res |-> s.res + p]
  <2>1. s \in Search /\ High(s, Power[n - (k - 1)]) /\ k \in 0 .. n
    BY <1>1, <1>4
  <2>2. p \in Nat \ {0} /\ p <= Width /\ p = Power[n - k] /\ Power[n - (k - 1)] = 2 * p
    BY FallingFacts
  <2>3. step[k][s] = IF ShiftRight(s.val, Width - p) = {} THEN t ELSE s
    BY <2>1
  <2> HIDE DEF p, step
  <2>4. s.val \in BitSets /\ s.res \in Nat
    BY <2>1 DEF Search
  <2>5. Width \in Nat
    BY PowerFacts
  <2>6. CASE ShiftRight(s.val, Width - p) = {}
    <3>1. \A i \in v : i + s.res + p < Width
      <4> SUFFICES ASSUME NEW i \in v, i + s.res + p >= Width PROVE FALSE
        BY <1>2, <2>2, <2>4, <2>5
      <4>1. i + s.res \in s.val
        BY <2>1
      <4>2. (i + s.res) - (Width - p) \in Positions
        BY <1>2, <2>1, <2>2, <2>4, <2>5 DEF Positions
      <4>3. (i + s.res) - (Width - p) \in ShiftRight(s.val, Width - p)
        BY <4>1, <4>2 DEF ShiftRight
      <4> QED
        BY <2>6, <4>3
    <3>2. t.val = {i + t.res : i \in v}
      <4>1. \A i \in v : (i + s.res) + p \in Positions /\ (i + s.res) + p = i + t.res
        BY <1>2, <2>1, <2>2, <2>4, <2>5, <3>1 DEF Positions
      <4>2. t.val = {j + p : j \in s.val} \cap Positions
        BY DEF ShiftLeft
      <4>3. s.val = {i + s.res : i \in v}
        BY <2>1
      <4> QED
        BY <4>1, <4>2, <4>3
    <3>3. \E i \in v : i + t.res + p >= Width
      <4>1. PICK i \in v : i + s.res + 2 * p >= Width
        BY <2>1, <2>2
      <4> QED
        BY <1>2, <2>2, <2>4, <2>5, <4>1
    <3>4. \A i \in v : i + t.res < Width
      BY <1>2, <2>2, <2>4, <3>1
    <3>5. High(t, p)
      BY <3>2, <3>3, <3>4
    <3>6. t \in Search
      BY <2>2, <2>4 DEF Search, BitSets, ShiftLeft
    <3> HIDE DEF t, High
    <3> QED
      BY <2>1, <2>2, <2>3, <2>6, <3>5, <3>6
  <2>7. CASE ShiftRight(s.val, Width - p) # {}
    <3>1. PICK j \in s.val : j - (Width - p) \in Positions
      BY <2>7 DEF ShiftRight
    <3>2. PICK i \in v : j = i + s.res
      BY <2>1, <3>1
    <3>3. i + s.res + p >= Width
      BY <1>2, <2>2, <2>4, <2>5, <3>1, <3>2 DEF Positions
    <3>4. High(s, p)
      BY <2>1, <3>3
    <3> HIDE DEF t, High
    <3> QED
      BY <2>1, <2>2, <2>3, <2>7, <3>4
  <2> QED
    BY <2>6, <2>7
<1> DEFINE last == Iterated(step, first, n)
<1>5. <<n, last>> \in K
  <2> HIDE DEF K, step, first
  <2> QED
    BY <1>1, <1>3, <1>4, IteratedKeeps
<1>6. clz(v) = last.res
  BY DEF clz, Counted
<1> HIDE DEF last
<1>7. last \in Search /\ High(last, Power[n - n])
  BY <1>5
<1>8. Power[n - n] = 1 /\ last.res \in Nat /\ Width \in Nat
  BY <1>1, <1>7, PowerFacts DEF Search
<1>9. PICK i \in v : i + last.res + 1 >= Width /\ i + last.res < Width
  BY <1>7, <1>8
<1>10. i = Width - 1 - last.res
  BY <1>2, <1>8, <1>9
<1>11. \A j \in v : j <= Width - 1 - last.res
  BY <1>2, <1>7, <1>8
<1> QED
  BY <1>6, <1>10, <1>11

LEMMA BitsFinite ==
  ASSUME NEW v, v \subseteq Positions
  PROVE  IsFiniteSet(v) /\ Cardinality(v) \in Nat
<1>1. IsFiniteSet(Positions)
  BY PowerFacts, FS_Interval DEF Positions
<1>2. IsFiniteSet(v)
  BY <1>1, FS_Subset
<1> QED
  BY <1>2, FS_CardinalityType

LEMMA DisjointCount ==
  ASSUME NEW S, NEW T, S \subseteq Positions, T \subseteq Positions, S \cap T = {}
  PROVE  Cardinality(S \cup T) = Cardinality(S) + Cardinality(T)
<1>1. /\ IsFiniteSet(S) /\ Cardinality(S) \in Nat
      /\ IsFiniteSet(T) /\ Cardinality(T) \in Nat
  BY BitsFinite
<1>2. Cardinality(S \cup T) = Cardinality(S) + Cardinality(T) - Cardinality(S \cap T)
  BY <1>1, FS_Union
<1>3. Cardinality(S \cap T) = 0
  BY FS_EmptySet
<1> QED
  BY <1>1, <1>2, <1>3

(* A field consists of two fields of half its width.                       *)
LEMMA FieldHalves ==
  ASSUME NEW l \in 1 .. LogWidth, NEW i \in Positions, i % Power[l] = 0
  PROVE  /\ i % Power[l - 1] = 0
         /\ i + Power[l - 1] \in Positions
         /\ (i + Power[l - 1]) % Power[l - 1] = 0
<1> DEFINE p == Power[l - 1]
           q == Power[l]
           a == i \div q
<1>1. p \in Nat \ {0} /\ q = 2 * p /\ q \in Nat \ {0}
  BY PowerFacts
<1>2. i \in Nat /\ i < Width /\ Width \in Nat
  BY PositionFacts, PowerFacts
<1>3. PICK c \in Nat \ {0} : Width = q * c
  <2>1. CASE l = LogWidth
    <3>1. Width = q * 1
      BY <1>1, <2>1 DEF Width
    <3> QED
      BY <3>1
  <2>2. CASE l # LogWidth
    <3>1. l < LogWidth /\ l \in 0 .. LogWidth /\ LogWidth \in 0 .. LogWidth
      BY <2>2, PowerFacts
    <3>2. PICK c \in Nat \ {0} : Power[LogWidth] = q * (2 * c)
      BY <3>1, PowersDivide
    <3>3. 2 * c \in Nat \ {0} /\ Width = q * (2 * c)
      BY <3>2 DEF Width
    <3> QED
      BY <3>3
  <2> QED
    BY <2>1, <2>2
<1>4. a \in Nat /\ i = q * a + (i % q)
  BY <1>1, <1>2, Quotients
<1> HIDE DEF p, a
<1>5. i = q * a
  BY <1>1, <1>4
<1> HIDE DEF q
<1>6. a + 1 <= c
  <2>1. SUFFICES ASSUME a >= c PROVE FALSE
    BY <1>4
  <2>2. q * a >= q * c
    BY <1>1, <1>4, <2>1
  <2> QED
    BY <1>1, <1>2, <1>3, <1>5, <2>2, <1>4
<1>7. i + q <= Width
  <2>1. q * (a + 1) \in Nat /\ q * (a + 1) <= q * c
    BY <1>1, <1>4, <1>6, ProductSign
  <2>2. q * (a + 1) = q * a + q
    BY <1>1, <1>4
  <2> QED
    BY <1>1, <1>2, <1>3, <1>5, <2>1, <2>2, <1>4
<1>8. i + p \in Positions
  BY <1>1, <1>2, <1>7 DEF Positions
<1>9. i = p * (2 * a) + 0 /\ i + p = p * (2 * a + 1) + 0
  BY <1>1, <1>4, <1>5
<1>10. i % p = 0
  <2>1. 2 * a \in Int /\ 0 <= 0 /\ 0 < p /\ 0 \in Int
    BY <1>1, <1>4
  <2>2. (p * (2 * a) + 0) % p = 0
    BY <1>1, <2>1, DivModIs
  <2> QED
    BY <1>9, <2>2
<1>11. (i + p) % p = 0
  <2>1. 2 * a + 1 \in Int /\ 0 <= 0 /\ 0 < p /\ 0 \in Int
    BY <1>1, <1>4
  <2>2. (p * (2 * a + 1) + 0) % p = 0
    BY <1>1, <2>1, DivModIs
  <2> QED
    BY <1>9, <2>2
<1> QED
  BY <1>8, <1>10, <1>11 DEF p

(* After k steps a field of 2 ^ k bits has their number.                   *)
LEMMA PopcountExact ==
  ASSUME NEW v \in BitSets
  PROVE  popcount(v) = Cardinality(v)
<1> DEFINE n == LogWidth
           Within(i, p) == {j \in v : i <= j /\ j < i + p}
           first == [i \in Positions |-> IF i \in v THEN 1 ELSE 0]
           step == [k \in 1 .. LogWidth |-> [field \in [Positions -> Nat] |-> Paired(field, Rising[k])]]
           Sums(f, p) == \A i \in Positions : i % p = 0 => f[i] = Cardinality(Within(i, p))
           K == {s \in (0 .. n) \X [Positions -> Nat] : Sums(s[2], Power[s[1]])}
<1>1. n \in Nat /\ 0 \in 0 .. n
  BY PowerFacts
<1>2. v \subseteq Positions /\ \A i \in Positions : i \in Nat
  BY PositionFacts DEF BitSets
<1>3. <<0, first>> \in K
  <2>1. ASSUME NEW i \in Positions PROVE first[i] = Cardinality(Within(i, 1))
    <3>1. \A j \in v : i <= j /\ j < i + 1 <=> j = i
      BY <1>2
    <3>2. Within(i, 1) = IF i \in v THEN {i} ELSE {}
      BY <3>1
    <3> QED
      BY <3>2, FS_EmptySet, FS_Singleton
  <2>2. Sums(first, 1)
    BY <2>1
  <2>3. first \in [Positions -> Nat]
    OBVIOUS
  <2>4. Power[0] = 1
    BY PowerFacts
  <2> HIDE DEF first, Sums
  <2> QED
    BY <1>1, <2>2, <2>3, <2>4
<1>4. ASSUME NEW k \in 1 .. n, NEW f, <<k - 1, f>> \in K
      PROVE  <<k, step[k][f]>> \in K
  <2> DEFINE p == Power[k - 1]
             g == Paired(f, p)
  <2>1. f \in [Positions -> Nat] /\ Sums(f, p) /\ k \in 0 .. n
    BY <1>1, <1>4
  <2>2. Rising[k] = p /\ p \in Nat \ {0} /\ Power[k] = 2 * p
    BY <1>1, PowerFacts DEF Rising
  <2>3. step[k][f] = g
    BY <2>1, <2>2
  <2>4. ASSUME NEW i \in Positions, i % (2 * p) = 0
        PROVE  g[i] \in Nat /\ g[i] = Cardinality(Within(i, 2 * p))
    <3>1. i % p = 0 /\ i + p \in Positions /\ (i + p) % p = 0
      BY <2>2, <2>4, FieldHalves
    <3>2. f[i] = Cardinality(Within(i, p)) /\ f[i + p] = Cardinality(Within(i + p, p))
      BY <2>1, <3>1
    <3>3. g[i] = f[i] + f[i + p]
      BY <2>4 DEF Paired
    <3>4. /\ Within(i, 2 * p) = Within(i, p) \cup Within(i + p, p)
          /\ Within(i, p) \cap Within(i + p, p) = {}
      BY <1>2, <2>2
    <3>5. Within(i, p) \subseteq Positions /\ Within(i + p, p) \subseteq Positions
      BY <1>2
    <3> HIDE DEF Within, g, p
    <3>6. Cardinality(Within(i, 2 * p)) = Cardinality(Within(i, p)) + Cardinality(Within(i + p, p))
      BY <3>4, <3>5, DisjointCount
    <3> QED
      BY <2>1, <3>1, <3>2, <3>3, <3>6
  <2>5. g \in [Positions -> Nat]
    <3>1. \A i \in Positions : i % (2 * p) # 0 => g[i] = 0
      BY DEF Paired
    <3>2. g = [i \in Positions |-> g[i]]
      BY DEF Paired
    <3> HIDE DEF g, p
    <3>3. ASSUME NEW i \in Positions PROVE g[i] \in Nat
      <4>1. i % (2 * p) = 0 => g[i] \in Nat
        BY <2>4
      <4>2. i % (2 * p) # 0 => g[i] = 0
        BY <3>1
      <4> QED
        BY <4>1, <4>2
    <3> QED
      BY <3>2, <3>3
  <2>6. Sums(g, 2 * p)
    BY <2>4
  <2> HIDE DEF g, p, Sums, step
  <2> QED
    BY <2>1, <2>2, <2>3, <2>5, <2>6
<1> DEFINE last == Iterated(step, first, n)
<1>5. <<n, last>> \in K
  <2> HIDE DEF K, step, first
  <2> QED
    BY <1>1, <1>3, <1>4, IteratedKeeps
<1>6. popcount(v) = last[0]
  BY DEF popcount
<1> HIDE DEF last
<1>7. Sums(last, Width)
  BY <1>5 DEF Width
<1>8. 0 \in Positions /\ 0 % Width = 0
  <2>1. Width \in Nat \ {0}
    BY PowerFacts
  <2>2. 0 % Width = 0
    BY <2>1, NearRemainders
  <2> QED
    BY <2>1, <2>2 DEF Positions
<1>9. Within(0, Width) = v
  <2>1. \A j \in v : 0 <= j /\ j < 0 + Width
    BY <1>2, PositionFacts, PowerFacts
  <2> QED
    BY <2>1
<1> QED
  <2> HIDE DEF Within
  <2> QED
    BY <1>6, <1>7, <1>8, <1>9

LEMMA CountsAlways == BitManipTypeOK => CountsExact
<1> SUFFICES ASSUME BitManipTypeOK PROVE CountsExact
  OBVIOUS
<1>1. data \in BitSets
  BY DEF BitManipTypeOK, BitSets
<1> QED
  BY <1>1, PopcountExact, CtzExact, ClzExact DEF CountsExact

(***************************************************************************)
(* Carry-less products.                                                    *)
(***************************************************************************)

(* A bit of an exclusive or of many words is the parity of those that have *)
(* it.                                                                     *)
LEMMA XorsCount ==
  ASSUME NEW shifted, \A i \in Positions : shifted[i] \in BitSets, NEW b \in BitSets
  PROVE  Xors(shifted, b) =
           {x \in Positions : Cardinality({i \in b : x \in shifted[i]}) % 2 = 1}
<1> DEFINE n == Width
           Before(k, x) == {i \in b : i < k /\ x \in shifted[i]}
           Is(k) == {x \in Positions : Cardinality(Before(k, x)) % 2 = 1}
           step == [k \in 1 .. n |-> [x \in BitSets |->
                      IF k - 1 \in b THEN Xor(x, shifted[k - 1]) ELSE x]]
           K == {s \in (0 .. n) \X BitSets : s[2] = Is(s[1])}
<1>1. n \in Nat
  BY PowerFacts
<1>2. b \subseteq Positions /\ \A i \in b : i \in Nat /\ i < n
  BY PositionFacts DEF BitSets
<1>3. <<0, {}>> \in K
  <2>1. \A x : Before(0, x) = {}
    BY <1>2
  <2>2. Is(0) = {}
    <3> HIDE DEF Before
    <3> QED
      BY <2>1, FS_EmptySet
  <2>3. {} \in BitSets
    BY DEF BitSets
  <2> HIDE DEF Is
  <2> QED
    BY <1>1, <2>2, <2>3
<1>4. ASSUME NEW k \in 1 .. n, NEW x, <<k - 1, x>> \in K
      PROVE  <<k, step[k][x]>> \in K
  <2> DEFINE e == k - 1
  <2>1. x \in BitSets /\ x = Is(e) /\ k \in 0 .. n /\ e \in Nat /\ k = e + 1
    BY <1>1, <1>4
  <2>2. step[k][x] = IF e \in b THEN Xor(x, shifted[e]) ELSE x
    BY <2>1
  <2>3. ASSUME NEW y \in Positions
        PROVE  y \in Is(k) <=> IF e \in b /\ y \in shifted[e] THEN y \notin Is(e) ELSE y \in Is(e)
    <3>1. \A i \in b : i < k <=> (i < e \/ i = e)
      BY <1>2, <2>1
    <3>2. CASE e \in b /\ y \in shifted[e]
      <4>1. Before(k, y) = Before(e, y) \cup {e} /\ e \notin Before(e, y)
        BY <2>1, <3>1, <3>2
      <4>2. Before(e, y) \subseteq Positions
        BY <1>2
      <4> HIDE DEF Before
      <4>3. IsFiniteSet(Before(e, y)) /\ Cardinality(Before(e, y)) \in Nat
        BY <4>2, BitsFinite
      <4>4. Cardinality(Before(k, y)) = Cardinality(Before(e, y)) + 1
        BY <4>1, <4>3, FS_AddElement
      <4>5. Cardinality(Before(k, y)) % 2 = 1 <=> ~(Cardinality(Before(e, y)) % 2 = 1)
        BY <4>3, <4>4
      <4> HIDE DEF e
      <4> QED
        BY <3>2, <4>5
    <3>3. CASE ~(e \in b /\ y \in shifted[e])
      <4>1. Before(k, y) = Before(e, y)
        BY <2>1, <3>1, <3>3
      <4> HIDE DEF Before, e
      <4> QED
        BY <3>3, <4>1
    <3> QED
      BY <3>2, <3>3
  <2>4. e \in b => shifted[e] \subseteq Positions
    BY <1>2 DEF BitSets
  <2>5. Is(k) \subseteq Positions /\ Is(e) \subseteq Positions
    OBVIOUS
  <2> HIDE DEF Is, e, step
  <2>6. step[k][x] = Is(k)
    BY <2>1, <2>2, <2>3, <2>4, <2>5 DEF Xor
  <2> QED
    BY <2>1, <2>5, <2>6 DEF BitSets
<1>5. <<n, Iterated(step, {}, n)>> \in K
  <2> HIDE DEF K, step
  <2> QED
    BY <1>1, <1>3, <1>4, IteratedKeeps
<1>6. Xors(shifted, b) = Iterated(step, {}, n)
  BY DEF Xors
<1>7. \A x : Before(n, x) = {i \in b : x \in shifted[i]}
  BY <1>2
<1> HIDE DEF step, Before
<1> QED
  BY <1>5, <1>6, <1>7

(* The pairs of bits that meet at c can be counted from either side.       *)
LEMMA MeetingPairs ==
  ASSUME NEW a \in BitSets, NEW b \in BitSets, NEW c \in Int
  PROVE  Cardinality({i \in b : c - i \in a}) = Cardinality({i \in a : c - i \in b})
<1> DEFINE S == {i \in b : c - i \in a}
           T == {i \in a : c - i \in b}
           f == [i \in S |-> c - i]
<1>1. \A i \in a \cup b : i \in Int /\ c - (c - i) = i
  BY PositionFacts DEF BitSets
<1>2. f \in [S -> T]
  BY <1>1
<1>3. \A i, j \in S : f[i] = f[j] => i = j
  BY <1>1
<1>4. \A t \in T : c - t \in S /\ f[c - t] = t
  BY <1>1
<1>5. IsFiniteSet(S)
  BY BitsFinite DEF BitSets
<1> HIDE DEF S, T, f
<1>6. f \in Bijection(S, T)
  BY <1>2, <1>3, <1>4 DEF Bijection, Injection, Surjection, IsInjective
<1>7. ExistsBijection(S, T)
  BY <1>6 DEF ExistsBijection
<1>8. Cardinality(S) = Cardinality(T)
  BY <1>5, <1>7, FS_Bijection
<1> QED
  BY <1>8 DEF S, T

(* The bits of the carry-less product of two words *)
Product(a, b) == {j \in 0 .. 2 * Width - 1 : Cardinality({i \in a : j - i \in b}) % 2 = 1}

(* Words shifted so that bit x of the i-th is bit (x + k) - i of the operand *)
LEMMA CarrylessProduct ==
  ASSUME NEW a \in BitSets, NEW b \in BitSets, NEW k \in 0 .. Width, NEW shifted,
         \A i \in Positions : shifted[i] \in BitSets,
         \A i \in b, x \in Positions : x \in shifted[i] <=> (x + k) - i \in a
  PROVE  Xors(shifted, b) = {i \in Positions : i + k \in Product(a, b)}
<1>1. Width \in Nat /\ k \in Nat /\ k <= Width
  BY PowerFacts
<1>2. Xors(shifted, b) = {x \in Positions : Cardinality({i \in b : x \in shifted[i]}) % 2 = 1}
  BY XorsCount
<1>3. ASSUME NEW x \in Positions
      PROVE  Cardinality({i \in b : x \in shifted[i]}) % 2 = 1 <=> x + k \in Product(a, b)
  <2>1. x \in Nat /\ x < Width /\ x + k \in Int
    BY <1>1, PositionFacts
  <2>2. x + k \in 0 .. 2 * Width - 1
    BY <1>1, <2>1
  <2>3. {i \in b : x \in shifted[i]} = {i \in b : (x + k) - i \in a}
    <3>1. \A i \in b : x \in shifted[i] <=> (x + k) - i \in a
      OBVIOUS
    <3> QED
      BY <3>1
  <2>4. Cardinality({i \in b : (x + k) - i \in a}) = Cardinality({i \in a : (x + k) - i \in b})
    BY <2>1, MeetingPairs
  <2> QED
    BY <2>2, <2>3, <2>4 DEF Product
<1> QED
  BY <1>2, <1>3

LEMMA CarrylessAlways == BitManipTypeOK => CarrylessExact
<1> SUFFICES ASSUME BitManipTypeOK PROVE CarrylessExact
  OBVIOUS
<1> DEFINE from(k) == {i \in Positions : i + k \in Product(data, mask)}
<1>1. data \in BitSets /\ mask \in BitSets
  BY BitManipAssumption DEF BitManipTypeOK, BitSets
<1>2. \A i \in Positions : i \in Nat /\ i < Width
  BY PositionFacts
<1>3. Width \in Nat \ {0} /\ data \subseteq Positions /\ mask \subseteq Positions
  BY <1>1, PowerFacts DEF BitSets
<1>4. clmul(data, mask) = from(0)
  <2> DEFINE shifted == [i \in Positions |-> ShiftLeft(data, i)]
  <2>1. \A i \in Positions : shifted[i] \in BitSets
    BY DEF ShiftLeft, BitSets
  <2>2. \A i \in mask, x \in Positions : x \in shifted[i] <=> (x + 0) - i \in data
    <3> SUFFICES ASSUME NEW i \in mask, NEW x \in Positions
                 PROVE  x \in ShiftLeft(data, i) <=> (x + 0) - i \in data
      BY <1>3
    <3>1. i \in Nat /\ x \in Nat /\ \A j \in data : j \in Nat /\ (x = j + i <=> j = (x + 0) - i)
      BY <1>2, <1>3
    <3> QED
      BY <3>1 DEF ShiftLeft
  <2> HIDE DEF shifted
  <2>3. Xors(shifted, mask) = from(0)
    <3>1. 0 \in 0 .. Width
      BY <1>3
    <3> QED
      BY <1>1, <2>1, <2>2, <3>1, CarrylessProduct
  <2> QED
    BY <2>3 DEF clmul, shifted
<1>5. clmulh(data, mask) = from(Width)
  <2> DEFINE shifted == [i \in Positions |-> ShiftRight(data, Width - i)]
  <2>1. \A i \in Positions : shifted[i] \in BitSets
    BY DEF ShiftRight, BitSets
  <2>2. \A i \in mask, x \in Positions : x \in shifted[i] <=> (x + Width) - i \in data
    <3> SUFFICES ASSUME NEW i \in mask, NEW x \in Positions
                 PROVE  x \in ShiftRight(data, Width - i) <=> (x + Width) - i \in data
      BY <1>3
    <3>1. i \in Nat /\ x \in Nat
          /\ \A j \in data : j \in Nat /\ (x = j - (Width - i) <=> j = (x + Width) - i)
      BY <1>2, <1>3
    <3> QED
      BY <3>1 DEF ShiftRight
  <2>3. \A x \in Positions : 0 \in Positions /\ x \notin shifted[0]
    <3> SUFFICES ASSUME NEW x \in Positions PROVE 0 \in Positions /\ x \notin shifted[0]
      OBVIOUS
    <3>1. 0 \in Positions /\ shifted[0] = ShiftRight(data, Width - 0)
      BY <1>3 DEF Positions
    <3>2. \A j \in data : x # j - (Width - 0)
      BY <1>2, <1>3
    <3> QED
      BY <3>1, <3>2 DEF ShiftRight
  <2> HIDE DEF shifted
  <2>4. Xors(shifted, mask) = from(Width)
    <3>1. Width \in 0 .. Width
      BY <1>3
    <3> QED
      BY <1>1, <2>1, <2>2, <3>1, CarrylessProduct
  <2>5. Xors(shifted, mask \ {0}) = Xors(shifted, mask)
    <3>1. mask \ {0} \in BitSets
      BY <1>3 DEF BitSets
    <3>2. /\ Xors(shifted, mask) =
               {x \in Positions : Cardinality({i \in mask : x \in shifted[i]}) % 2 = 1}
          /\ Xors(shifted, mask \ {0}) =
               {x \in Positions : Cardinality({i \in mask \ {0} : x \in shifted[i]}) % 2 = 1}
      BY <1>1, <2>1, <3>1, XorsCount
    <3>3. \A x \in Positions : {i \in mask : x \in shifted[i]} = {i \in mask \ {0} : x \in shifted[i]}
      BY <2>3
    <3> QED
      BY <3>2, <3>3
  <2> QED
    BY <2>4, <2>5 DEF clmulh, shifted
<1>6. clmulr(data, mask) = from(Width - 1)
  <2> DEFINE shifted == [i \in Positions |-> ShiftRight(data, Width - i - 1)]
  <2>1. \A i \in Positions : shifted[i] \in BitSets
    BY DEF ShiftRight, BitSets
  <2>2. \A i \in mask, x \in Positions : x \in shifted[i] <=> (x + (Width - 1)) - i \in data
    <3> SUFFICES ASSUME NEW i \in mask, NEW x \in Positions
                 PROVE  x \in ShiftRight(data, Width - i - 1) <=> (x + (Width - 1)) - i \in data
      BY <1>3
    <3>1. i \in Nat /\ x \in Nat
          /\ \A j \in data : j \in Nat /\ (x = j - (Width - i - 1) <=> j = (x + (Width - 1)) - i)
      BY <1>2, <1>3
    <3> QED
      BY <3>1 DEF ShiftRight
  <2> HIDE DEF shifted
  <2>3. Xors(shifted, mask) = from(Width - 1)
    <3>1. Width - 1 \in 0 .. Width
      BY <1>3
    <3> QED
      BY <1>1, <2>1, <2>2, <3>1, CarrylessProduct
  <2> QED
    BY <2>3 DEF clmulr, shifted
<1> QED
  BY <1>4, <1>5, <1>6 DEF CarrylessExact, Product

(* The lowest bit of a word is the least position in it.                   *)
LEMMA LowestIs ==
  ASSUME NEW m \in BitSets, m # {}
  PROVE  Lowest(m) \in m /\ Lowest(m) \in Nat /\ Lowest(m) < Width /\ \A j \in m : Lowest(m) <= j
<1>1. \A j \in m : j \in Nat /\ j < Width
  BY PositionFacts DEF BitSets
<1>2. ctz(m) \in m /\ \A j \in m : j >= ctz(m)
  BY CtzExact
<1>3. \A j \in m : ctz(m) <= j
  BY <1>1, <1>2
<1>4. Lowest(m) \in m /\ \A j \in m : Lowest(m) <= j
  BY <1>2, <1>3 DEF Lowest
<1> QED
  BY <1>1, <1>4

(* The lowest run is an interval of the word, as long as it can be.        *)
LEMMA LowestRunIs ==
  ASSUME NEW m \in BitSets, m # {}
  PROVE  \E hi \in Lowest(m) + 1 .. Width :
            /\ hi \notin m
            /\ \A x \in Positions : x \in m => x >= Lowest(m)
            /\ \A x \in Positions : Lowest(m) <= x /\ x < hi => x \in m
            /\ LowestRun(m) = {x \in m : x < hi}
<1> DEFINE lo == Lowest(m)
           filled == m \cup 0 .. lo - 1
           carry == Positions \ filled
           sum == IF carry = {} THEN {} ELSE (filled \ (0 .. Lowest(carry))) \cup {Lowest(carry)}
<1>1. lo \in m /\ lo \in Nat /\ lo < Width /\ \A j \in m : lo <= j
  BY LowestIs
<1>2. LowestRun(m) = m \ sum
  BY DEF LowestRun
<1>3. m \subseteq Positions /\ Width \in Nat /\ \A x \in Positions : x \in Nat /\ x < Width
  BY PowerFacts, PositionFacts DEF BitSets
<1> HIDE DEF lo
<1>4. \A x \in Positions : lo <= x /\ x \notin carry => x \in m
  BY <1>1, <1>3
<1>5. CASE carry = {}
  <2>1. Width \notin m
    BY <1>3
  <2>2. Width \in lo + 1 .. Width
    BY <1>1, <1>3
  <2>3. m = {x \in m : x < Width} /\ m \ sum = m
    BY <1>3, <1>5
  <2> HIDE DEF sum, carry
  <2>4. /\ \A x \in Positions : x \in m => x >= lo
        /\ \A x \in Positions : lo <= x /\ x < Width => x \in m
    BY <1>1, <1>3, <1>4, <1>5
  <2>5. LowestRun(m) = {x \in m : x < Width}
    BY <1>2, <2>3
  <2> QED
    BY <2>1, <2>2, <2>4, <2>5 DEF lo
<1>6. CASE carry # {}
  <2> DEFINE hi == Lowest(carry)
  <2>1. carry \in BitSets
    BY DEF BitSets
  <2>2. hi \in carry /\ hi \in Nat /\ hi < Width /\ \A j \in carry : hi <= j
    <3> HIDE DEF carry
    <3> QED
      BY <1>6, <2>1, LowestIs
  <2>3. sum = (filled \ (0 .. hi)) \cup {hi}
    <3> HIDE DEF carry, filled
    <3> QED
      BY <1>6
  <2> HIDE DEF hi
  <2>4. hi \notin m /\ hi > lo
    BY <1>1, <2>2
  <2>5. m \ sum = {x \in m : x < hi}
    <3> SUFFICES ASSUME NEW x \in m PROVE x \notin sum <=> x < hi
      OBVIOUS
    <3>1. x \in Nat /\ x \in filled
      BY <1>3
    <3> HIDE DEF filled, sum
    <3>2. x \in 0 .. hi <=> x <= hi
      BY <2>2, <3>1
    <3> QED
      BY <2>2, <2>3, <3>1, <3>2
  <2>6. hi \in lo + 1 .. Width
    BY <1>1, <1>3, <2>2, <2>4
  <2>7. \A x \in Positions : x < hi => x \notin carry
    <3> HIDE DEF carry
    <3> QED
      BY <1>3, <2>2
  <2> HIDE DEF carry, sum
  <2>8. /\ \A x \in Positions : x \in m => x >= lo
        /\ \A x \in Positions : lo <= x /\ x < hi => x \in m
    BY <1>1, <1>3, <1>4, <2>7
  <2> QED
    BY <1>2, <2>4, <2>5, <2>6, <2>8 DEF lo
<1> QED
  BY <1>5, <1>6

(* How many bits of the mask are below a position                          *)
Rank(m, i) == Cardinality({j \in m : j < i})

LEMMA RankFacts ==
  ASSUME NEW m \in BitSets, NEW i \in 0 .. Width
  PROVE  Rank(m, i) \in Nat /\ Rank(m, i) <= i
<1> DEFINE S == {j \in m : j < i}
<1>1. i \in Nat /\ \A j \in m : j \in Nat
  BY PowerFacts, PositionFacts DEF BitSets
<1>2. S \subseteq 0 .. i - 1
  BY <1>1
<1>3. IsFiniteSet(0 .. i - 1) /\ Cardinality(0 .. i - 1) = i
  BY <1>1, FS_Interval
<1>4. Cardinality(S) \in Nat
  BY BitsFinite DEF BitSets
<1> HIDE DEF S
<1>5. Cardinality(S) <= i
  BY <1>2, <1>3, FS_Subset
<1> QED
  BY <1>4, <1>5 DEF Rank, S

(* The rank grows by one at each position of a run.                        *)
LEMMA RunRanks ==
  ASSUME NEW m \in BitSets, NEW lo \in 0 .. Width, NEW x \in 0 .. Width, lo <= x,
         \A y \in Positions : lo <= y /\ y < x => y \in m
  PROVE  Rank(m, x) = Rank(m, lo) + (x - lo)
<1> DEFINE S == {j \in m : j < lo}
           T == lo .. x - 1
<1>1. Width \in Nat /\ lo \in Nat /\ x \in Nat /\ x <= Width /\ \A j \in m : j \in Nat /\ j < Width
  BY PowerFacts, PositionFacts DEF BitSets
<1>2. T \subseteq Positions
  BY <1>1 DEF Positions
<1>3. T \subseteq m
  BY <1>1, <1>2
<1>4. {j \in m : j < x} = S \cup T
  <2>1. \A j \in m : j < x <=> j < lo \/ j \in T
    BY <1>1
  <2> HIDE DEF T
  <2> QED
    BY <1>3, <2>1
<1>5. S \subseteq Positions /\ S \cap T = {}
  BY <1>1 DEF BitSets
<1>6. Cardinality(T) = x - lo
  <2>1. lo \in Int /\ x - 1 \in Int
    BY <1>1
  <2>2. Cardinality(T) = IF lo > x - 1 THEN 0 ELSE (x - 1) - lo + 1
    BY <2>1, FS_Interval
  <2> HIDE DEF T
  <2> QED
    BY <1>1, <2>2
<1> HIDE DEF S, T
<1>7. Cardinality(S \cup T) = Cardinality(S) + Cardinality(T)
  BY <1>2, <1>5, DisjointCount
<1> QED
  BY <1>4, <1>6, <1>7 DEF Rank, S

(* What the loops have done when they have dealt with the bits below t     *)
Gathered(v, m, t) == {Rank(m, x) : x \in {y \in v \cap m : y < t}}
Scattered(v, m, t) == {x \in m : x < t /\ Rank(m, x) \in v}
RunState(way, v, m, t) ==
  [m |-> {x \in m : x >= t},
   c |-> IF way = "compress" THEN Gathered(v, m, t) ELSE Scattered(v, m, t),
   i |-> Rank(m, t)]

RunTypes == [m : BitSets, c : BitSets, i : Nat]

LEMMA RunStateTyped ==
  ASSUME NEW way, NEW v \in BitSets, NEW m \in BitSets, NEW t \in 0 .. Width
  PROVE  RunState(way, v, m, t) \in RunTypes
<1>1. Width \in Nat /\ m \subseteq Positions /\ \A x \in m : x \in Nat /\ x < Width
  BY PowerFacts, PositionFacts DEF BitSets
<1>2. Gathered(v, m, t) \subseteq Positions
  <2> SUFFICES ASSUME NEW x \in m PROVE Rank(m, x) \in Positions
    BY DEF Gathered
  <2>1. x \in 0 .. Width
    BY <1>1
  <2>2. Rank(m, x) \in Nat /\ Rank(m, x) <= x
    BY <2>1, RankFacts
  <2> QED
    BY <1>1, <2>2 DEF Positions
<1>3. Scattered(v, m, t) \subseteq Positions /\ {x \in m : x >= t} \subseteq Positions
  BY <1>1 DEF Scattered
<1>4. Rank(m, t) \in Nat
  BY RankFacts
<1> QED
  BY <1>2, <1>3, <1>4 DEF RunState, RunTypes, BitSets

(* Moving the next run takes the loops past it.                            *)
LEMMA RunStep ==
  ASSUME NEW way \in {"compress", "decompress"}, NEW v \in BitSets, NEW m \in BitSets,
         NEW t \in 0 .. Width, {x \in m : x >= t} # {}
  PROVE  \E hi \in t + 1 .. Width : RunMoved(way, v, RunState(way, v, m, t)) = RunState(way, v, m, hi)
<1> DEFINE rest == {x \in m : x >= t}
           lo == Lowest(rest)
           run == LowestRun(rest)
<1>1. /\ Width \in Nat /\ t \in Nat /\ m \subseteq Positions /\ v \subseteq Positions
      /\ \A x \in Positions : x \in Nat /\ x < Width
  BY PowerFacts, PositionFacts DEF BitSets
<1>2. rest \in BitSets /\ rest # {}
  BY DEF BitSets
<1> HIDE DEF rest
<1>3. lo \in rest /\ lo \in Nat /\ lo < Width
  BY <1>2, LowestIs
<1>4. PICK hi \in lo + 1 .. Width :
         /\ hi \notin rest
         /\ \A x \in Positions : x \in rest => x >= lo
         /\ \A x \in Positions : lo <= x /\ x < hi => x \in rest
         /\ run = {x \in rest : x < hi}
  BY <1>2, LowestRunIs
<1> HIDE DEF lo, run
<1>5. lo \in m /\ lo >= t /\ hi \in Nat /\ hi > lo /\ hi <= Width
  BY <1>1, <1>3, <1>4 DEF rest
<1>6. hi \in t + 1 .. Width /\ hi \in 0 .. Width /\ lo \in 0 .. Width
  BY <1>1, <1>3, <1>5
<1>7. \A x \in Positions : x \in run <=> lo <= x /\ x < hi
  BY <1>1, <1>4 DEF rest
<1>8. run \subseteq Positions /\ run \subseteq m
  BY <1>1, <1>4 DEF rest
<1>9. \A x \in m : x < hi <=> x < t \/ x \in run
  BY <1>1, <1>3, <1>4, <1>5 DEF rest
<1>10. \A x \in run : x \in Nat /\ Rank(m, x) = Rank(m, lo) + (x - lo)
  <2> SUFFICES ASSUME NEW x \in run PROVE x \in Nat /\ Rank(m, x) = Rank(m, lo) + (x - lo)
    OBVIOUS
  <2>1. x \in Nat /\ x \in 0 .. Width /\ lo <= x /\ x < hi
    BY <1>1, <1>7, <1>8
  <2>2. \A y \in Positions : lo <= y /\ y < x => y \in m
    BY <1>1, <1>5, <1>7, <1>8, <2>1
  <2> QED
    BY <1>6, <2>1, <2>2, RunRanks
<1>11. Rank(m, hi) = Rank(m, lo) + (hi - lo)
  <2>1. \A y \in Positions : lo <= y /\ y < hi => y \in m
    BY <1>7, <1>8
  <2> QED
    BY <1>5, <1>6, <2>1, RunRanks
<1>12. Rank(m, lo) = Rank(m, t)
  <2>1. \A j \in m : j < lo <=> j < t
    BY <1>1, <1>4, <1>5 DEF rest
  <2> QED
    BY <2>1 DEF Rank
<1>13. Lowest(run) = lo
  <2>1. lo \in run /\ run \in BitSets
    BY <1>1, <1>5, <1>7, <1>8 DEF BitSets
  <2>2. Lowest(run) \in run /\ Lowest(run) \in Nat /\ Lowest(run) <= lo
    BY <2>1, LowestIs
  <2> QED
    BY <1>3, <1>7, <1>8, <2>2
<1>14. Cardinality(run) = hi - lo
  <2>1. run = lo .. hi - 1
    <3>1. \A x : x \in lo .. hi - 1 => x \in Positions /\ lo <= x /\ x < hi
      BY <1>1, <1>3, <1>5 DEF Positions
    <3>2. \A x \in Positions : lo <= x /\ x < hi => x \in lo .. hi - 1
      BY <1>1, <1>3, <1>5
    <3> QED
      BY <1>7, <1>8, <3>1, <3>2
  <2>2. lo \in Int /\ hi - 1 \in Int
    BY <1>3, <1>5
  <2>3. Cardinality(lo .. hi - 1) = IF lo > hi - 1 THEN 0 ELSE (hi - 1) - lo + 1
    BY <2>2, FS_Interval
  <2> QED
    BY <1>3, <1>5, <2>1, <2>3
<1> DEFINE moved == lo - Rank(m, t)
<1>15. Rank(m, t) \in Nat /\ \A x \in m : Rank(m, x) \in Nat /\ Rank(m, x) < Width
  <2>1. \A x \in m : x \in 0 .. Width /\ x \in Nat /\ x < Width
    BY <1>1
  <2>2. \A x \in m : Rank(m, x) \in Nat /\ Rank(m, x) <= x
    BY <2>1, RankFacts
  <2>3. Rank(m, t) \in Nat
    BY RankFacts
  <2> QED
    BY <1>1, <2>1, <2>2, <2>3
<1>16. \A x \in run : Rank(m, x) = x - moved
  BY <1>3, <1>10, <1>12, <1>15
<1> DEFINE s == RunState(way, v, m, t)
<1>17. s.m = rest /\ s.i = Rank(m, t)
       /\ s.c = IF way = "compress" THEN Gathered(v, m, t) ELSE Scattered(v, m, t)
  BY DEF RunState, rest
<1> HIDE DEF s
<1>18. RunMoved(way, v, s) =
         [m |-> rest \ run, c |-> s.c \cup Moved(way, v, run, moved), i |-> Rank(m, t) + Cardinality(run)]
  BY <1>13, <1>17 DEF RunMoved, run
<1>19. rest \ run = {x \in m : x >= hi}
  <2>1. \A x \in m : x \in rest /\ x \notin run <=> x >= hi
    BY <1>1, <1>4, <1>5 DEF rest
  <2> QED
    BY <1>8, <2>1 DEF rest
<1>20. Rank(m, t) + Cardinality(run) = Rank(m, hi)
  BY <1>11, <1>12, <1>14
<1>21. CASE way = "compress"
  <2>1. Moved(way, v, run, moved) = {Rank(m, x) : x \in v \cap run}
    <3>1. Moved(way, v, run, moved) = {x - moved : x \in v \cap run} \cap Positions
      BY <1>21 DEF Moved, ShiftRight
    <3>2. \A x \in v \cap run : Rank(m, x) = x - moved /\ Rank(m, x) \in Positions
      BY <1>1, <1>8, <1>15, <1>16 DEF Positions
    <3> HIDE DEF moved
    <3> QED
      BY <3>1, <3>2
  <2>2. {y \in v \cap m : y < hi} = {y \in v \cap m : y < t} \cup (v \cap run)
    BY <1>8, <1>9
  <2>3. Gathered(v, m, hi) = Gathered(v, m, t) \cup {Rank(m, x) : x \in v \cap run}
    BY <2>2 DEF Gathered
  <2>4. RunMoved(way, v, s) = RunState(way, v, m, hi)
    BY <1>17, <1>18, <1>19, <1>20, <1>21, <2>1, <2>3 DEF RunState
  <2> QED
    BY <1>6, <2>4 DEF s
<1>22. CASE way # "compress"
  <2>1. Moved(way, v, run, moved) = {x \in run : Rank(m, x) \in v}
    <3>1. Moved(way, v, run, moved) = {j + moved : j \in v} \cap Positions \cap run
      BY <1>22 DEF Moved, ShiftLeft
    <3>2. moved \in Int /\ \A j \in v : j \in Nat
      BY <1>1, <1>3, <1>15
    <3> HIDE DEF moved
    <3>3. \A x \in run : \A j \in v : x = j + moved <=> j = Rank(m, x)
      BY <1>10, <1>16, <3>2
    <3> QED
      BY <1>8, <3>1, <3>3
  <2>2. Scattered(v, m, hi) = Scattered(v, m, t) \cup {x \in run : Rank(m, x) \in v}
    BY <1>8, <1>9 DEF Scattered
  <2>3. RunMoved(way, v, s) = RunState(way, v, m, hi)
    BY <1>17, <1>18, <1>19, <1>20, <1>22, <2>1, <2>2 DEF RunState
  <2> QED
    BY <1>6, <2>3 DEF s
<1> QED
  BY <1>21, <1>22

(* The loops end with every bit of the mask dealt with.                    *)
LEMMA RunsExact ==
  ASSUME NEW way \in {"compress", "decompress"}, NEW v \in BitSets, NEW m \in BitSets
  PROVE  Runs(way, v, m) = RunState(way, v, m, Width).c
<1> DEFINE n == Width
           step == [k \in 1 .. n |-> [s \in RunTypes |->
                      IF s.m = {} THEN s ELSE RunMoved(way, v, s)]]
           first == [m |-> m, c |-> {}, i |-> 0]
           Is(t) == RunState(way, v, m, t)
           K == {p \in (0 .. n) \X RunTypes : \E t \in p[1] .. n : p[2] = Is(t)}
<1>1. n \in Nat /\ \A x \in m : x \in Nat /\ x < n /\ ~(x < 0) /\ ~(x >= n) /\ x >= 0
  BY PowerFacts, PositionFacts DEF BitSets
<1>2. first = Is(0)
  <2>1. {x \in m : x >= 0} = m /\ {x \in m : x < 0} = {}
    BY <1>1
  <2>2. Gathered(v, m, 0) = {} /\ Scattered(v, m, 0) = {}
    BY <1>1 DEF Gathered, Scattered
  <2>3. Rank(m, 0) = 0
    BY <2>1, FS_EmptySet DEF Rank
  <2> QED
    BY <2>1, <2>2, <2>3 DEF RunState
<1>3. \A t \in 0 .. n : Is(t) \in RunTypes
  BY RunStateTyped
<1>4. \A t \in 0 .. n : {x \in m : x >= t} = {} => Is(t) = Is(n)
  <2> SUFFICES ASSUME NEW t \in 0 .. n, {x \in m : x >= t} = {} PROVE Is(t) = Is(n)
    OBVIOUS
  <2>1. \A x \in m : x < t <=> x < n
    BY <1>1
  <2>2. {x \in m : x >= n} = {}
    BY <1>1
  <2>3. Gathered(v, m, t) = Gathered(v, m, n) /\ Scattered(v, m, t) = Scattered(v, m, n)
    BY <2>1 DEF Gathered, Scattered
  <2>4. Rank(m, t) = Rank(m, n)
    BY <2>1 DEF Rank
  <2> QED
    BY <2>2, <2>3, <2>4 DEF RunState
<1>5. <<0, first>> \in K
  <2>1. 0 \in 0 .. n
    BY <1>1
  <2> HIDE DEF Is, first
  <2> QED
    BY <1>2, <1>3, <2>1
<1>6. \A t \in 0 .. n : Is(t).m = {x \in m : x >= t}
  BY DEF RunState
<1>7. ASSUME NEW k \in 1 .. n, NEW s, <<k - 1, s>> \in K
      PROVE  <<k, step[k][s]>> \in K
  <2>1. PICK t \in k - 1 .. n : s = Is(t)
    BY <1>7
  <2>2. t \in 0 .. n /\ t \in Nat /\ k \in Nat /\ k \in 0 .. n /\ n \in k .. n /\ n \in 0 .. n
    BY <1>1
  <2>3. s \in RunTypes /\ s.m = {x \in m : x >= t}
    BY <1>3, <1>6, <2>1, <2>2
  <2>4. step[k][s] = IF s.m = {} THEN s ELSE RunMoved(way, v, s)
    BY <2>3
  <2>5. CASE s.m = {}
    <3>1. step[k][s] = Is(n) /\ Is(n) \in RunTypes
      BY <1>3, <1>4, <2>1, <2>2, <2>3, <2>4, <2>5
    <3> HIDE DEF step, Is
    <3> QED
      BY <2>2, <3>1
  <2>6. CASE s.m # {}
    <3>1. PICK hi \in t + 1 .. n : RunMoved(way, v, RunState(way, v, m, t)) = RunState(way, v, m, hi)
      BY <2>2, <2>3, <2>6, RunStep
    <3>2. hi \in k .. n /\ hi \in 0 .. n
      BY <2>1, <2>2
    <3>3. step[k][s] = Is(hi) /\ Is(hi) \in RunTypes
      BY <1>3, <2>1, <2>4, <2>6, <3>1, <3>2
    <3> HIDE DEF step, Is
    <3> QED
      BY <2>2, <3>2, <3>3
  <2> QED
    BY <2>5, <2>6
<1>8. <<n, Iterated(step, first, n)>> \in K
  <2> HIDE DEF K, step, first
  <2> QED
    BY <1>1, <1>5, <1>7, IteratedKeeps
<1>9. Runs(way, v, m) = Iterated(step, first, n).c
  BY DEF Runs, RunTypes
<1> HIDE DEF step, first
<1>10. PICK t \in n .. n : Iterated(step, first, n) = Is(t)
  BY <1>8
<1>11. t = n
  BY <1>1
<1> QED
  BY <1>9, <1>10, <1>11

LEMMA CompressionAlways == BitManipTypeOK => CompressionExact
<1> SUFFICES ASSUME BitManipTypeOK PROVE CompressionExact
  OBVIOUS
<1>1. data \in BitSets /\ mask \in BitSets
  BY BitManipAssumption DEF BitManipTypeOK, BitSets
<1>2. \A x \in mask : x < Width
  BY <1>1, PositionFacts DEF BitSets
<1>3. Gathered(data, mask, Width) = {Rank(mask, x) : x \in data \cap mask}
  BY <1>2 DEF Gathered
<1>4. Scattered(data, mask, Width) = {x \in mask : Rank(mask, x) \in data}
  BY <1>2 DEF Scattered
<1>5. bcompress(data, mask) = {Rank(mask, x) : x \in data \cap mask}
  BY <1>1, <1>3, RunsExact DEF bcompress, RunState
<1>6. bdecompress(data, mask) = {x \in mask : Rank(mask, x) \in data}
  BY <1>1, <1>4, RunsExact DEF bdecompress, RunState
<1> QED
  BY <1>5, <1>6 DEF CompressionExact, Rank

LEMMA PermutationsAlways == BitManipTypeOK => PermutationsExact
<1> SUFFICES ASSUME BitManipTypeOK PROVE PermutationsExact
  OBVIOUS
<1>1. data \in BitSets
  BY DEF BitManipTypeOK, BitSets
<1>2. shfl(data, Width \div 2 - 1) = {((2 * i) % Width) + (i \div (Width \div 2)) : i \in data}
  BY <1>1, ShuffleExact
<1>3. ASSUME NEW shamt \in Positions
      PROVE  /\ grev(data, shamt) =
                  {i \in Positions : \E j \in data : Xor(Index(i), Index(j)) = Index(shamt)}
             /\ gorc(data, shamt) =
                  {i \in Positions : \E j \in data : Xor(Index(i), Index(j)) \subseteq Index(shamt)}
             /\ unshfl(shfl(data, shamt), shamt) = data
  BY <1>1, GrevExact, GorcExact, UnshuffleExact
<1> QED
  BY <1>2, <1>3 DEF PermutationsExact

LEMMA RotationsExactAlways == BitManipTypeOK => RotationsExact
<1> SUFFICES ASSUME BitManipTypeOK PROVE RotationsExact
  OBVIOUS
<1>1. data \in BitSets /\ mask \in BitSets
  BY BitManipAssumption DEF BitManipTypeOK, BitSets
<1> DEFINE both == data \cup {i + Width : i \in mask}
<1>2. ASSUME NEW k \in 0 .. 2 * Width - 1
      PROVE  /\ fsr(data, mask, k) = {(i - k) % (2 * Width) : i \in both} \cap Positions
             /\ fsl(data, mask, k) =
                  {i - Width : i \in {(j + k + Width) % (2 * Width) : j \in both} \ Positions}
  BY <1>1, FunnelsAlways
<1>3. ASSUME NEW k \in 0 .. 2 * Width - 1, k < Width
      PROVE  /\ rol(data, k) = {(i + k) % Width : i \in data}
             /\ ror(data, k) = {(i - k) % Width : i \in data}
  <2>1. k \in 0 .. Width - 1
    BY <1>3, PowerFacts
  <2> QED
    BY <1>1, <2>1, RotationsAlways
<1> QED
  BY <1>2, <1>3 DEF RotationsExact

(* The bit-manipulation instructions compute what they are defined to      *)
(* compute, for every width that is a power of two and every operand: the  *)
(* counts, the carry-less products, the compressions, the permutations and *)
(* the rotations of riscv/insns/.                                          *)
THEOREM BitManipIsExact == BitManipTypeOK => BitsExact
BY CountsAlways, CarrylessAlways, CompressionAlways, PermutationsAlways, RotationsExactAlways
DEF BitsExact
=============================================================================
