---------------------------- MODULE MemoryProofs ----------------------------
(***************************************************************************)
(* Theorems about the cache simulator of CacheSim, for caches and memories *)
(* of every size and lines that nest, and about the regions and images of  *)
(* MemoryImage, for any chunk and page size and any program.               *)
(***************************************************************************)
EXTENDS CacheSim, MemoryImage, ComputationProofs

(* A quotient and a remainder are the only ones.                           *)
LEMMA QuotientIs ==
  ASSUME NEW m \in Nat \ {0}, NEW q \in Nat, NEW r \in Nat, r < m
  PROVE  (m * q + r) \div m = q /\ (m * q + r) % m = r
  BY SMTT(60)

(* Division by a number and then by a multiple of it. *)
LEMMA Nested ==
  ASSUME NEW a \in Nat \ {0}, NEW b \in Nat \ {0}, b % a = 0, NEW c \in Nat
  PROVE  ((c \div a) * a) \div b = c \div b
<1> DEFINE k == b \div a
           q1 == c \div a
           r1 == c % a
           q2 == q1 \div k
           r2 == q1 % k
<1>1. k \in Nat /\ b = a * k
  BY Quotients
<1>2. k \in Nat \ {0}
  BY <1>1
<1>3. q1 \in Nat /\ r1 \in Nat /\ r1 < a /\ c = a * q1 + r1
  BY Quotients
<1> HIDE DEF k, q1, r1
<1>4. q2 \in Nat /\ r2 \in Nat /\ r2 < k /\ q1 = k * q2 + r2
  BY <1>2, <1>3, Quotients
<1> HIDE DEF q2, r2
<1>5. a * r2 \in Nat /\ a * r2 + a <= b
  <2>1. r2 + 1 \in Nat /\ r2 + 1 <= k  BY <1>2, <1>4
  <2>2. a * (r2 + 1) <= a * k  BY <1>2, <2>1, ProductSign
  <2>3. a * (r2 + 1) = a * r2 + a  BY <1>4
  <2>4. a * r2 \in Nat  BY <1>4, ProductSign
  <2>5. a * k = b  BY <1>1
  <2> QED  BY <2>2, <2>3, <2>4, <2>5
<1>6. q1 * a = b * q2 + a * r2
  <2>1. q1 * a = (k * q2 + r2) * a  BY <1>4
  <2>2. (k * q2 + r2) * a = (a * k) * q2 + a * r2  BY <1>2, <1>4
  <2> QED  BY <1>1, <2>1, <2>2
<1>7. (b * q2 + a * r2) \div b = q2
  BY <1>4, <1>5, QuotientIs
<1>8. c = b * q2 + (a * r2 + r1)
  <2>1. a * q1 = q1 * a  BY <1>3
  <2>2. b * q2 \in Nat  BY <1>4, ProductSign
  <2> QED  BY <1>3, <1>5, <1>6, <2>1, <2>2
<1>9. (b * q2 + (a * r2 + r1)) \div b = q2
  <2>1. a * r2 + r1 \in Nat /\ a * r2 + r1 < b  BY <1>3, <1>5
  <2> QED  BY <1>4, <2>1, QuotientIs
<1>10. ((c \div a) * a) \div b = q2
  BY <1>6, <1>7 DEF q1
<1> QED  BY <1>8, <1>9, <1>10

(* The lines that there are, of each level                                 *)
Lines1 == {L1Of(c) : c \in Chunks}
Lines2 == {L2Of(c) : c \in Chunks}

LEMMA LineFacts ==
  /\ Lines1 \subseteq Lines /\ Lines2 \subseteq Lines
  /\ \A x \in Lines1 : LineBelow(x) \in Lines2
<1>1. ASSUME NEW c \in Chunks, NEW size \in Nat \ {0}
      PROVE  c \div size \in Chunks /\ (c \div size) * size \in Chunks
  <2> DEFINE q == c \div size
             r == c % size
  <2>1. c \in Nat /\ c < NChunks /\ NChunks \in Nat
    BY CacheAssumption DEF Chunks
  <2>2. q \in Nat /\ r \in Nat /\ c = size * q + r
    BY <1>1, <2>1, Quotients
  <2> HIDE DEF q, r
  <2>3. 1 * q \in Nat /\ 1 * q <= size * q /\ size * q \in Nat
    BY <1>1, <2>2, ProductSign
  <2>4. q * size = size * q /\ 1 * q = q
    BY <1>1, <2>2
  <2>5. q <= c /\ size * q <= c
    BY <2>1, <2>2, <2>3, <2>4
  <2>6. q \in Chunks /\ q * size \in Chunks
    BY <2>1, <2>2, <2>3, <2>4, <2>5 DEF Chunks
  <2> QED  BY <2>6 DEF q
<1>2. L1Line \in Nat \ {0} /\ L2Line \in Nat \ {0}
  BY CacheAssumption
<1>3. ASSUME NEW c \in Chunks
      PROVE  L1Of(c) \in Lines /\ L2Of(c) \in Lines /\ L1Of(c) * L1Line \in Chunks
  BY <1>1, <1>2 DEF L1Of, L2Of, Lines
<1>4. \A c \in Chunks : LineBelow(L1Of(c)) = L2Of(L1Of(c) * L1Line)
  BY DEF LineBelow
<1> QED
  BY <1>3, <1>4 DEF Lines1, Lines2

(* Where lines nest, an access of the second level at the first address of *)
(* a line of the first is to the line that holds all of it.                *)
LEMMA NestFacts ==
  ASSUME LinesNest
  PROVE  /\ \A c \in Chunks : LineBelow(L1Of(c)) = L2Of(c)
         /\ \A c, d \in Chunks : L1Of(c) = L1Of(d) => L2Of(c) = L2Of(d)
         /\ \A c, d \in Chunks : L2Of(c) = L2Of(d) => c \div BlockSize = d \div BlockSize
<1>1. /\ L1Line \in Nat \ {0} /\ L2Line \in Nat \ {0} /\ BlockSize \in Nat \ {0}
      /\ \A c \in Chunks : c \in Nat
  BY CacheAssumption DEF Chunks
<1>2. \A c \in Chunks : LineBelow(L1Of(c)) = L2Of(c)
  <2>1. ASSUME NEW c \in Chunks PROVE ((c \div L1Line) * L1Line) \div L2Line = c \div L2Line
    BY <1>1, Nested DEF LinesNest
  <2> QED  BY <2>1 DEF LineBelow, L1Of, L2Of
<1>3. \A c \in Chunks : (L2Of(c) * L2Line) \div BlockSize = c \div BlockSize
  <2>1. ASSUME NEW c \in Chunks
        PROVE  ((c \div L2Line) * L2Line) \div BlockSize = c \div BlockSize
    BY <1>1, Nested DEF LinesNest
  <2> QED  BY <2>1 DEF L2Of
<1>4. ASSUME NEW c \in Chunks, NEW d \in Chunks, L2Of(c) = L2Of(d)
      PROVE  c \div BlockSize = d \div BlockSize
  <2>1. (L2Of(c) * L2Line) \div BlockSize = (L2Of(d) * L2Line) \div BlockSize
    BY <1>4
  <2> QED  BY <1>3, <2>1
<1>5. ASSUME NEW c \in Chunks, NEW d \in Chunks, L1Of(c) = L1Of(d)
      PROVE  L2Of(c) = L2Of(d)
  <2>1. LineBelow(L1Of(c)) = LineBelow(L1Of(d))  BY <1>5
  <2> QED  BY <1>2, <2>1
<1> QED  BY <1>2, <1>4, <1>5
-----------------------------------------------------------------------------
(* A line is held, and dirty *)
DirtyHit(tags, x) == \E s \in Hits(tags, x) : tags[s].dirty

(* A valid slot holds one of these lines, and no other slot the same *)
Single(tags, lines) ==
  /\ \A s \in DOMAIN tags : tags[s].valid => tags[s].line \in lines
  /\ \A s, t \in DOMAIN tags : tags[s].valid /\ tags[t].valid /\ tags[s].line = tags[t].line => s = t

(* What an access does to one cache, whatever its size: the line is held   *)
(* afterwards, and dirty after a store; of the others only a dirty victim  *)
(* stops to be dirty, and that one is written back.                        *)
LEMMA AccessedTags ==
  ASSUME NEW S, NEW tags \in [S -> TagWords],
         NEW L \in SUBSET Lines, Single(tags, L), NEW x \in L, NEW store \in BOOLEAN, NEW way \in S
  PROVE  /\ Accessed(tags, x, store, way) \in [S -> TagWords]
         /\ Single(Accessed(tags, x, store, way), L)
         /\ store => DirtyHit(Accessed(tags, x, store, way), x)
         /\ \A y \in L : DirtyHit(tags, y) =>
              \/ DirtyHit(Accessed(tags, x, store, way), y)
              \/ y \in WrittenBack(tags, x, way)
         /\ Hits(tags, x) # {} => WrittenBack(tags, x, way) = {}
<1> DEFINE filled == IF Hits(tags, x) # {} THEN tags
                     ELSE [tags EXCEPT ![way] = [line |-> x, valid |-> TRUE, dirty |-> FALSE]]
           final == IF store THEN Dirtied(filled, x) ELSE filled
<1>1. filled \in [S -> TagWords]
  BY DEF TagWords
<1>2. Hits(filled, x) # {}
  BY DEF Hits
<1>3. Single(filled, L)
  BY DEF Single, Hits
<1>4. \A s \in S : filled[s] # tags[s] => s = way /\ Hits(tags, x) = {}
  OBVIOUS
<1>5. ASSUME NEW y \in L, DirtyHit(tags, y), y \notin WrittenBack(tags, x, way)
      PROVE  DirtyHit(filled, y)
  BY <1>4, <1>5 DEF DirtyHit, Hits, WrittenBack
<1> HIDE DEF filled
<1>6. /\ Dirtied(filled, x) \in [S -> TagWords]
      /\ \A s \in S : /\ Dirtied(filled, x)[s].line = filled[s].line
                      /\ Dirtied(filled, x)[s].valid = filled[s].valid
                      /\ Dirtied(filled, x)[s].dirty = (filled[s].dirty \/ s \in Hits(filled, x))
  BY <1>1 DEF Dirtied, TagWords, Hits
<1>7. final \in [S -> TagWords]
  BY <1>1, <1>6
<1>8. /\ \A s \in S : /\ final[s].line = filled[s].line /\ final[s].valid = filled[s].valid
                      /\ filled[s].dirty => final[s].dirty
      /\ store => \A s \in Hits(filled, x) : final[s].dirty
  BY <1>1, <1>6, Zenon DEF Hits
<1> HIDE DEF final
<1>9. Single(final, L)
  BY <1>1, <1>3, <1>7, <1>8 DEF Single
<1>10. store => DirtyHit(final, x)
  BY <1>1, <1>2, <1>7, <1>8 DEF DirtyHit, Hits
<1>11. \A y \in L : DirtyHit(filled, y) => DirtyHit(final, y)
  BY <1>1, <1>7, <1>8 DEF DirtyHit, Hits
<1>12. Hits(tags, x) # {} => WrittenBack(tags, x, way) = {}
  BY DEF WrittenBack
<1>13. Accessed(tags, x, store, way) = final
  BY DEF Accessed, final, filled
<1> QED
  BY <1>5, <1>7, <1>9, <1>10, <1>11, <1>12, <1>13

Places == {"L1", "L2", "memory"}

(* What an access of the second level keeps                                *)
Kept(S, tags, x, store, way, where) ==
  LET tags2 == Accessed(tags, x, store, way)
      after == Flushed(where, WrittenBack(tags, x, way))
  IN
  \A c \in Chunks : /\ after[c] = "L2" => DirtyHit(tags2, L2Of(c))
                    /\ after[c] = "L1" => where[c] = "L1"

LEMMA FlushedType ==
  ASSUME NEW where \in [Chunks -> Places], NEW lines
  PROVE  Flushed(where, lines) \in [Chunks -> Places]
BY DEF Flushed, Places

(* A second level that loses no store by an access                         *)
LEMMA SecondLevelKeeps ==
  ASSUME NEW S, NEW tags \in [S -> TagWords], Single(tags, Lines2),
         NEW x \in Lines2, NEW store \in BOOLEAN, NEW way \in S,
         NEW where \in [Chunks -> Places],
         \A c \in Chunks :
           where[c] = "L2" => DirtyHit(tags, L2Of(c)) \/ (store /\ L2Of(c) = x)
  PROVE  Kept(S, tags, x, store, way, where)
<1> SUFFICES
      \A c \in Chunks :
        /\ Flushed(where, WrittenBack(tags, x, way))[c] = "L2"
             => DirtyHit(Accessed(tags, x, store, way), L2Of(c))
        /\ Flushed(where, WrittenBack(tags, x, way))[c] = "L1" => where[c] = "L1"
  BY Zenon DEF Kept
<1> DEFINE tags2 == Accessed(tags, x, store, way)
           lines == WrittenBack(tags, x, way)
<1>1. /\ store => DirtyHit(tags2, x)
      /\ \A z \in Lines2 : DirtyHit(tags, z) => DirtyHit(tags2, z) \/ z \in lines
  BY AccessedTags, LineFacts
<1> HIDE DEF lines, tags2
<1>2. \A c \in Chunks : Flushed(where, lines)[c]
                          = IF L2Of(c) \in lines /\ where[c] = "L2" THEN "memory" ELSE where[c]
  BY DEF Flushed
<1>3. \A c \in Chunks : L2Of(c) \in Lines2
  BY DEF Lines2
<1> QED
  BY <1>1, <1>2, <1>3 DEF lines, tags2

(* Cleaning and invalidating lines disturbs no other                       *)
LEMMA CleanInvalidatedTags ==
  ASSUME NEW S, NEW tags \in [S -> TagWords], NEW L \in SUBSET Lines, Single(tags, L),
         NEW lines \in SUBSET L, NEW clean \in BOOLEAN, NEW inval \in BOOLEAN
  PROVE  LET after == CleanInvalidated(tags, lines, clean, inval) IN
         /\ after \in [S -> TagWords] /\ Single(after, L)
         /\ \A y \in L \ lines : DirtyHit(tags, y) => DirtyHit(after, y)
<1> DEFINE after == CleanInvalidated(tags, lines, clean, inval)
<1>1. after \in [S -> TagWords]
  BY DEF CleanInvalidated, TagWords
<1>2. \A s \in S : /\ after[s].line = tags[s].line
                   /\ after[s].valid => tags[s].valid
                   /\ ~(tags[s].valid /\ tags[s].line \in lines) => after[s] = tags[s]
  BY DEF CleanInvalidated, TagWords
<1> HIDE DEF after
<1>3. Single(after, L)
  BY <1>1, <1>2 DEF Single
<1>4. \A y \in L \ lines : DirtyHit(tags, y) => DirtyHit(after, y)
  BY <1>1, <1>2 DEF DirtyHit, Hits
<1> QED
  BY <1>1, <1>3, <1>4 DEF after
-----------------------------------------------------------------------------
(* The tags, for every geometry                                            *)
CacheTyped ==
  /\ CacheTypeOK
  /\ Single(l1, Lines1) /\ Single(l2, Lines2)

(* Where the last stores are, for geometries that nest                     *)
CacheKeeps ==
  \A c \in Chunks : /\ newest[c] = "L1" => DirtyHit(l1, L1Of(c))
                    /\ newest[c] = "L2" => DirtyHit(l2, L2Of(c))

LEMMA CacheInitInv == CacheInit => CacheTyped /\ CacheKeeps
  BY DEF CacheInit, CacheTyped, CacheKeeps, CacheTypeOK, Single, TagWords, Empty

(* The parts of DataAccess, named.                                         *)
Stored(where, c, store) == IF store THEN [where EXCEPT ![c] = "L1"] ELSE where
MovedDown(down) ==
  [d \in Chunks |-> IF L1Of(d) \in down /\ newest[d] = "L1" THEN "L2" ELSE newest[d]]

(* An access that would choose a way: it hits, or misses with no dirty     *)
(* victim, or with one.                                                    *)
AccessBy(c, store, way) ==
  LET x == L1Of(c)
      down == WrittenBack(l1, x, way)
      y == LineBelow(l1[way].line)
  IN
  /\ l1' = Accessed(l1, x, store, way)
  /\ \/ Hits(l1, x) # {} /\ l2' = l2 /\ newest' = Stored(newest, c, store)
     \/ /\ Hits(l1, x) = {} /\ down = {}
        /\ \E w \in Victims(l2, L2Sets, LineBelow(x)) :
             /\ l2' = Accessed(l2, LineBelow(x), FALSE, w)
             /\ newest' = Stored(Flushed(newest, WrittenBack(l2, LineBelow(x), w)), c, store)
     \/ /\ Hits(l1, x) = {} /\ down # {}
        /\ \E w \in Victims(l2, L2Sets, y), w2 \in Victims(l2, L2Sets, LineBelow(x)) :
             /\ l2' = Accessed(Accessed(l2, y, TRUE, w), LineBelow(x), FALSE, w2)
             /\ newest' = Stored(Flushed(Flushed(MovedDown(down), WrittenBack(l2, y, w)),
                                         WrittenBack(Accessed(l2, y, TRUE, w), LineBelow(x), w2)),
                                 c, store)

LEMMA DataAccessParts ==
  ASSUME NEW c \in Chunks, NEW store \in BOOLEAN, DataAccess(c, store)
  PROVE  \E way \in Victims(l1, L1Sets, L1Of(c)) : AccessBy(c, store, way)
BY Zenon DEF DataAccess, AccessBy, Stored, MovedDown

(* Whatever the geometry, an access keeps the tags typed.                  *)
LEMMA SecondLevelTyped ==
  ASSUME CacheTyped, NEW x \in Lines2, NEW store \in BOOLEAN, NEW w \in L2Slots
  PROVE  /\ Accessed(l2, x, store, w) \in [L2Slots -> TagWords]
         /\ Single(Accessed(l2, x, store, w), Lines2)
BY AccessedTags, LineFacts DEF CacheTyped, CacheTypeOK

LEMMA DataAccessTyped ==
  ASSUME CacheTyped, NEW c \in Chunks, NEW store \in BOOLEAN, DataAccess(c, store)
  PROVE  CacheTyped'
<1> DEFINE x == L1Of(c)
<1>1. PICK way \in Victims(l1, L1Sets, x) : AccessBy(c, store, way)
  BY DataAccessParts
<1> DEFINE down == WrittenBack(l1, x, way)
           y == LineBelow(l1[way].line)
<1>2. /\ l1 \in [L1Slots -> TagWords] /\ l2 \in [L2Slots -> TagWords]
      /\ newest \in [Chunks -> Places] /\ way \in L1Slots
      /\ Single(l1, Lines1) /\ Single(l2, Lines2)
      /\ x \in Lines1 /\ LineBelow(x) \in Lines2
      /\ Lines1 \subseteq Lines /\ Lines2 \subseteq Lines
  BY LineFacts DEF CacheTyped, CacheTypeOK, Victims, Places, Lines1
<1>3. l1' \in [L1Slots -> TagWords] /\ Single(l1', Lines1)
  <2>1. l1' = Accessed(l1, x, store, way)  BY <1>1 DEF AccessBy
  <2> QED  BY <1>2, <2>1, AccessedTags
<1>4. MovedDown(down) \in [Chunks -> Places]
  BY <1>2 DEF MovedDown, Places
<1>5. \A where \in [Chunks -> Places] : Stored(where, c, store) \in [Chunks -> Places]
  BY DEF Stored, Places
<1>6. Victims(l2, L2Sets, LineBelow(x)) \subseteq L2Slots /\ Victims(l2, L2Sets, y) \subseteq L2Slots
  BY <1>2 DEF Victims
<1>7. SUFFICES l2' \in [L2Slots -> TagWords] /\ Single(l2', Lines2)
               /\ newest' \in [Chunks -> Places]
  BY <1>3 DEF CacheTyped, CacheTypeOK, Places
<1> HIDE DEF x
<1>8. CASE l2' = l2 /\ newest' = Stored(newest, c, store)
  BY <1>2, <1>5, <1>8
<1>9. ASSUME NEW w \in Victims(l2, L2Sets, LineBelow(x)),
             l2' = Accessed(l2, LineBelow(x), FALSE, w),
             newest' = Stored(Flushed(newest, WrittenBack(l2, LineBelow(x), w)), c, store)
      PROVE  l2' \in [L2Slots -> TagWords] /\ Single(l2', Lines2) /\ newest' \in [Chunks -> Places]
  BY <1>2, <1>5, <1>6, <1>9, SecondLevelTyped, FlushedType
<1>10. ASSUME NEW w \in Victims(l2, L2Sets, y), NEW w2 \in Victims(l2, L2Sets, LineBelow(x)), down # {},
              l2' = Accessed(Accessed(l2, y, TRUE, w), LineBelow(x), FALSE, w2),
              newest' = Stored(Flushed(Flushed(MovedDown(down), WrittenBack(l2, y, w)),
                                       WrittenBack(Accessed(l2, y, TRUE, w), LineBelow(x), w2)), c, store)
      PROVE  l2' \in [L2Slots -> TagWords] /\ Single(l2', Lines2) /\ newest' \in [Chunks -> Places]
  <2>1. y \in Lines2
    <3>1. l1[way].line \in Lines1  BY <1>2, <1>10 DEF WrittenBack, Single
    <3> QED  BY <3>1, LineFacts
  <2> DEFINE between == Accessed(l2, y, TRUE, w)
  <2>2. between \in [L2Slots -> TagWords] /\ Single(between, Lines2)
    BY <1>6, <2>1, SecondLevelTyped
  <2>3. l2' = Accessed(between, LineBelow(x), FALSE, w2)
    BY <1>10
  <2> HIDE DEF between
  <2>4. l2' \in [L2Slots -> TagWords] /\ Single(l2', Lines2)
    BY <1>2, <1>6, <2>2, <2>3, AccessedTags
  <2>5. Flushed(MovedDown(down), WrittenBack(l2, y, w)) \in [Chunks -> Places]
    BY <1>4, FlushedType
  <2>6. Flushed(Flushed(MovedDown(down), WrittenBack(l2, y, w)),
                WrittenBack(Accessed(l2, y, TRUE, w), LineBelow(x), w2)) \in [Chunks -> Places]
    BY <2>5, FlushedType
  <2>7. newest' \in [Chunks -> Places]
    BY <1>5, <1>10, <2>6
  <2> QED  BY <2>4, <2>7
<1> QED
  BY <1>1, <1>8, <1>9, <1>10, Zenon DEF AccessBy, x

(* Where lines nest, an access loses no store.                             *)
LEMMA DataAccessKeeps ==
  ASSUME LinesNest, CacheTyped, CacheTyped', CacheKeeps,
         NEW c \in Chunks, NEW store \in BOOLEAN, DataAccess(c, store)
  PROVE  CacheKeeps'
<1> DEFINE x == L1Of(c)
<1>1. PICK way \in Victims(l1, L1Sets, x) : AccessBy(c, store, way)
  BY DataAccessParts
<1> DEFINE down == WrittenBack(l1, x, way)
           y == LineBelow(l1[way].line)
<1>2. /\ l1 \in [L1Slots -> TagWords] /\ l2 \in [L2Slots -> TagWords]
      /\ newest \in [Chunks -> Places] /\ way \in L1Slots
      /\ Single(l1, Lines1) /\ Single(l2, Lines2)
      /\ x \in Lines1 /\ LineBelow(x) \in Lines2
      /\ Lines1 \subseteq Lines /\ Lines2 \subseteq Lines
      /\ \A d \in Chunks : L1Of(d) \in Lines1
  BY LineFacts DEF CacheTyped, CacheTypeOK, Victims, Places, Lines1
<1>3. /\ store => DirtyHit(l1', x)
      /\ \A z \in Lines1 : DirtyHit(l1, z) => DirtyHit(l1', z) \/ z \in down
      /\ Hits(l1, x) # {} => down = {}
  <2> DEFINE after == Accessed(l1, x, store, way)
  <2>1. l1' = after  BY <1>1 DEF AccessBy
  <2> HIDE DEF x
  <2>2. /\ store => DirtyHit(after, x)
        /\ \A z \in Lines1 : DirtyHit(l1, z) => DirtyHit(after, z) \/ z \in down
        /\ Hits(l1, x) # {} => down = {}
    BY <1>2, AccessedTags
  <2> HIDE DEF after, down
  <2> QED  BY <2>1, <2>2
\* What is left to show of each way to update the second level
<1>4. ASSUME NEW where \in [Chunks -> Places], newest' = Stored(where, c, store),
             \A d \in Chunks : /\ where[d] = "L1" => newest[d] = "L1" /\ L1Of(d) \notin down
                               /\ where[d] = "L2" => DirtyHit(l2', L2Of(d))
      PROVE  CacheKeeps'
  <2>1. \A d \in Chunks : newest'[d] = IF store /\ d = c THEN "L1" ELSE where[d]
    BY <1>4 DEF Stored
  <2>2. \A d \in Chunks : /\ newest'[d] = "L1" => DirtyHit(l1', L1Of(d))
                          /\ newest'[d] = "L2" => DirtyHit(l2', L2Of(d))
    BY <1>2, <1>3, <1>4, <2>1 DEF CacheKeeps
  <2> QED
    BY <2>2 DEF CacheKeeps
<1>5. CASE Hits(l1, x) # {} /\ l2' = l2 /\ newest' = Stored(newest, c, store)
  BY <1>2, <1>3, <1>4, <1>5 DEF CacheKeeps
<1>6. ASSUME Hits(l1, x) = {}, down = {}, NEW w \in Victims(l2, L2Sets, LineBelow(x)),
             l2' = Accessed(l2, LineBelow(x), FALSE, w),
             newest' = Stored(Flushed(newest, WrittenBack(l2, LineBelow(x), w)), c, store)
      PROVE  CacheKeeps'
  <2>1. w \in L2Slots
    BY <1>2, <1>6 DEF Victims
  <2> DEFINE after == Flushed(newest, WrittenBack(l2, LineBelow(x), w))
  <2>2. Kept(L2Slots, l2, LineBelow(x), FALSE, w, newest)
    <3>1. \A d \in Chunks :
            newest[d] = "L2" => DirtyHit(l2, L2Of(d)) \/ (FALSE /\ L2Of(d) = LineBelow(x))
      BY DEF CacheKeeps
    <3> QED
      BY <1>2, <2>1, <3>1, SecondLevelKeeps
  <2>3. \A d \in Chunks : /\ after[d] = "L2" => DirtyHit(l2', L2Of(d))
                          /\ after[d] = "L1" => newest[d] = "L1"
    BY <1>6, <2>2, Zenon DEF Kept
  <2>4. after \in [Chunks -> Places]
    BY <1>2, FlushedType
  <2>5. newest' = Stored(after, c, store)
    BY <1>6
  <2> HIDE DEF after
  <2> QED
    BY <1>4, <1>6, <2>3, <2>4, <2>5
<1>7. ASSUME Hits(l1, x) = {}, down # {},
             NEW w \in Victims(l2, L2Sets, y), NEW w2 \in Victims(l2, L2Sets, LineBelow(x)),
             l2' = Accessed(Accessed(l2, y, TRUE, w), LineBelow(x), FALSE, w2),
             newest' = Stored(Flushed(Flushed(MovedDown(down), WrittenBack(l2, y, w)),
                                      WrittenBack(Accessed(l2, y, TRUE, w), LineBelow(x), w2)), c, store)
      PROVE  CacheKeeps'
  <2> DEFINE between == Accessed(l2, y, TRUE, w)
             first == Flushed(MovedDown(down), WrittenBack(l2, y, w))
             second == Flushed(first, WrittenBack(between, LineBelow(x), w2))
  <2>1. w \in L2Slots /\ w2 \in L2Slots
    BY <1>2, <1>7 DEF Victims
  <2>2. l1[way].line \in Lines1 /\ down = {l1[way].line}
    BY <1>2, <1>7 DEF WrittenBack, Single
  <2>3. y \in Lines2 /\ \A d \in Chunks : L1Of(d) \in down => L2Of(d) = y
    BY <2>2, LineFacts, NestFacts
  <2>4. MovedDown(down) \in [Chunks -> Places]
    BY <1>2 DEF MovedDown, Places
  <2>5. \A d \in Chunks :
          /\ MovedDown(down)[d] = "L2" => DirtyHit(l2, L2Of(d)) \/ (TRUE /\ L2Of(d) = y)
          /\ MovedDown(down)[d] = "L1" => newest[d] = "L1" /\ L1Of(d) \notin down
    BY <2>3 DEF MovedDown, CacheKeeps
  <2> HIDE DEF y, down
  <2>6. between \in [L2Slots -> TagWords] /\ Single(between, Lines2)
    BY <2>1, <2>3, SecondLevelTyped
  <2>7. \A d \in Chunks : /\ first[d] = "L2" => DirtyHit(between, L2Of(d))
                          /\ first[d] = "L1" => MovedDown(down)[d] = "L1"
    <3>1. Kept(L2Slots, l2, y, TRUE, w, MovedDown(down))
      BY <1>2, <2>1, <2>3, <2>4, <2>5, SecondLevelKeeps
    <3> QED
      BY <3>1, Zenon DEF Kept
  <2>8. first \in [Chunks -> Places]
    BY <2>4, FlushedType
  <2>9. l2' = Accessed(between, LineBelow(x), FALSE, w2) /\ newest' = Stored(second, c, store)
    BY <1>7, Zenon
  <2> HIDE DEF between, first
  <2>10. \A d \in Chunks :
           first[d] = "L2" => DirtyHit(between, L2Of(d)) \/ (FALSE /\ L2Of(d) = LineBelow(x))
    BY <2>7
  <2>11. \A d \in Chunks : /\ second[d] = "L2" => DirtyHit(l2', L2Of(d))
                           /\ second[d] = "L1" => first[d] = "L1"
    <3>1. Kept(L2Slots, between, LineBelow(x), FALSE, w2, first)
      BY <1>2, <2>1, <2>6, <2>8, <2>10, SecondLevelKeeps
    <3> QED
      BY <2>9, <3>1, Zenon DEF Kept
  <2>12. second \in [Chunks -> Places]
    BY <2>8, FlushedType
  <2> HIDE DEF second
  <2> QED
    BY <1>4, <2>5, <2>7, <2>9, <2>11, <2>12
<1> QED
  BY <1>1, <1>5, <1>6, <1>7, Zenon DEF AccessBy

LEMMA InstructionMissInv ==
  ASSUME CacheTyped, NEW c \in Chunks, InstructionMiss(c)
  PROVE  CacheTyped' /\ (CacheKeeps => CacheKeeps')
<1> DEFINE x == L2Of(c)
<1>1. PICK w \in Victims(l2, L2Sets, x) :
        /\ l2' = Accessed(l2, x, FALSE, w)
        /\ newest' = Flushed(newest, WrittenBack(l2, x, w))
        /\ l1' = l1
  BY DEF InstructionMiss
<1>2. /\ l2 \in [L2Slots -> TagWords] /\ newest \in [Chunks -> Places] /\ w \in L2Slots
      /\ Single(l2, Lines2) /\ x \in Lines2
  BY DEF CacheTyped, CacheTypeOK, Victims, Places, Lines2
<1> HIDE DEF x
<1>3. /\ l2' \in [L2Slots -> TagWords] /\ Single(l2', Lines2)
      /\ newest' \in [Chunks -> Places]
  BY <1>1, <1>2, SecondLevelTyped, FlushedType
<1>4. CacheTyped'
  BY <1>1, <1>3 DEF CacheTyped, CacheTypeOK, Places
<1>5. ASSUME CacheKeeps PROVE CacheKeeps'
  <2>1. \A d \in Chunks : newest[d] = "L2" => DirtyHit(l2, L2Of(d)) \/ (FALSE /\ L2Of(d) = x)
    BY <1>5 DEF CacheKeeps
  <2>2. Kept(L2Slots, l2, x, FALSE, w, newest)
    BY <1>2, <2>1, SecondLevelKeeps
  <2>3. \A d \in Chunks : /\ newest'[d] = "L2" => DirtyHit(l2', L2Of(d))
                          /\ newest'[d] = "L1" => newest[d] = "L1"
    BY <1>1, <2>2, Zenon DEF Kept
  <2> QED
    BY <1>1, <1>5, <2>3 DEF CacheKeeps
<1> QED
  BY <1>4, <1>5

LEMMA CacheManagementInv ==
  ASSUME CacheTyped, NEW c \in Chunks, NEW clean \in BOOLEAN, NEW inval \in BOOLEAN,
         CacheManagement(c, clean, inval)
  PROVE  CacheTyped' /\ (LinesNest /\ CacheKeeps => CacheKeeps')
<1> DEFINE lines1 == {L1Of(d) : d \in Block(c)}
           lines2 == {L2Of(d) : d \in Block(c)}
           settled == Block(c) \cup (IF clean THEN Cleaned(lines1, lines2) ELSE {})
<1>1. /\ l1' = CleanInvalidated(l1, lines1, clean, inval)
      /\ l2' = CleanInvalidated(l2, lines2, clean, inval)
      /\ newest' = [d \in Chunks |-> IF d \in settled THEN "memory" ELSE newest[d]]
  BY Zenon DEF CacheManagement
<1>2. /\ Block(c) \subseteq Chunks
      /\ lines1 \in SUBSET Lines1 /\ lines2 \in SUBSET Lines2
      /\ Lines1 \in SUBSET Lines /\ Lines2 \in SUBSET Lines
  BY LineFacts DEF Block, Lines1, Lines2
<1>3. /\ l1 \in [L1Slots -> TagWords] /\ Single(l1, Lines1)
      /\ l2 \in [L2Slots -> TagWords] /\ Single(l2, Lines2)
      /\ newest \in [Chunks -> Places]
  BY DEF CacheTyped, CacheTypeOK, Places
<1> HIDE DEF lines1, lines2
<1>4. /\ l1' \in [L1Slots -> TagWords] /\ Single(l1', Lines1)
      /\ l2' \in [L2Slots -> TagWords] /\ Single(l2', Lines2)
      /\ \A y \in Lines1 \ lines1 : DirtyHit(l1, y) => DirtyHit(l1', y)
      /\ \A y \in Lines2 \ lines2 : DirtyHit(l2, y) => DirtyHit(l2', y)
  BY <1>1, <1>2, <1>3, CleanInvalidatedTags
<1>5. newest' \in [Chunks -> Places]
  BY <1>1, <1>3 DEF Places
<1>6. CacheTyped'
  BY <1>4, <1>5 DEF CacheTyped, CacheTypeOK, Places
<1>7. ASSUME LinesNest, CacheKeeps PROVE CacheKeeps'
  <2>1. ASSUME NEW d \in Chunks, d \notin Block(c)
        PROVE  L1Of(d) \in Lines1 \ lines1 /\ L2Of(d) \in Lines2 \ lines2
    <3>1. \A e \in Block(c) : d \div BlockSize # e \div BlockSize /\ e \in Chunks
      BY <2>1 DEF Block
    <3>2. \A e \in Block(c) : L2Of(d) # L2Of(e) /\ L1Of(d) # L1Of(e)
      BY <1>7, <3>1, NestFacts
    <3> QED
      BY <3>2 DEF Lines1, Lines2, lines1, lines2
  <2>2. \A d \in Chunks : newest'[d] # "memory" => d \notin Block(c) /\ newest'[d] = newest[d]
    BY <1>1
  <2> QED
    BY <1>4, <1>7, <2>1, <2>2 DEF CacheKeeps
<1> QED
  BY <1>6, <1>7

LEMMA CacheStepTyped == CacheTyped /\ [CacheNext]_cacheVars => CacheTyped'
<1> SUFFICES ASSUME CacheTyped, [CacheNext]_cacheVars PROVE CacheTyped'
  OBVIOUS
<1>1. CASE UNCHANGED cacheVars
  BY <1>1 DEF cacheVars, CacheTyped, CacheTypeOK, Single
<1> QED
  BY <1>1, DataAccessTyped, InstructionMissInv, CacheManagementInv DEF CacheNext

LEMMA CacheStepKeeps ==
  ASSUME LinesNest
  PROVE  CacheTyped /\ CacheTyped' /\ CacheKeeps /\ [CacheNext]_cacheVars => CacheKeeps'
<1> SUFFICES ASSUME CacheTyped, CacheTyped', CacheKeeps, [CacheNext]_cacheVars PROVE CacheKeeps'
  OBVIOUS
<1>1. CASE UNCHANGED cacheVars
  BY <1>1 DEF cacheVars, CacheKeeps, DirtyHit, Hits
<1> QED
  BY <1>1, DataAccessKeeps, InstructionMissInv, CacheManagementInv DEF CacheNext

(* The tags keep their types, for caches of every size and lines of every  *)
(* size.                                                                   *)
THEOREM CacheTypeCorrect == CacheSpec => []CacheTypeOK
<1>1. CacheInit => CacheTyped
  BY CacheInitInv
<1>2. CacheTyped /\ [CacheNext]_cacheVars => CacheTyped'
  BY CacheStepTyped
<1>3. CacheTyped => CacheTypeOK
  BY DEF CacheTyped
<1> QED
  BY <1>1, <1>2, <1>3, PTL DEF CacheSpec

(* If the lines of the second level are made of whole lines of the first,  *)
(* and blocks of whole lines of both, no line is held twice and no store   *)
(* is forgotten, whatever the caches evict, clean and invalidate.          *)
THEOREM CacheStoresKept == ASSUME LinesNest PROVE CacheSpec => []StoresKept
<1>1. CacheInit => CacheTyped /\ CacheKeeps
  BY CacheInitInv
<1>2. CacheTyped /\ [CacheNext]_cacheVars => CacheTyped'
  BY CacheStepTyped
<1>3. CacheTyped /\ CacheTyped' /\ CacheKeeps /\ [CacheNext]_cacheVars => CacheKeeps'
  BY CacheStepKeeps
<1>4. CacheTyped /\ CacheKeeps => StoresKept
  BY DEF CacheTyped, CacheKeeps, CacheTypeOK, Single, DirtyHit, StoresKept
<1> QED
  BY <1>1, <1>2, <1>3, <1>4, PTL DEF CacheSpec
-----------------------------------------------------------------------------
(***************************************************************************)
(* Numbers and chunks.                                                     *)
(***************************************************************************)
(* The chunk of an address is the multiple of ChunkSize at or below it.    *)
LEMMA ChunkFacts ==
  ASSUME NEW a \in Nat
  PROVE  /\ ChunkOf(a) \in Nat /\ ChunkOf(a) <= a /\ a < ChunkOf(a) + ChunkSize
         /\ ChunkOf(a) % ChunkSize = 0
  <1> DEFINE q == a \div ChunkSize
             r == a % ChunkSize
  <1>1. q \in Nat /\ a = ChunkSize * q + r /\ r \in Nat /\ r < ChunkSize
    BY Quotients, MemoryImageAssumption
  <1>2. ChunkOf(a) = ChunkSize * q
    BY <1>1, MemoryImageAssumption DEF ChunkOf
  <1>3. (ChunkSize * q) % ChunkSize = 0
    BY <1>1, QuotientIs, MemoryImageAssumption
  <1> HIDE DEF q, r
  <1>4. ChunkSize * q \in Nat  BY <1>1, MemoryImageAssumption
  <1>5. QED  BY <1>1, <1>2, <1>3, <1>4, MemoryImageAssumption

(* The results of the recursion exist: each extends the ones before it.    *)
LEMMA MergingExists ==
  ASSUME NEW s, NEW n \in Nat
  PROVE  \E f : f = [k \in 0 .. n |-> IF k = 0 THEN <<>> ELSE Merged(f[k - 1], s[k])]
  <1> DEFINE Merging(f, m) == f = [k \in 0 .. m |-> IF k = 0 THEN <<>> ELSE Merged(f[k - 1], s[k])]
             T == {m \in Nat : \E f : Merging(f, m)}
  <1>1. 0 \in T
    <2> DEFINE f == [k \in 0 .. 0 |-> <<>>]
    <2>1. Merging(f, 0)  OBVIOUS
    <2>2. QED  BY <2>1
  <1>2. ASSUME NEW m \in Nat, m \in T PROVE m + 1 \in T
    <2>1. PICK f : Merging(f, m)  BY <1>2
    <2> DEFINE last == Merged(f[m], s[m + 1])
               g == [k \in 0 .. m + 1 |-> IF k = m + 1 THEN last ELSE f[k]]
    <2>2. ASSUME NEW k \in 0 .. m + 1
          PROVE  g[k] = IF k = 0 THEN <<>> ELSE Merged(g[k - 1], s[k])
      <3>1. CASE k = m + 1
        <4>1. k # 0 /\ k - 1 = m /\ m \in 0 .. m + 1 /\ m # m + 1  BY <3>1
        <4>2. g[k - 1] = f[m] /\ g[k] = last  BY <4>1, <3>1
        <4>3. QED  BY <3>1, <4>1, <4>2
      <3>2. CASE k # m + 1
        <4>1. k \in 0 .. m  BY <3>2
        <4>2. f[k] = IF k = 0 THEN <<>> ELSE Merged(f[k - 1], s[k])  BY <2>1, <4>1
        <4>3. g[k] = f[k]  BY <3>2
        <4>4. k # 0 => g[k - 1] = f[k - 1]  BY <4>1
        <4>5. QED  BY <4>2, <4>3, <4>4
      <3>3. QED  BY <3>1, <3>2
    <2>3. Merging(g, m + 1)
      <3> HIDE DEF last
      <3>1. g = [k \in 0 .. m + 1 |-> g[k]]  OBVIOUS
      <3> HIDE DEF g
      <3>2. QED  BY <2>2, <3>1
    <2>4. \E h : Merging(h, m + 1)
      <3> HIDE DEF g, Merging
      <3>1. QED  BY <2>3
    <2>5. QED  BY <2>4
  <1>3. Nat \subseteq T
    <2> HIDE DEF T
    <2>1. QED  BY <1>1, <1>2, SetInduction
  <1>4. QED  BY <1>3

(* MergedAll is the last of the results.                                   *)
LEMMA MergedAllIs ==
  ASSUME NEW s, Len(s) \in Nat
  PROVE  \E f : /\ f = [k \in 0 .. Len(s) |-> IF k = 0 THEN <<>> ELSE Merged(f[k - 1], s[k])]
                /\ MergedAll(s) = f[Len(s)]
  <1> DEFINE f == CHOOSE g : g = [k \in 0 .. Len(s) |-> IF k = 0 THEN <<>> ELSE Merged(g[k - 1], s[k])]
  <1>1. f = [k \in 0 .. Len(s) |-> IF k = 0 THEN <<>> ELSE Merged(f[k - 1], s[k])]
    <2> HIDE DEF f
    <2>1. \E g : g = [k \in 0 .. Len(s) |-> IF k = 0 THEN <<>> ELSE Merged(g[k - 1], s[k])]
      BY MergingExists
    <2>2. QED  BY <2>1, Zenon DEF f
  <1>2. MergedAll(s) = f[Len(s)]
    BY DEF MergedAll
  <1> HIDE DEF f
  <1>3. QED  BY <1>1, <1>2

(* The sets that addresses are made of have a greatest element.            *)
LEMMA TopIs ==
  ASSUME NEW S \in {Bases, Sizes, Starts, FileSizes, Pads}
  PROVE  Top(S) \in S /\ \A x \in S : x <= Top(S)
  <1>1. \E x \in S : \A y \in S : y <= x  BY MemoryImageAssumption
  <1>2. QED  BY <1>1 DEF Top
(***************************************************************************)
(* Regions.                                                                *)
(***************************************************************************)
Limit == Top(Bases) + Top(Sizes)

(* A list of regions in ascending order, which end below the limit         *)
Ascending(s) ==
  /\ s \in Seq(Regions)
  /\ \A i \in DOMAIN s : s[i].base + s[i].size <= Limit
  /\ \A i, j \in DOMAIN s : i < j => s[i].base + s[i].size <= s[j].base

Covered(s, a) == \E i \in DOMAIN s : a \in BytesOf(s[i])

(* Bounds on the regions that are asked for, and on regions.               *)
LEMMA AskedIsRegion ==
  /\ Limit \in Nat /\ HighestAddress \in Nat /\ Limit <= HighestAddress
  /\ Bases \subseteq Nat
  /\ \A r \in [base : Bases, size : Sizes] :
       r \in Regions /\ r.base \in Nat /\ r.size \in Nat \ {0} /\ r.base + r.size <= Limit
  /\ \A r \in Regions : r.base \in Nat /\ r.size \in Nat \ {0}
  <1>1. /\ Top(Bases) \in Bases /\ \A x \in Bases : x <= Top(Bases)
        /\ Top(Sizes) \in Sizes /\ \A x \in Sizes : x <= Top(Sizes)
        /\ Top(Starts) \in Starts /\ Top(FileSizes) \in FileSizes /\ Top(Pads) \in Pads
    BY TopIs
  <1>2. /\ Bases \subseteq Nat /\ Sizes \subseteq Nat \ {0}
        /\ Starts \subseteq Nat /\ FileSizes \subseteq Nat /\ Pads \subseteq Nat
    BY MemoryImageAssumption
  <1>3. /\ Top(Bases) \in Nat /\ Top(Sizes) \in Nat /\ Top(Starts) \in Nat
        /\ Top(FileSizes) \in Nat /\ Top(Pads) \in Nat
    BY <1>1, <1>2
  <1>4. /\ Limit \in Nat /\ HighestAddress \in Nat /\ Limit <= HighestAddress
        /\ Top(Sizes) <= HighestAddress
    BY <1>3 DEF Limit, HighestAddress
  <1>5. \A r \in [base : Bases, size : Sizes] :
          /\ r.base \in Bases /\ r.size \in Sizes /\ r = [base |-> r.base, size |-> r.size]
    OBVIOUS
  <1>6. \A r \in [base : Bases, size : Sizes] :
          /\ r.base \in Nat /\ r.size \in Nat \ {0} /\ r.base <= Top(Bases) /\ r.size <= Top(Sizes)
    BY <1>1, <1>2, <1>5
  <1>7. \A r \in [base : Bases, size : Sizes] : r.base + r.size <= Limit
    BY <1>3, <1>6 DEF Limit
  <1>8. \A r \in [base : Bases, size : Sizes] : r.size \in 1 .. HighestAddress
    BY <1>3, <1>4, <1>6
  <1>9. \A r \in [base : Bases, size : Sizes] : r \in Regions
    BY <1>5, <1>8 DEF Regions
  <1>10. \A r \in Regions : r.base \in Nat /\ r.size \in Nat \ {0}
    <2>1. \A r \in Regions : r.base \in Bases /\ r.size \in 1 .. HighestAddress
      BY DEF Regions
    <2>2. TAKE r \in Regions
    <2>3. r.base \in Bases /\ r.size \in 1 .. HighestAddress  BY <2>1
    <2>4. r.base \in Nat  BY <2>3, <1>2
    <2>5. r.size \in Nat \ {0}  BY <2>3, <1>4
    <2>6. QED  BY <2>4, <2>5
  <1>11. QED  BY <1>2, <1>4, <1>6, <1>7, <1>9, <1>10

(* The next region is erased, extends the last one, or is appended.        *)
LEMMA MergedKeeps ==
  ASSUME NEW done, Ascending(done), done # <<>>,
         NEW r \in [base : Bases, size : Sizes], done[Len(done)].base <= r.base
  PROVE  /\ Ascending(Merged(done, r)) /\ Merged(done, r) # <<>>
         /\ Merged(done, r)[Len(Merged(done, r))].base <= r.base
         /\ \A a \in Nat : Covered(Merged(done, r), a) <=> Covered(done, a) \/ a \in BytesOf(r)
  <1> DEFINE n == Len(done)
             p == done[n]
             longer == [done EXCEPT ![n].size = r.base + r.size - p.base]
             appended == Append(done, r)
  <1>1. /\ done \in Seq(Regions) /\ n \in Nat \ {0} /\ DOMAIN done = 1 .. n /\ p \in Regions
        /\ done \in [1 .. n -> Regions]
    BY DEF Ascending
  <1>2. /\ \A i \in 1 .. n : /\ done[i] \in Regions
                             /\ done[i].base \in Nat /\ done[i].size \in Nat \ {0}
                             /\ done[i].base + done[i].size <= Limit
        /\ \A i, j \in 1 .. n : i < j => done[i].base + done[i].size <= done[j].base
    BY <1>1, AskedIsRegion DEF Ascending
  <1>3. /\ r \in Regions /\ r.base \in Nat /\ r.size \in Nat \ {0} /\ r.base + r.size <= Limit
        /\ Limit \in Nat /\ Limit <= HighestAddress /\ HighestAddress \in Nat /\ p.base <= r.base
        /\ Bases \subseteq Nat
    BY AskedIsRegion
  <1>4. /\ \A i \in 1 .. n - 1 : i < n /\ i \in 1 .. n
        /\ n \in 1 .. n
        /\ p.base \in Nat /\ p.size \in Nat \ {0} /\ p.base + p.size <= Limit
        /\ \A i \in 1 .. n : i # n => i \in 1 .. n - 1
    BY <1>1, <1>2
  <1>5. CASE r.base + r.size <= p.base + p.size
    <2>1. Merged(done, r) = done  BY <1>5, Zenon DEF Merged
    <2>2. \A a \in BytesOf(r) : a \in BytesOf(p)
      <3> DEFINE pb == p.base
                 ps == p.size
                 rb == r.base
                 rs == r.size
      <3>1. pb \in Nat /\ ps \in Nat /\ rb \in Nat /\ rs \in Nat /\ pb <= rb /\ rb + rs <= pb + ps
        BY <1>3, <1>4, <1>5
      <3>2. BytesOf(p) = pb .. pb + ps - 1 /\ BytesOf(r) = rb .. rb + rs - 1  BY DEF BytesOf
      <3> HIDE DEF pb, ps, rb, rs, p
      <3>3. QED  BY <3>1, <3>2
    <2>3. \A a \in BytesOf(r) : Covered(done, a)
      BY <2>2, <1>1, <1>4 DEF Covered
    <2>4. QED  BY <2>1, <2>3
  <1>6. CASE ~(r.base + r.size <= p.base + p.size) /\ r.base < p.base + p.size
    <2>1. Merged(done, r) = longer  BY <1>6, Zenon DEF Merged
    <2> DEFINE q == [p EXCEPT !.size = r.base + r.size - p.base]
    <2>2. /\ q.base = p.base /\ q.size = r.base + r.size - p.base
          /\ p.base \in Nat /\ p.base \in Bases
      BY <1>1, <1>2, <1>4 DEF Regions
    <2>3. q.size \in Nat \ {0} /\ q.base + q.size = r.base + r.size /\ q.size <= HighestAddress
      BY <2>2, <1>3, <1>6, <1>2, <1>4
    <2>4. q \in Regions
      <3>1. q = [base |-> q.base, size |-> q.size]  BY <1>1, <2>2 DEF Regions
      <3>2. q.size \in 1 .. HighestAddress  BY <2>3, <1>3
      <3> HIDE DEF q
      <3>3. QED  BY <3>1, <3>2, <2>2 DEF Regions
    <2>5. /\ longer = [done EXCEPT ![n] = q]
          /\ longer[n] = q /\ \A i \in 1 .. n - 1 : longer[i] = done[i]
      BY <1>1, <1>4
    <2>6. longer \in [1 .. n -> Regions]
      <3> HIDE DEF q, p
      <3>1. QED  BY <2>5, <2>4, <1>1
    <2>7. longer \in Seq(Regions) /\ Len(longer) = n /\ DOMAIN longer = 1 .. n
      <3> HIDE DEF longer
      <3>1. QED  BY <2>6, <1>1
    <2> HIDE DEF q, longer
    <2>8. \A i \in 1 .. n : longer[i].base = done[i].base
      BY <2>5, <2>2, <1>4
    <2>9. \A i, j \in 1 .. n : i < j => longer[i].base + longer[i].size <= longer[j].base
      <3>1. SUFFICES ASSUME NEW i \in 1 .. n, NEW j \in 1 .. n, i < j
                     PROVE  longer[i].base + longer[i].size <= longer[j].base
        OBVIOUS
      <3>2. i \in 1 .. n - 1  BY <3>1, <1>1
      <3>3. QED  BY <3>1, <3>2, <2>5, <2>8, <1>2
    <2>10. \A i \in 1 .. n : longer[i].base + longer[i].size <= Limit
      BY <2>5, <2>3, <1>2, <1>3, <1>4
    <2>11. Ascending(longer)
      BY <2>7, <2>9, <2>10 DEF Ascending
    <2>12. \A a \in Nat : a \in BytesOf(q) <=> a \in BytesOf(p) \/ a \in BytesOf(r)
      <3> DEFINE pb == p.base
                 ps == p.size
                 rb == r.base
                 rs == r.size
      <3>1. pb \in Nat /\ ps \in Nat /\ rb \in Nat /\ rs \in Nat /\ rb < pb + ps /\ pb + ps < rb + rs
            /\ pb <= rb
        BY <1>3, <1>4, <1>6
      <3>2. /\ BytesOf(q) = pb .. pb + (rb + rs - pb) - 1
            /\ BytesOf(p) = pb .. pb + ps - 1 /\ BytesOf(r) = rb .. rb + rs - 1
        BY <2>2 DEF BytesOf
      <3> HIDE DEF pb, ps, rb, rs
      <3>3. QED  BY <3>1, <3>2
    <2>13. \A a \in Nat : Covered(longer, a) <=> Covered(done, a) \/ a \in BytesOf(r)
      <3>1. TAKE a \in Nat
      <3>2. Covered(longer, a) <=> (\E i \in 1 .. n - 1 : a \in BytesOf(done[i])) \/ a \in BytesOf(q)
        BY <2>5, <2>7, <1>4 DEF Covered
      <3>3. Covered(done, a) <=> (\E i \in 1 .. n - 1 : a \in BytesOf(done[i])) \/ a \in BytesOf(p)
        BY <1>1, <1>4 DEF Covered
      <3>4. QED  BY <3>2, <3>3, <2>12
    <2>14. longer # <<>>  BY <2>7, <1>1
    <2>15. longer[Len(longer)].base <= r.base  BY <2>7, <2>8, <1>3, <1>4
    <2>16. QED  BY <2>1, <2>11, <2>13, <2>14, <2>15
  <1>7. CASE ~(r.base + r.size <= p.base + p.size) /\ ~(r.base < p.base + p.size)
    <2>1. Merged(done, r) = appended  BY <1>7, Zenon DEF Merged
    <2>2. /\ appended \in Seq(Regions) /\ Len(appended) = n + 1 /\ DOMAIN appended = 1 .. n + 1
          /\ appended[n + 1] = r /\ \A i \in 1 .. n : appended[i] = done[i]
      BY <1>1, <1>3
    <2> HIDE DEF appended
    <2>3. n + 1 \in 1 .. n + 1 /\ \A i \in 1 .. n + 1 : i # n + 1 => i \in 1 .. n
      BY <1>1
    <2>4. p.base + p.size <= r.base  BY <1>7, <1>2, <1>3, <1>4
    <2>5. \A i \in 1 .. n : done[i].base + done[i].size <= r.base
      <3>1. TAKE i \in 1 .. n
      <3>2. CASE i = n  BY <3>2, <2>4
      <3>3. CASE i # n
        <4>1. i < n  BY <3>3, <1>1
        <4>2. done[i].base + done[i].size <= p.base  BY <4>1, <1>2, <1>4
        <4>3. done[i].base \in Nat /\ done[i].size \in Nat  BY <1>2
        <4> HIDE DEF p
        <4>4. QED  BY <4>2, <4>3, <1>3, <1>4
      <3>4. QED  BY <3>2, <3>3
    <2>6. \A i, j \in 1 .. n + 1 : i < j => appended[i].base + appended[i].size <= appended[j].base
      <3>1. SUFFICES ASSUME NEW i \in 1 .. n + 1, NEW j \in 1 .. n + 1, i < j
                     PROVE  appended[i].base + appended[i].size <= appended[j].base
        OBVIOUS
      <3>2. i \in 1 .. n  BY <3>1, <1>1
      <3>3. CASE j = n + 1  BY <3>2, <3>3, <2>2, <2>5
      <3>4. CASE j # n + 1  BY <3>1, <3>2, <3>4, <2>2, <2>3, <1>2
      <3>5. QED  BY <3>3, <3>4
    <2>7. \A i \in 1 .. n + 1 : appended[i].base + appended[i].size <= Limit
      BY <2>2, <2>3, <1>2, <1>3
    <2>8. Ascending(appended)  BY <2>2, <2>6, <2>7 DEF Ascending
    <2>9. \A a \in Nat : Covered(appended, a) <=> Covered(done, a) \/ a \in BytesOf(r)
      BY <2>2, <2>3, <1>1 DEF Covered
    <2>10. appended # <<>> /\ appended[Len(appended)].base <= r.base
      BY <2>2, <1>1, <1>3
    <2>11. QED  BY <2>1, <2>8, <2>9, <2>10
  <1>8. QED  BY <1>5, <1>6, <1>7
(* A sequence of regions that the user may ask for, in order               *)
InOrder(s) ==
  /\ Len(s) \in Nat /\ s \in [1 .. Len(s) -> [base : Bases, size : Sizes]]
  /\ \A i, j \in 1 .. Len(s) : i < j => s[i].base <= s[j].base

(* What merge_overlapping_memory_regions makes of a sorted list: regions   *)
(* in ascending order, none of which overlap, that hold the same addresses.*)
LEMMA MergedAllKeeps ==
  ASSUME NEW s, InOrder(s)
  PROVE  /\ Ascending(MergedAll(s))
         /\ \A a \in Nat : Covered(MergedAll(s), a) <=> \E i \in 1 .. Len(s) : a \in BytesOf(s[i])
  <1> DEFINE n == Len(s)
  <1>1. PICK f : /\ f = [k \in 0 .. n |-> IF k = 0 THEN <<>> ELSE Merged(f[k - 1], s[k])]
                 /\ MergedAll(s) = f[n]
    BY MergedAllIs DEF InOrder
  <1>2. n \in Nat /\ f[0] = <<>> /\ \A k \in 1 .. n : f[k] = Merged(f[k - 1], s[k])
    <2>1. n \in Nat  BY DEF InOrder
    <2>2. 0 \in 0 .. n /\ \A k \in 1 .. n : k \in 0 .. n /\ k # 0  BY <2>1
    <2>3. QED  BY <2>1, <2>2, <1>1
  <1> DEFINE Right(k) == /\ Ascending(f[k])
                         /\ k > 0 => f[k] # <<>> /\ f[k][Len(f[k])].base <= s[k].base
                         /\ \A a \in Nat : Covered(f[k], a) <=> \E i \in 1 .. k : a \in BytesOf(s[i])
             T == {k \in Nat : k <= n => Right(k)}
  <1>3. 0 \in T
    <2>1. Ascending(<<>>) /\ \A a : ~Covered(<<>>, a)  BY DEF Ascending, Covered
    <2>2. QED  BY <2>1, <1>2
  <1>4. ASSUME NEW k \in Nat, k \in T PROVE k + 1 \in T
    <2>1. SUFFICES ASSUME k + 1 <= n PROVE Right(k + 1)  OBVIOUS
    <2>2. Right(k) /\ k + 1 \in 1 .. n /\ s[k + 1] \in [base : Bases, size : Sizes]
      <3>1. Right(k) /\ k + 1 \in 1 .. n  BY <1>2, <1>4, <2>1
      <3>2. QED  BY <3>1 DEF InOrder
    <2>3. f[k + 1] = Merged(f[k], s[k + 1])  BY <1>2, <2>2
    <2>4. s[k + 1].base \in Nat /\ s[k + 1] \in Regions /\ s[k + 1].base + s[k + 1].size <= Limit
      BY <2>2, AskedIsRegion
    <2>5. CASE k = 0
      <3>1. f[k + 1] = <<s[k + 1]>>  BY <2>3, <2>5, <1>2, Zenon DEF Merged
      <3>2. Ascending(<<s[k + 1]>>)  BY <2>4 DEF Ascending
      <3>3. /\ Len(<<s[k + 1]>>) = 1 /\ <<s[k + 1]>>[1] = s[k + 1] /\ <<s[k + 1]>> # <<>>
            /\ DOMAIN <<s[k + 1]>> = {1} /\ 1 .. k + 1 = {1} /\ k + 1 = 1
        BY <2>5
      <3>4. \A a \in Nat : Covered(<<s[k + 1]>>, a) <=> \E i \in 1 .. k + 1 : a \in BytesOf(s[i])
        BY <3>3 DEF Covered
      <3>5. QED  BY <3>1, <3>2, <3>3, <3>4, <2>4
    <2>6. CASE k # 0
      <3>1. k > 0 /\ k \in 1 .. n /\ k < k + 1  BY <2>6, <2>1, <1>2
      <3>2. f[k] # <<>> /\ f[k][Len(f[k])].base <= s[k].base /\ Ascending(f[k])  BY <2>2, <3>1
      <3>3. s[k].base <= s[k + 1].base /\ s[k].base \in Nat
        BY <3>1, <2>2, AskedIsRegion DEF InOrder
      <3>4. f[k][Len(f[k])].base \in Nat
        <4>1. f[k][Len(f[k])] \in Regions  BY <3>2 DEF Ascending
        <4>2. QED  BY <4>1, AskedIsRegion
      <3>5. f[k][Len(f[k])].base <= s[k + 1].base  BY <2>4, <3>2, <3>3, <3>4
      <3>6. /\ Ascending(f[k + 1]) /\ f[k + 1] # <<>>
            /\ f[k + 1][Len(f[k + 1])].base <= s[k + 1].base
            /\ \A a \in Nat : Covered(f[k + 1], a) <=> Covered(f[k], a) \/ a \in BytesOf(s[k + 1])
        BY <2>2, <2>3, <3>2, <3>5, MergedKeeps
      <3>7. \A i : i \in 1 .. k + 1 <=> i \in 1 .. k \/ i = k + 1  OBVIOUS
      <3>8. \A a \in Nat : Covered(f[k + 1], a) <=> \E i \in 1 .. k + 1 : a \in BytesOf(s[i])
        BY <3>6, <3>7, <2>2
      <3>9. QED  BY <3>6, <3>8
    <2>7. QED  BY <2>5, <2>6
  <1>5. Nat \subseteq T
    <2> HIDE DEF T
    <2>1. QED  BY <1>3, <1>4, SetInduction
  <1>6. Right(n)  BY <1>2, <1>5
  <1>7. QED  BY <1>1, <1>6
(***************************************************************************)
(* Lookups.                                                                *)
(***************************************************************************)
(* The pages of a region hold it.                                          *)
LEMMA RoomHolds ==
  ASSUME NEW r \in Regions
  PROVE  Room(r) \in Nat /\ r.size <= Room(r)
  <1> DEFINE x == r.size + PageSize - 1
             q == x \div PageSize
             e == x % PageSize
  <1>1. r.size \in Nat \ {0} /\ PageSize \in Nat \ {0}
    BY AskedIsRegion, MemoryImageAssumption
  <1>2. x \in Nat  BY <1>1
  <1>3. q \in Nat /\ e \in Nat /\ e < PageSize /\ x = PageSize * q + e
    BY <1>1, <1>2, Quotients
  <1>4. Room(r) = PageSize * q  BY <1>1, <1>3 DEF Room
  <1> HIDE DEF q, e
  <1>5. PageSize * q \in Nat  BY <1>1, <1>3
  <1>6. QED  BY <1>1, <1>3, <1>4, <1>5

(* A region that holds an address is the one that find_device finds.       *)
LEMMA FindsRegion ==
  ASSUME Ascending(regions), NEW i \in DOMAIN regions, NEW a \in Nat, a \in BytesOf(regions[i])
  PROVE  FindDevice(a) = regions[i] /\ InMemory(a)
  <1>1. /\ \A j \in DOMAIN regions : /\ regions[j] \in Regions /\ j \in Nat
                                     /\ regions[j].base \in Nat /\ regions[j].size \in Nat \ {0}
        /\ \A j, k \in DOMAIN regions : j < k => regions[j].base + regions[j].size <= regions[k].base
    BY AskedIsRegion DEF Ascending
  <1>2. regions[i].base <= a /\ a < regions[i].base + regions[i].size
    BY <1>1 DEF BytesOf
  <1>3. regions[i] \in Below(a)  BY <1>2 DEF Below, RegionSet
  <1>4. ASSUME NEW j \in DOMAIN regions, regions[j].base <= a
        PROVE  regions[j].base <= regions[i].base /\ (regions[i].base <= regions[j].base => j = i)
    <2>1. CASE j < i  BY <1>1, <2>1
    <2>2. CASE i < j  BY <1>1, <1>2, <1>4, <2>2
    <2>3. CASE j = i  BY <1>1, <2>3
    <2>4. QED  BY <1>1, <2>1, <2>2, <2>3
  <1>5. \A r \in Below(a) : r.base <= regions[i].base /\ (regions[i].base <= r.base => r = regions[i])
    BY <1>4 DEF Below, RegionSet
  <1>6. FindDevice(a) = regions[i]
    <2> DEFINE Best(r) == r \in Below(a) /\ \A t \in Below(a) : t.base <= r.base
    <2>1. Best(regions[i])  BY <1>3, <1>5
    <2>2. \A r : Best(r) => r = regions[i]  BY <1>3, <1>5
    <2>3. FindDevice(a) = CHOOSE r : Best(r)  BY DEF FindDevice
    <2> HIDE DEF Best
    <2>4. QED  BY <2>1, <2>2, <2>3
  <1>7. a - regions[i].base < regions[i].size  BY <1>1, <1>2
  <1>8. QED  BY <1>3, <1>6, <1>7 DEF InMemory

(* A chunk within a region that begins at a chunk does not cross a page of *)
(* the host.                                                               *)
LEMMA ChunkInPage ==
  ASSUME NEW base \in Nat, NEW chunk \in Nat, base % ChunkSize = 0, chunk % ChunkSize = 0, base <= chunk
  PROVE  ((chunk - base) % PageSize) + ChunkSize <= PageSize
  <1> DEFINE c == ChunkSize
             m == PageSize \div c
             p == base \div c
             q == chunk \div c
             x == chunk - base
             u == x \div PageSize
             e == x % PageSize
  <1>1. c \in Nat \ {0} /\ PageSize \in Nat \ {0} /\ PageSize % c = 0
    BY MemoryImageAssumption
  <1>2. m \in Nat /\ PageSize = c * m  BY <1>1, Quotients
  <1>3. p \in Nat /\ base = c * p  BY <1>1, Quotients
  <1>4. q \in Nat /\ chunk = c * q  BY <1>1, Quotients
  <1>5. x \in Nat  OBVIOUS
  <1>6. u \in Nat /\ e \in Nat /\ e < PageSize /\ x = PageSize * u + e
    BY <1>1, <1>5, Quotients
  <1> HIDE DEF m, p, q, u, e
  <1>7. x = c * (q - p)  BY <1>1, <1>3, <1>4
  <1>8. e = c * (q - p - m * u)
    <2>1. PageSize * u = c * (m * u)  BY <1>1, <1>2, <1>6
    <2>2. m * u \in Nat  BY <1>2, <1>6
    <2>3. e = c * (q - p) - c * (m * u)  BY <2>1, <2>2, <1>1, <1>6, <1>7
    <2>4. QED  BY <2>2, <2>3, <1>1, <1>3, <1>4
  <1> DEFINE t == q - p - m * u
  <1>9. t \in Int  BY <1>2, <1>3, <1>4, <1>6
  <1>10. e = c * t  BY <1>8
  <1> HIDE DEF t
  <1>11. t < m
    <2>1. SUFFICES ASSUME t >= m PROVE FALSE  BY <1>2, <1>9
    <2>2. c * t >= c * m  BY <2>1, <1>1, <1>2, <1>9
    <2>3. QED  BY <2>2, <1>2, <1>6, <1>10
  <1>12. c * (t + 1) <= c * m  BY <1>1, <1>2, <1>9, <1>11
  <1>13. e + c <= PageSize  BY <1>1, <1>2, <1>9, <1>10, <1>12
  <1>14. QED  BY <1>13 DEF e

(* Where a chunk is sound its bytes are found in one region.               *)
LEMMA SoundIs ==
  ASSUME Ascending(regions), NEW a \in Nat, Sound(a)
  PROVE  \E i \in DOMAIN regions :
           /\ FindDevice(a) = regions[i] /\ FindDevice(ChunkOf(a)) = regions[i]
           /\ InMemory(a) /\ InMemory(ChunkOf(a))
           /\ regions[i].base \in Nat /\ a - regions[i].base \in 0 .. Room(regions[i]) - 1
           /\ ((ChunkOf(a) - regions[i].base) % PageSize) + ChunkSize <= PageSize
  <1>1. PICK i \in DOMAIN regions :
          /\ regions[i].base % ChunkSize = 0
          /\ ChunkOf(a) .. ChunkOf(a) + ChunkSize - 1 \subseteq BytesOf(regions[i])
    BY DEF Sound
  <1>2. /\ ChunkOf(a) \in Nat /\ ChunkOf(a) <= a /\ a < ChunkOf(a) + ChunkSize
        /\ ChunkOf(a) % ChunkSize = 0
    BY ChunkFacts
  <1>3. ChunkSize \in Nat \ {0}  BY MemoryImageAssumption
  <1>4. ChunkOf(a) \in BytesOf(regions[i]) /\ a \in BytesOf(regions[i])
    BY <1>1, <1>2, <1>3
  <1>5. /\ FindDevice(a) = regions[i] /\ FindDevice(ChunkOf(a)) = regions[i]
        /\ InMemory(a) /\ InMemory(ChunkOf(a))
    BY <1>2, <1>4, FindsRegion
  <1>6. regions[i] \in Regions /\ regions[i].base \in Nat /\ regions[i].size \in Nat
    BY AskedIsRegion DEF Ascending
  <1>7. /\ regions[i].base <= ChunkOf(a)
        /\ regions[i].base <= a /\ a <= regions[i].base + regions[i].size - 1
    BY <1>2, <1>4, <1>6 DEF BytesOf
  <1>8. a - regions[i].base \in 0 .. Room(regions[i]) - 1
    BY <1>6, <1>7, RoomHolds
  <1>9. ((ChunkOf(a) - regions[i].base) % PageSize) + ChunkSize <= PageSize
    BY <1>1, <1>2, <1>6, <1>7, ChunkInPage
  <1>10. QED  BY <1>5, <1>6, <1>8, <1>9

(***************************************************************************)
(* Writes.                                                                 *)
(***************************************************************************)
Endings == {"running", "bad address", "undefined"}

MemoryOK(m) ==
  /\ DOMAIN m = {regions[i].base : i \in DOMAIN regions}
  /\ \A i \in DOMAIN regions : m[regions[i].base] \in [0 .. Room(regions[i]) - 1 -> Contents]

LoadState(t) ==
  /\ t = [loading |-> t.loading, memory |-> t.memory]
  /\ t.loading \in Endings /\ MemoryOK(t.memory)

Byte(m, a) == m[FindDevice(a).base][a - FindDevice(a).base]

(* What t has of a source, whose bytes belong from addr on, and of the     *)
(* state s before: the addresses D are written, so far as they are sound.  *)
Loaded(t, s, D, addr, source) ==
  /\ LoadState(t)
  /\ t.loading = "running" =>
       /\ s.loading = "running"
       /\ \A a \in Nat : Sound(a) =>
            Byte(t.memory, a) = IF a \in D THEN source[a - addr] ELSE Byte(s.memory, a)
  /\ s.loading = "running" /\ (\A a \in D : Sound(a)) => t.loading = "running"

(* The host would write beyond a page                                      *)
Crosses(chunk) == ((chunk - FindDevice(chunk).base) % PageSize) + ChunkSize > PageSize

(* One piece, which lies in one chunk                                      *)
LEMMA PieceLoads ==
  ASSUME Ascending(regions), NEW s, NEW t, NEW D, NEW addr \in Nat, NEW len \in Nat,
         NEW source \in [0 .. len - 1 -> Contents], Loaded(t, s, D, addr, source),
         NEW skip \in Nat, NEW count \in Nat \ {0}, skip + count <= len,
         addr + skip + count <= ChunkOf(addr + skip) + ChunkSize
  PROVE  Loaded(WritePiece(t, addr, source, skip, count),
                s, D \cup (addr + skip .. addr + skip + count - 1), addr, source)
  <1> DEFINE from == addr + skip
             chunk == ChunkOf(from)
             r == FindDevice(chunk)
             lo == from - r.base
             bytes == from .. from + count - 1
             poked == Copied(t.memory[r.base], lo, source, skip, count)
             m == [t.memory EXCEPT ![r.base] = poked]
             u == WritePiece(t, addr, source, skip, count)
             crosses == Crosses(chunk)
  <1>1. /\ from \in Nat /\ chunk \in Nat /\ chunk <= from /\ ChunkSize \in Nat \ {0}
        /\ chunk % ChunkSize = 0
    BY ChunkFacts, MemoryImageAssumption
  <1>2. LoadState(t) /\ t.loading \in Endings  BY DEF Loaded, LoadState
  <1>3. /\ t.loading # "running" => u = t
        /\ t.loading = "running" /\ ~InMemory(chunk) => u = [t EXCEPT !.loading = "bad address"]
        /\ t.loading = "running" /\ InMemory(chunk) /\ crosses => u = [t EXCEPT !.loading = "undefined"]
        /\ t.loading = "running" /\ InMemory(chunk) /\ ~crosses =>
             u = [t EXCEPT !.memory[r.base] = poked]
    <2>1. count # 0  OBVIOUS
    <2>2. chunk = ChunkOf(addr + skip) /\ r = FindDevice(chunk)  OBVIOUS
    <2>3. poked = Copied(t.memory[r.base], (addr + skip) - r.base, source, skip, count)  OBVIOUS
    <2> HIDE DEF chunk, r, poked
    <2>4. crosses <=> Crosses(chunk)  OBVIOUS
    <2> HIDE DEF crosses
    <2>5. u = WritePiece(t, addr, source, skip, count)  OBVIOUS
    <2> HIDE DEF u
    <2>6. QED  BY <2>1, <2>2, <2>3, <2>4, <2>5 DEF WritePiece, Crosses
  <1>4. ASSUME NEW a \in bytes
        PROVE  a \in Nat /\ ChunkOf(a) = chunk /\ skip + (a - from) = a - addr
    <2>1. a \in Nat /\ chunk <= a /\ a < chunk + ChunkSize  BY <1>1
    <2> DEFINE q == chunk \div ChunkSize
    <2>2. q \in Nat /\ chunk = ChunkSize * q
      <3>1. chunk \in Nat /\ ChunkSize \in Nat \ {0} /\ chunk % ChunkSize = 0  BY <1>1
      <3> HIDE DEF chunk
      <3>2. /\ q \in Nat /\ chunk % ChunkSize \in Nat
            /\ chunk = ChunkSize * q + (chunk % ChunkSize)
        BY <3>1, Quotients
      <3> HIDE DEF q
      <3>3. QED  BY <3>1, <3>2
    <2>3. a - chunk \in Nat /\ a - chunk < ChunkSize  BY <2>1, <1>1
    <2>4. (ChunkSize * q + (a - chunk)) \div ChunkSize = q
      BY <2>2, <2>3, <1>1, QuotientIs
    <2>5. a \div ChunkSize = q
      <3> HIDE DEF q, chunk
      <3>1. ChunkSize * q + (a - chunk) = a  BY <2>1, <2>2, <1>1
      <3>2. QED  BY <3>1, <2>4
    <2>6. ChunkOf(a) = q * ChunkSize  BY <2>5 DEF ChunkOf
    <2>7. QED  BY <2>1, <2>2, <2>6, <1>1
  <1> HIDE DEF chunk, u, from, r, poked, crosses
  <1>5. from \in bytes  BY <1>1
  <1>6. CASE t.loading # "running"
    <2>1. u = t  BY <1>3, <1>6
    <2>2. QED  BY <2>1, <1>6 DEF Loaded, from, u
  <1>7. CASE t.loading = "running" /\ (~InMemory(chunk) \/ crosses)
    <2>1. /\ u.loading \in {"bad address", "undefined"} /\ u.memory = t.memory
          /\ u = [loading |-> u.loading, memory |-> u.memory]
      BY <1>2, <1>3, <1>7, Zenon DEF LoadState
    <2>2. LoadState(u)  BY <2>1, <1>2 DEF LoadState, Endings
    <2>3. ~Sound(from)
      <3>1. SUFFICES ASSUME Sound(from) PROVE FALSE  OBVIOUS
      <3>2. InMemory(chunk) /\ ~crosses
        <4>1. from \in Nat  BY <1>1
        <4>2. PICK i \in DOMAIN regions :
                /\ FindDevice(ChunkOf(from)) = regions[i] /\ InMemory(ChunkOf(from))
                /\ regions[i].base \in Nat
                /\ ((ChunkOf(from) - regions[i].base) % PageSize) + ChunkSize <= PageSize
          BY <3>1, <4>1, SoundIs
        <4>3. r = regions[i] /\ InMemory(chunk)
              /\ ((chunk - r.base) % PageSize) + ChunkSize <= PageSize
          BY <4>2 DEF chunk, r
        <4>4. (chunk - r.base) % PageSize \in Int
          <5>1. chunk - r.base \in Int  BY <1>1, <4>2, <4>3
          <5>2. QED  BY <5>1, MemoryImageAssumption
        <4>5. ~crosses  BY <4>3, <4>4, <1>1, MemoryImageAssumption DEF crosses, Crosses, r
        <4>6. QED  BY <4>3, <4>5
      <3>3. QED  BY <3>2, <1>7
    <2>4. QED  BY <2>1, <2>2, <2>3, <1>5 DEF Loaded, from, u
  <1>8. CASE t.loading = "running" /\ InMemory(chunk) /\ ~crosses
    <2>1. u = [t EXCEPT !.memory[r.base] = poked]
      BY <1>3, <1>8
    <2>2. u.loading = "running" /\ u.memory = m /\ u = [loading |-> u.loading, memory |-> u.memory]
      BY <1>2, <1>8, <2>1 DEF LoadState
    <2>3. MemoryOK(m)
      <3>1. MemoryOK(t.memory)  BY <1>2 DEF LoadState
      <3>2. DOMAIN m = {regions[i].base : i \in DOMAIN regions}
        BY <3>1 DEF MemoryOK
      <3>3. ASSUME NEW i \in DOMAIN regions
            PROVE  m[regions[i].base] \in [0 .. Room(regions[i]) - 1 -> Contents]
        <4>1. regions[i].base \in DOMAIN t.memory
              /\ t.memory[regions[i].base] \in [0 .. Room(regions[i]) - 1 -> Contents]
          BY <3>1 DEF MemoryOK
        <4>2. CASE regions[i].base # r.base
          BY <4>1, <4>2
        <4>3. CASE regions[i].base = r.base
          <5>1. m[regions[i].base] = poked  BY <4>1, <4>3
          <5>2. /\ r.base \in Nat /\ Room(regions[i]) \in Nat
            BY <4>3, AskedIsRegion, RoomHolds DEF Ascending
          <5>3. DOMAIN t.memory[r.base] = 0 .. Room(regions[i]) - 1
            BY <4>1, <4>3
          <5>4. ASSUME NEW o \in 0 .. Room(regions[i]) - 1 PROVE poked[o] \in Contents
            <6>1. o \in lo .. lo + count - 1 => skip + o - lo \in 0 .. len - 1
              <7>1. lo \in Int  BY <5>2, <1>1
              <7> HIDE DEF lo
              <7>2. QED  BY <5>2, <7>1, <1>1
            <6>2. poked[o] = IF o \in lo .. lo + count - 1
                             THEN source[skip + o - lo] ELSE t.memory[r.base][o]
              BY <5>3 DEF poked, Copied
            <6>3. QED  BY <6>1, <6>2, <4>1, <4>3
          <5>5. poked = [o \in 0 .. Room(regions[i]) - 1 |-> poked[o]]
            BY <5>3 DEF poked, Copied
          <5>6. QED  BY <5>1, <5>4, <5>5
        <4>4. QED  BY <4>2, <4>3
      <3>4. QED  BY <3>2, <3>3 DEF MemoryOK
    <2>4. ASSUME NEW a \in Nat, Sound(a)
          PROVE  Byte(m, a) = IF a \in bytes THEN source[a - addr] ELSE Byte(t.memory, a)
      <3>1. PICK i \in DOMAIN regions :
              /\ FindDevice(a) = regions[i] /\ FindDevice(ChunkOf(a)) = regions[i]
              /\ regions[i].base \in Nat /\ a - regions[i].base \in 0 .. Room(regions[i]) - 1
        BY <2>4, SoundIs
      <3>2. /\ regions[i].base \in DOMAIN t.memory
            /\ t.memory[regions[i].base] \in [0 .. Room(regions[i]) - 1 -> Contents]
        BY <1>2 DEF LoadState, MemoryOK
      <3>3. Byte(m, a) = m[regions[i].base][a - regions[i].base]
            /\ Byte(t.memory, a) = t.memory[regions[i].base][a - regions[i].base]
        BY <3>1 DEF Byte
      <3>4. CASE regions[i].base # r.base
        <4>1. a \notin bytes
          <5>1. ASSUME a \in bytes PROVE FALSE
            <6>1. ChunkOf(a) = chunk  BY <1>4, <5>1
            <6>2. QED  BY <6>1, <3>1, <3>4 DEF r
          <5>2. QED  BY <5>1
        <4>2. m[regions[i].base] = t.memory[regions[i].base]  BY <3>2, <3>4
        <4>3. QED  BY <4>1, <4>2, <3>3
      <3>5. CASE regions[i].base = r.base
        <4>1. m[regions[i].base] = poked  BY <3>2, <3>5
        <4>2. a - regions[i].base \in DOMAIN t.memory[r.base]  BY <3>1, <3>2, <3>5
        <4>3. a - regions[i].base \in lo .. lo + count - 1 <=> a \in bytes
          BY <3>1, <3>5, <1>1
        <4>4. skip + (a - regions[i].base) - lo = a - addr
          BY <3>1, <3>5, <1>1 DEF from
        <4>5. poked[a - regions[i].base] =
                IF a - regions[i].base \in lo .. lo + count - 1
                THEN source[skip + (a - regions[i].base) - lo]
                ELSE t.memory[r.base][a - regions[i].base]
          BY <4>2 DEF poked, Copied
        <4>6. QED  BY <4>1, <4>3, <4>4, <4>5, <3>3, <3>5
      <3>6. QED  BY <3>4, <3>5
    <2>5. LoadState(u)  BY <2>2, <2>3 DEF LoadState, Endings
    <2>6. /\ s.loading = "running"
          /\ \A a \in Nat : Sound(a) =>
               Byte(u.memory, a) = IF a \in D \cup bytes THEN source[a - addr] ELSE Byte(s.memory, a)
      <3>1. /\ s.loading = "running"
            /\ \A a \in Nat : Sound(a) =>
               Byte(t.memory, a) = IF a \in D THEN source[a - addr] ELSE Byte(s.memory, a)
        BY <1>8 DEF Loaded
      <3>2. QED  BY <3>1, <2>2, <2>4
    <2>7. QED  BY <2>2, <2>5, <2>6 DEF Loaded, from, u
  <1>9. QED  BY <1>2, <1>6, <1>7, <1>8
(* The chunks of a write, one after the other                              *)
Writing(f, start, addr, source, head, n) ==
  f = [k \in 0 .. n |->
         IF k = 0 THEN start
         ELSE WritePiece(f[k - 1], addr, source, head + (k - 1) * ChunkSize, ChunkSize)]

(* The states in between exist: each extends the ones before.              *)
LEMMA WritingExists ==
  ASSUME NEW start, NEW addr, NEW source, NEW head, NEW n \in Nat
  PROVE  \E f : Writing(f, start, addr, source, head, n)
  <1> DEFINE Next1(t, k) == WritePiece(t, addr, source, head + (k - 1) * ChunkSize, ChunkSize)
             Until(f, m) == f = [k \in 0 .. m |-> IF k = 0 THEN start ELSE Next1(f[k - 1], k)]
             T == {m \in Nat : \E f : Until(f, m)}
  <1>1. 0 \in T
    <2> DEFINE f == [k \in 0 .. 0 |-> start]
    <2>1. Until(f, 0)  OBVIOUS
    <2>2. QED  BY <2>1
  <1>2. ASSUME NEW m \in Nat, m \in T PROVE m + 1 \in T
    <2>1. PICK f : Until(f, m)  BY <1>2
    <2> HIDE DEF Next1
    <2> DEFINE last == Next1(f[m], m + 1)
               g == [k \in 0 .. m + 1 |-> IF k = m + 1 THEN last ELSE f[k]]
    <2>2. ASSUME NEW k \in 0 .. m + 1
          PROVE  g[k] = IF k = 0 THEN start ELSE Next1(g[k - 1], k)
      <3>1. CASE k = m + 1
        <4>1. k # 0 /\ k - 1 = m /\ m \in 0 .. m + 1 /\ m # m + 1  BY <3>1
        <4>2. g[k - 1] = f[m] /\ g[k] = last  BY <4>1, <3>1
        <4>3. QED  BY <3>1, <4>1, <4>2
      <3>2. CASE k # m + 1
        <4>1. k \in 0 .. m  BY <3>2
        <4>2. f[k] = IF k = 0 THEN start ELSE Next1(f[k - 1], k)  BY <2>1, <4>1
        <4>3. g[k] = f[k]  BY <3>2
        <4>4. k # 0 => g[k - 1] = f[k - 1]  BY <4>1
        <4>5. QED  BY <4>2, <4>3, <4>4
      <3>3. QED  BY <3>1, <3>2
    <2>3. Until(g, m + 1)
      <3> HIDE DEF last
      <3>1. g = [k \in 0 .. m + 1 |-> g[k]]  OBVIOUS
      <3> HIDE DEF g
      <3>2. QED  BY <2>2, <3>1
    <2>4. \E h : Until(h, m + 1)
      <3> HIDE DEF g, Until
      <3>1. QED  BY <2>3
    <2>5. QED  BY <2>4
  <1>3. Nat \subseteq T
    <2> HIDE DEF T
    <2>1. QED  BY <1>1, <1>2, SetInduction
  <1>4. n \in T  BY <1>3
  <1>5. \A f : Until(f, n) <=> Writing(f, start, addr, source, head, n)
    BY Zenon DEF Writing
  <1>6. QED
    <2> HIDE DEF Until
    <2>1. QED  BY <1>4, <1>5

(* A write stores its source, wherever the chunks are sound.               *)
LEMMA WriteLoads ==
  ASSUME Ascending(regions), NEW s, LoadState(s), NEW addr \in Nat, NEW len \in Nat,
         NEW source \in [0 .. len - 1 -> Contents]
  PROVE  Loaded(Write(s, addr, len, source), s, addr .. addr + len - 1, addr, source)
  <1> DEFINE c == ChunkSize
             unaligned == addr % c
             head == IF unaligned = 0 THEN 0
                     ELSE IF len < c - unaligned THEN len ELSE c - unaligned
             tail == (len - head) % c
             n == (len - head) \div c
             headed == WritePiece(s, addr, source, 0, head)
             start == WritePiece(headed, addr, source, len - tail, tail)
             Right(t, D) == Loaded(t, s, D, addr, source)
             Bytes(skip, count) == addr + skip .. addr + skip + count - 1
  <1>1. c \in Nat \ {0}  BY MemoryImageAssumption
  <1> DEFINE a0 == addr \div c
  <1>2. a0 \in Nat /\ unaligned \in Nat /\ unaligned < c /\ addr = c * a0 + unaligned
    BY <1>1, Quotients
  <1> HIDE DEF a0, unaligned
  <1>3. head \in Nat /\ head <= len /\ len - head \in Nat
    BY <1>1, <1>2
  <1>4. n \in Nat /\ tail \in Nat /\ tail < c /\ len - head = c * n + tail
    <2> HIDE DEF head
    <2>1. QED  BY <1>1, <1>3, Quotients
  <1>5. head = 0 \/ (unaligned > 0 /\ unaligned + head <= c)
    BY <1>1, <1>2
  <1>6. len - head > 0 => \E q \in Nat : addr + head = c * q
    <2>1. CASE unaligned = 0  BY <2>1, <1>1, <1>2
    <2>2. CASE unaligned # 0 /\ len - head > 0
      <3>1. head = c - unaligned  BY <2>2, <1>1, <1>2
      <3>2. addr + head = c * (a0 + 1)  BY <3>1, <1>1, <1>2
      <3>3. QED  BY <3>2, <1>2
    <2>3. QED  BY <2>1, <2>2
  <1>7. PICK f : /\ f = [k \in 0 .. n |->
                           IF k = 0 THEN start
                           ELSE WritePiece(f[k - 1], addr, source, head + (k - 1) * c, c)]
                 /\ Write(s, addr, len, source) = f[n]
    <2> DEFINE Is(f) == Writing(f, start, addr, source, head, n)
               g == CHOOSE f : Is(f)
    <2>1. \E f : Is(f)
      <3> HIDE DEF n, start, head
      <3>1. n \in Nat  BY <1>4
      <3>2. QED  BY <3>1, WritingExists
    <2>2. Is(g)
      <3> HIDE DEF Is
      <3>1. QED  BY <2>1, Zenon
    <2>3. Write(s, addr, len, source) = g[n]  BY DEF Write, Writing, unaligned
    <2> HIDE DEF g
    <2>4. QED  BY <2>2, <2>3 DEF Writing
  <1>8. ASSUME NEW t, NEW D, Right(t, D), NEW skip \in Nat, NEW count \in Nat, skip + count <= len,
               count = 0 \/ addr + skip + count <= ChunkOf(addr + skip) + c
        PROVE  Right(WritePiece(t, addr, source, skip, count), D \cup Bytes(skip, count))
    <2>1. CASE count = 0
      <3>1. WritePiece(t, addr, source, skip, count) = t  BY <2>1 DEF WritePiece
      <3>2. Bytes(skip, count) = {}  BY <2>1
      <3>3. D \cup Bytes(skip, count) = D  BY <3>2
      <3> HIDE DEF Right, Bytes
      <3>4. QED  BY <3>1, <3>3, <1>8
    <2>2. CASE count # 0
      <3>1. count \in Nat \ {0}  BY <2>2
      <3>2. QED  BY <3>1, <2>2, <1>8, PieceLoads, Zenon
    <2>3. QED  BY <2>1, <2>2
  <1>9. ASSUME NEW q \in Nat, NEW e \in Nat, e < c PROVE ChunkOf(c * q + e) = c * q
    <2>1. (c * q + e) \div c = q  BY <1>1, <1>9, QuotientIs
    <2>2. QED  BY <2>1, <1>1 DEF ChunkOf
  <1>10. Right(s, {})
    BY DEF Loaded
  <1> HIDE DEF Right, Bytes, head, tail, n
  <1>11. Right(headed, {} \cup Bytes(0, head))
    <2>1. head = 0 \/ addr + 0 + head <= ChunkOf(addr + 0) + c
      <3>1. ChunkOf(addr) = c * a0  BY <1>2, <1>9
      <3>2. c * a0 \in Nat  BY <1>1, <1>2
      <3>3. addr + 0 = addr  OBVIOUS
      <3>4. QED  BY <3>1, <3>2, <3>3, <1>1, <1>2, <1>3, <1>5
    <2>2. 0 + head <= len /\ 0 \in Nat  BY <1>3
    <2>3. QED  BY <2>1, <2>2, <1>3, <1>8, <1>10
  <1>12. ASSUME NEW k \in Nat, NEW e \in Nat, head + k * c + e <= len, e <= c, e > 0
         PROVE  addr + (head + k * c) + e <= ChunkOf(addr + (head + k * c)) + c
    <2>1. k * c \in Nat  BY <1>1
    <2>2. PICK q \in Nat : addr + head = c * q
      <3>1. len - head > 0  BY <2>1, <1>12, <1>3
      <3>2. QED  BY <3>1, <1>6
    <2>3. q + k \in Nat /\ addr + (head + k * c) = c * (q + k) + 0
      BY <2>1, <2>2, <1>1, <1>3
    <2>4. ChunkOf(addr + (head + k * c)) = c * (q + k)
      <3> DEFINE y == addr + (head + k * c)
                 p == q + k
      <3>1. p \in Nat /\ 0 \in Nat /\ 0 < c /\ y = c * p + 0  BY <2>3, <1>1
      <3> HIDE DEF y, p
      <3>2. ChunkOf(c * p + 0) = c * p  BY <3>1, <1>9
      <3>3. ChunkOf(y) = c * p  BY <3>1, <3>2
      <3>4. QED  BY <3>3 DEF y, p
    <2>5. c * (q + k) \in Nat  BY <2>3, <1>1
    <2>6. QED  BY <2>3, <2>4, <2>5, <1>1, <1>12
  <1>13. Right(start, Bytes(0, head) \cup Bytes(len - tail, tail))
    <2>1. len - tail = head + n * c  BY <1>1, <1>3, <1>4
    <2>2. n * c \in Nat  BY <1>1, <1>4
    <2>3. len - tail \in Nat /\ (len - tail) + tail <= len  BY <2>1, <2>2, <1>3, <1>4
    <2>4. tail = 0 \/ addr + (len - tail) + tail <= ChunkOf(addr + (len - tail)) + c
      <3>1. CASE tail > 0
        <4>1. head + n * c + tail <= len /\ tail <= c  BY <2>1, <2>2, <1>1, <1>3, <1>4
        <4>2. QED  BY <4>1, <3>1, <2>1, <1>4, <1>12
      <3>2. QED  BY <3>1, <1>4
    <2>5. {} \cup Bytes(0, head) = Bytes(0, head)  OBVIOUS
    <2> HIDE DEF start
    <2>6. Right(WritePiece(headed, addr, source, len - tail, tail),
                ({} \cup Bytes(0, head)) \cup Bytes(len - tail, tail))
      <3> HIDE DEF headed
      <3>1. QED  BY <2>3, <2>4, <1>4, <1>8, <1>11
    <2>7. QED  BY <2>5, <2>6 DEF start
  <1> HIDE DEF start, headed
  <1> DEFINE Done(k) == Bytes(0, head) \cup Bytes(len - tail, tail) \cup Bytes(head, k * c)
             T == {k \in Nat : k <= n => Right(f[k], Done(k))}
  <1>14. 0 \in T
    <2>1. f[0] = start  BY <1>4, <1>7
    <2>2. Bytes(head, 0 * c) = {}  BY <1>1, <1>3 DEF Bytes
    <2>3. Done(0) = Bytes(0, head) \cup Bytes(len - tail, tail)  BY <2>2
    <2>4. QED  BY <2>1, <2>3, <1>13
  <1>15. ASSUME NEW k \in Nat, k \in T PROVE k + 1 \in T
    <2>1. SUFFICES ASSUME k + 1 <= n PROVE Right(f[k + 1], Done(k + 1))  OBVIOUS
    <2>2. Right(f[k], Done(k))  BY <1>4, <1>15, <2>1
    <2>3. f[k + 1] = WritePiece(f[k], addr, source, head + k * c, c)
      <3>1. k + 1 \in 0 .. n /\ k + 1 # 0 /\ (k + 1) - 1 = k  BY <2>1, <1>4
      <3>2. f[k + 1] = WritePiece(f[(k + 1) - 1], addr, source, head + ((k + 1) - 1) * c, c)
        BY <3>1, <1>7
      <3>3. QED  BY <3>1, <3>2
    <2>4. k * c \in Nat /\ (k + 1) * c = k * c + c /\ head + k * c + c <= len
      <3>1. (k + 1) * c <= n * c  BY <2>1, <1>1, <1>4
      <3>2. k * c \in Nat /\ (k + 1) * c = k * c + c /\ n * c = c * n /\ c * n \in Nat
        BY <1>1, <1>4
      <3>3. QED  BY <3>1, <3>2, <1>1, <1>3, <1>4
    <2>5. addr + (head + k * c) + c <= ChunkOf(addr + (head + k * c)) + c
      BY <2>4, <1>1, <1>12
    <2>6. head + k * c \in Nat /\ (head + k * c) + c <= len  BY <2>4, <1>3, <1>1
    <2>7. Right(WritePiece(f[k], addr, source, head + k * c, c), Done(k) \cup Bytes(head + k * c, c))
      <3> HIDE DEF Done
      <3>1. QED  BY <2>2, <2>5, <2>6, <1>1, <1>8
    <2>8. Bytes(head, (k + 1) * c) = Bytes(head, k * c) \cup Bytes(head + k * c, c)
      <3> DEFINE x == k * c
      <3>1. x \in Nat /\ (k + 1) * c = x + c  BY <2>4
      <3> HIDE DEF x
      <3>2. Bytes(head, x + c) = Bytes(head, x) \cup Bytes(head + x, c)
        BY <3>1, <1>1, <1>3 DEF Bytes
      <3>3. QED  BY <3>1, <3>2 DEF x
    <2>9. Done(k + 1) = Done(k) \cup Bytes(head + k * c, c)
      BY <2>8
    <2>10. QED  BY <2>3, <2>7, <2>9
  <1>16. Nat \subseteq T
    <2> HIDE DEF T
    <2>1. QED  BY <1>14, <1>15, SetInduction
  <1>17. Right(f[n], Done(n))
    <2>1. n \in T /\ n <= n
      <3> HIDE DEF T
      <3>1. QED  BY <1>4, <1>16
    <2> HIDE DEF Done
    <2>2. QED  BY <2>1
  <1>18. Done(n) = addr .. addr + len - 1
    <2> DEFINE x == n * c
    <2>1. x \in Nat /\ len = head + x + tail  BY <1>1, <1>3, <1>4
    <2> HIDE DEF x
    <2>2. Bytes(0, head) \cup Bytes(len - tail, tail) \cup Bytes(head, x) = addr .. addr + len - 1
      BY <2>1, <1>3, <1>4 DEF Bytes
    <2>3. QED  BY <2>2 DEF x
  <1>19. QED  BY <1>7, <1>17, <1>18 DEF Right
(***************************************************************************)
(* The invariant: regions in ascending order that hold what was asked for, *)
(* memory of their sizes, and the image in it.                             *)
(***************************************************************************)
MemoryImageInv ==
  /\ MemoryImageTypeOK
  /\ Ascending(regions)
  /\ layout # <<>> => DOMAIN image = {}
  /\ layout = <<>> => \A a \in Nat : a \in wanted <=> Covered(regions, a)
  /\ ImageInMemory
  /\ ~astray => loading = "running"

(* Before the regions are made                                             *)
LEMMA MemoryImageInitInv == MemoryImageInit => MemoryImageInv
  <1>1. SUFFICES ASSUME MemoryImageInit PROVE MemoryImageInv  OBVIOUS
  <1>2. /\ layout \in Layouts /\ regions = <<>> /\ memory = <<>> /\ segments = 0
        /\ loading = "running" /\ wanted = {} /\ image = <<>> /\ astray = FALSE
    BY <1>1 DEF MemoryImageInit
  <1>3. DOMAIN regions = {} /\ DOMAIN memory = {} /\ DOMAIN image = {} /\ regions \in Seq(Regions)
    BY <1>2
  <1>4. 0 \in 0 .. MaxSegments  BY MemoryImageAssumption
  <1>5. layout # <<>>
    <2>1. PICK k \in 1 .. MaxRegions : layout \in [1 .. k -> [base : Bases, size : Sizes]]
      BY <1>2 DEF Layouts
    <2>2. DOMAIN layout = 1 .. k /\ 1 \in 1 .. k  BY <2>1, MemoryImageAssumption
    <2>3. DOMAIN <<>> = {}  OBVIOUS
    <2>4. QED  BY <2>2, <2>3
  <1>6. MemoryImageTypeOK
    BY <1>2, <1>3, <1>4 DEF MemoryImageTypeOK
  <1>7. Ascending(regions)  BY <1>3 DEF Ascending
  <1>8. ImageInMemory  BY <1>3 DEF ImageInMemory
  <1>9. QED  BY <1>2, <1>3, <1>5, <1>6, <1>7, <1>8 DEF MemoryImageInv

(* Regions are known by their bases.                                       *)
LEMMA BasesDiffer ==
  ASSUME NEW s, Ascending(s), NEW i \in DOMAIN s, NEW j \in DOMAIN s, s[i].base = s[j].base
  PROVE  i = j
  <1>1. /\ s[i] \in Regions /\ s[j] \in Regions /\ i \in Nat /\ j \in Nat
        /\ \A k, l \in DOMAIN s : k < l => s[k].base + s[k].size <= s[l].base
    BY DEF Ascending
  <1>2. s[i].base \in Nat /\ s[j].base \in Nat /\ s[i].size \in Nat \ {0} /\ s[j].size \in Nat \ {0}
    BY <1>1, AskedIsRegion
  <1>3. CASE i < j  BY <1>1, <1>2, <1>3
  <1>4. CASE j < i  BY <1>1, <1>2, <1>4
  <1>5. QED  BY <1>1, <1>3, <1>4

(* make_mems: the regions are new, and so is their memory                  *)
LEMMA MakeMemsKeepsInv ==
  ASSUME MemoryImageInv, MakeMems
  PROVE  MemoryImageInv'
  <1>1. /\ layout # <<>> /\ layout' = <<>>
        /\ segments' = segments /\ loading' = loading /\ image' = image /\ astray' = astray
        /\ wanted' = UNION {BytesOf(layout[i]) : i \in DOMAIN layout}
    BY DEF MakeMems
  <1>2. PICK order \in Permutation(DOMAIN layout) :
          LET sorted == [i \in DOMAIN layout |-> layout[order[i]]]
          IN /\ \A i, j \in DOMAIN sorted : i < j => ~Precedes(sorted[j], sorted[i])
             /\ regions' = MergedAll(sorted)
    BY Zenon DEF MakeMems
  <1> DEFINE sorted == [i \in DOMAIN layout |-> layout[order[i]]]
  <1>3. PICK k \in 1 .. MaxRegions : layout \in [1 .. k -> [base : Bases, size : Sizes]]
    BY <1>1 DEF MemoryImageInv, MemoryImageTypeOK, Layouts
  <1>4. k \in Nat /\ DOMAIN layout = 1 .. k  BY <1>3, MemoryImageAssumption
  <1>5. /\ order \in [1 .. k -> 1 .. k] /\ \A i \in 1 .. k : \E j \in 1 .. k : order[j] = i
    BY <1>4 DEF Permutation
  <1>6. /\ sorted \in [1 .. k -> [base : Bases, size : Sizes]] /\ DOMAIN sorted = 1 .. k
        /\ \A i \in 1 .. k : sorted[i] = layout[order[i]]
    BY <1>3, <1>4, <1>5
  <1>7. /\ \A i, j \in DOMAIN sorted : i < j => ~Precedes(sorted[j], sorted[i])
        /\ regions' = MergedAll(sorted)
    BY <1>2
  <1> HIDE DEF sorted
  <1>8. Len(sorted) = k  BY <1>4, <1>6
  <1>9. InOrder(sorted)
    <2>1. ASSUME NEW i \in 1 .. k, NEW j \in 1 .. k, i < j PROVE sorted[i].base <= sorted[j].base
      <3>1. sorted[i].base \in Nat /\ sorted[j].base \in Nat  BY <1>6, AskedIsRegion
      <3>2. ~(sorted[j].base < sorted[i].base)  BY <1>6, <1>7, <2>1 DEF Precedes
      <3>3. QED  BY <3>1, <3>2
    <2>2. QED  BY <1>4, <1>6, <1>8, <2>1 DEF InOrder
  <1>10. /\ Ascending(regions')
         /\ \A a \in Nat : Covered(regions', a) <=> \E i \in 1 .. k : a \in BytesOf(sorted[i])
    BY <1>7, <1>8, <1>9, MergedAllKeeps
  <1>11. \A a : (\E i \in 1 .. k : a \in BytesOf(sorted[i])) <=> a \in wanted'
    <2>1. ASSUME NEW a, NEW i \in 1 .. k, a \in BytesOf(sorted[i]) PROVE a \in wanted'
      <3>1. order[i] \in 1 .. k /\ sorted[i] = layout[order[i]]  BY <1>5, <1>6
      <3>2. QED  BY <1>1, <1>4, <2>1, <3>1
    <2>2. ASSUME NEW a, a \in wanted' PROVE \E i \in 1 .. k : a \in BytesOf(sorted[i])
      <3>1. PICK j \in 1 .. k : a \in BytesOf(layout[j])  BY <1>1, <1>4, <2>2
      <3>2. PICK i \in 1 .. k : order[i] = j  BY <1>5
      <3>3. QED  BY <3>1, <3>2, <1>6
    <2>3. QED  BY <2>1, <2>2
  <1>12. (\A a \in Nat : a \in wanted <=> Covered(regions, a))'
    BY <1>10, <1>11
  <1>13. wanted' \subseteq 0 .. HighestAddress
    <2>1. SUFFICES ASSUME NEW i \in 1 .. k, NEW a \in BytesOf(layout[i]) PROVE a \in 0 .. HighestAddress
      BY <1>1, <1>4
    <2>2. /\ layout[i].base \in Nat /\ layout[i].size \in Nat
          /\ layout[i].base + layout[i].size <= Limit
      BY <1>3, AskedIsRegion
    <2>3. QED  BY <2>2, AskedIsRegion DEF BytesOf
  <1> DEFINE bases == {regions'[i].base : i \in DOMAIN regions'}
             found(b) == CHOOSE s \in RegionSet' : s.base = b
  <1>14. memory' = [b \in bases |-> [o \in 0 .. Room(found(b)) - 1 |-> Zero]]
    BY DEF MakeMems
  <1>15. ASSUME NEW i \in DOMAIN regions' PROVE found(regions'[i].base) = regions'[i]
    <2>1. RegionSet' = {regions'[j] : j \in DOMAIN regions'}  BY DEF RegionSet
    <2>2. \A s \in RegionSet' : s.base = regions'[i].base => s = regions'[i]
      <3>1. SUFFICES ASSUME NEW j \in DOMAIN regions', regions'[j].base = regions'[i].base
                     PROVE  regions'[j] = regions'[i]
        BY <2>1
      <3>2. j = i  BY <3>1, <1>10, BasesDiffer
      <3>3. QED  BY <3>2
    <2>3. regions'[i] \in RegionSet'  BY <2>1
    <2>4. QED  BY <2>2, <2>3
  <1>16. /\ DOMAIN memory' = bases
         /\ \A i \in DOMAIN regions' : memory'[regions'[i].base] \in [0 .. Room(regions'[i]) - 1 -> Contents]
    <2>1. DOMAIN memory' = bases  BY <1>14
    <2>2. ASSUME NEW i \in DOMAIN regions'
          PROVE  memory'[regions'[i].base] \in [0 .. Room(regions'[i]) - 1 -> Contents]
      <3> HIDE DEF found
      <3>1. memory'[regions'[i].base] = [o \in 0 .. Room(found(regions'[i].base)) - 1 |-> Zero]
        BY <1>14
      <3>2. memory'[regions'[i].base] = [o \in 0 .. Room(regions'[i]) - 1 |-> Zero]
        BY <3>1, <1>15
      <3>3. Zero \in Contents  BY DEF Contents
      <3>4. QED  BY <3>2, <3>3
    <2>3. QED  BY <2>1, <2>2
  <1>17. DOMAIN image = {}  BY <1>1 DEF MemoryImageInv
  <1>18. ImageInMemory'  BY <1>1, <1>17 DEF ImageInMemory
  <1>19. MemoryImageTypeOK'
    <2>1. regions' \in Seq(Regions)  BY <1>10 DEF Ascending
    <2>2. MemoryImageTypeOK  BY DEF MemoryImageInv
    <2>3. (\A i \in DOMAIN regions : memory[regions[i].base] \in [0 .. Room(regions[i]) - 1 -> Contents])'
      BY <1>16 DEF Room
    <2>4. (DOMAIN memory = {regions[i].base : i \in DOMAIN regions})'
      BY <1>16
    <2>5. QED  BY <2>1, <2>2, <2>3, <2>4, <1>1, <1>13, <1>17 DEF MemoryImageTypeOK
  <1>20. QED
    BY <1>1, <1>10, <1>12, <1>17, <1>18, <1>19 DEF MemoryImageInv, Ascending

(* load_elf: two writes, of data and of zeros                              *)
LEMMA LoadSegmentKeepsInv ==
  ASSUME MemoryImageInv,
         NEW addr \in Starts, NEW filesz \in FileSizes, NEW pad \in Pads,
         LoadSegment(addr, filesz, pad)
  PROVE  MemoryImageInv'
  <1> DEFINE data == [k \in 0 .. filesz - 1 |-> <<segments + 1, k>>]
             zeros == [k \in 0 .. pad - 1 |-> Zero]
             s0 == [loading |-> loading, memory |-> memory]
             s1 == Write(s0, addr, filesz, data)
             s2 == Write(s1, addr + filesz, pad, zeros)
             bytes == addr .. addr + filesz + pad - 1
  <1>1. /\ layout = <<>> /\ loading = "running" /\ segments < MaxSegments
        /\ segments' = segments + 1 /\ memory' = s2.memory /\ loading' = s2.loading
        /\ layout' = layout /\ regions' = regions /\ wanted' = wanted
    BY Zenon DEF LoadSegment
  <1>2. image' = [a \in DOMAIN image \cup bytes |->
                    IF a \notin bytes THEN image[a]
                    ELSE IF a < addr + filesz THEN data[a - addr] ELSE Zero]
    BY DEF LoadSegment
  <1>3. astray' = (astray \/ \E a \in bytes : ~Sound(a))
    BY DEF LoadSegment
  <1>4. /\ addr \in Nat /\ filesz \in Nat /\ pad \in Nat /\ addr + filesz \in Nat
        /\ filesz <= Top(FileSizes) /\ addr + filesz + pad <= HighestAddress
        /\ HighestAddress \in Nat /\ Top(FileSizes) \in Nat
    <2>1. /\ Top(Bases) \in Bases /\ Top(Sizes) \in Sizes
          /\ Top(Starts) \in Starts /\ \A x \in Starts : x <= Top(Starts)
          /\ Top(FileSizes) \in FileSizes /\ \A x \in FileSizes : x <= Top(FileSizes)
          /\ Top(Pads) \in Pads /\ \A x \in Pads : x <= Top(Pads)
      BY TopIs
    <2>2. /\ Bases \subseteq Nat /\ Sizes \subseteq Nat
          /\ Starts \subseteq Nat /\ FileSizes \subseteq Nat /\ Pads \subseteq Nat
      BY MemoryImageAssumption
    <2>3. addr <= Top(Starts) /\ filesz <= Top(FileSizes) /\ pad <= Top(Pads)  BY <2>1
    <2>4. /\ addr \in Nat /\ filesz \in Nat /\ pad \in Nat
          /\ Top(Bases) \in Nat /\ Top(Sizes) \in Nat /\ Top(Starts) \in Nat
          /\ Top(FileSizes) \in Nat /\ Top(Pads) \in Nat
      BY <2>1, <2>2
    <2>5. QED  BY <2>3, <2>4 DEF HighestAddress
  <1>5. /\ MemoryImageTypeOK /\ Ascending(regions) /\ ImageInMemory
        /\ \A a \in Nat : a \in wanted <=> Covered(regions, a)
    BY <1>1 DEF MemoryImageInv
  <1>6. segments \in Nat /\ segments + 1 \in 1 .. MaxSegments
    BY <1>1, <1>5, MemoryImageAssumption DEF MemoryImageTypeOK
  <1>7. data \in [0 .. filesz - 1 -> Contents]
    <2>1. ASSUME NEW k \in 0 .. filesz - 1 PROVE <<segments + 1, k>> \in Contents
      <3>1. k \in 0 .. Top(FileSizes)  BY <1>4
      <3>2. QED  BY <3>1, <1>6 DEF Contents
    <2>2. QED  BY <2>1
  <1>8. zeros \in [0 .. pad - 1 -> Contents]
    <2>1. Zero \in Contents  BY DEF Contents
    <2>2. QED  BY <2>1
  <1>9. s0.loading = loading /\ s0.memory = memory /\ LoadState(s0)
    BY <1>5 DEF LoadState, MemoryOK, MemoryImageTypeOK, Endings
  <1> HIDE DEF s0
  <1>10. Loaded(s1, s0, addr .. addr + filesz - 1, addr, data)
    <2> HIDE DEF data
    <2>1. QED  BY <1>4, <1>5, <1>7, <1>9, WriteLoads
  <1> HIDE DEF s1
  <1>11. LoadState(s1)  BY <1>10 DEF Loaded
  <1>12. Loaded(s2, s1, addr + filesz .. addr + filesz + pad - 1, addr + filesz, zeros)
    <2> HIDE DEF zeros
    <2>1. QED  BY <1>4, <1>5, <1>8, <1>11, WriteLoads
  <1> HIDE DEF s2
  <1>13. /\ \A a \in addr .. addr + filesz - 1 : a \in bytes
         /\ \A a \in addr + filesz .. addr + filesz + pad - 1 : a \in bytes
         /\ \A a \in bytes : a \in Nat
         /\ bytes \subseteq 0 .. HighestAddress
    BY <1>4
  <1>14. (~astray => loading = "running")'
    <2>1. SUFFICES ASSUME ~astray' PROVE s2.loading = "running"
      BY <1>1
    <2>2. ~astray /\ \A a \in bytes : Sound(a)  BY <1>3, <2>1
    <2>3. s1.loading = "running"
      BY <2>2, <1>1, <1>9, <1>10, <1>13 DEF Loaded
    <2>4. QED  BY <2>2, <2>3, <1>12, <1>13 DEF Loaded
  <1>15. ImageInMemory'
    <2>1. SUFFICES ASSUME s2.loading = "running", NEW a \in DOMAIN image', Sound(a)
                   PROVE  InMemory(a) /\ s2.memory[FindDevice(a).base][a - FindDevice(a).base] = image'[a]
      BY <1>1 DEF ImageInMemory, Sound, InMemory, LoadedByte, FindDevice, Below, RegionSet
    <2>2. a \in Nat /\ a \in DOMAIN image \cup bytes
      <3>1. DOMAIN image' = DOMAIN image \cup bytes  BY <1>2
      <3>2. a \in DOMAIN image \cup bytes  BY <3>1
      <3>3. DOMAIN image \subseteq 0 .. HighestAddress  BY <1>5 DEF MemoryImageTypeOK
      <3>4. a \in 0 .. HighestAddress  BY <3>2, <3>3, <1>13
      <3>5. QED  BY <3>2, <3>4, <1>4
    <2>3. InMemory(a)  BY <2>1, <2>2, <1>5, SoundIs
    <2>4. /\ s1.loading = "running"
          /\ Byte(s2.memory, a) = IF a \in addr + filesz .. addr + filesz + pad - 1
                                  THEN zeros[a - (addr + filesz)] ELSE Byte(s1.memory, a)
      <3> HIDE DEF zeros
      <3>1. QED  BY <2>1, <2>2, <1>12 DEF Loaded
    <2>5. Byte(s1.memory, a) = IF a \in addr .. addr + filesz - 1
                               THEN data[a - addr] ELSE Byte(s0.memory, a)
      <3> HIDE DEF data
      <3>1. QED  BY <2>1, <2>2, <2>4, <1>10 DEF Loaded
    <2>6. CASE a \notin bytes
      <3>1. /\ a \in DOMAIN image /\ image'[a] = image[a]  BY <1>2, <2>2, <2>6
      <3>2. Byte(memory, a) = image[a]
        BY <3>1, <2>1, <1>1, <1>5 DEF ImageInMemory, LoadedByte, Byte
      <3>3. Byte(s2.memory, a) = Byte(memory, a)  BY <2>4, <2>5, <2>6, <1>9, <1>13
      <3>4. QED  BY <2>3, <3>1, <3>2, <3>3 DEF Byte
    <2>7. CASE a \in bytes /\ a < addr + filesz
      <3>1. image'[a] = data[a - addr]
        <4> HIDE DEF data
        <4>1. QED  BY <1>2, <2>7
      <3>2. a \in addr .. addr + filesz - 1 /\ a \notin addr + filesz .. addr + filesz + pad - 1
        BY <2>2, <2>7, <1>4
      <3> HIDE DEF data
      <3>3. QED  BY <3>1, <3>2, <2>3, <2>4, <2>5 DEF Byte
    <2>8. CASE a \in bytes /\ ~(a < addr + filesz)
      <3>1. image'[a] = Zero  BY <1>2, <2>8
      <3>2. a \in addr + filesz .. addr + filesz + pad - 1 /\ a - (addr + filesz) \in 0 .. pad - 1
        BY <2>2, <2>8, <1>4
      <3>3. zeros[a - (addr + filesz)] = Zero  BY <3>2
      <3> HIDE DEF zeros
      <3>4. QED  BY <3>1, <3>2, <3>3, <2>3, <2>4 DEF Byte
    <2>9. QED  BY <2>6, <2>7, <2>8
  <1>16. MemoryImageTypeOK'
    <2>1. MemoryOK(s2.memory) /\ s2.loading \in Endings  BY <1>12 DEF Loaded, LoadState
    <2>2. DOMAIN image' \subseteq 0 .. HighestAddress
      <3>1. DOMAIN image' = DOMAIN image \cup bytes  BY <1>2
      <3>2. QED  BY <3>1, <1>5, <1>13 DEF MemoryImageTypeOK
    <2>3. ASSUME NEW a \in DOMAIN image' PROVE image'[a] \in Contents
      <3>1. a \in DOMAIN image \cup bytes  BY <1>2
      <3>2. CASE a \notin bytes
        BY <3>1, <3>2, <1>2, <1>5 DEF MemoryImageTypeOK
      <3>3. CASE a \in bytes /\ a < addr + filesz
        <4>1. a - addr \in 0 .. filesz - 1  BY <3>3, <1>4
        <4> HIDE DEF data
        <4>2. image'[a] = data[a - addr]  BY <1>2, <3>1, <3>3
        <4>3. QED  BY <4>1, <4>2, <1>7
      <3>4. CASE a \in bytes /\ ~(a < addr + filesz)
        <4>1. image'[a] = Zero  BY <1>2, <3>1, <3>4
        <4>2. QED  BY <4>1 DEF Contents
      <3>5. QED  BY <3>2, <3>3, <3>4
    <2>4. astray' \in BOOLEAN  BY <1>3, <1>5 DEF MemoryImageTypeOK
    <2>5. /\ (DOMAIN memory = {regions[i].base : i \in DOMAIN regions})'
          /\ (\A i \in DOMAIN regions : memory[regions[i].base] \in [0 .. Room(regions[i]) - 1 -> Contents])'
      BY <2>1, <1>1 DEF MemoryOK, Room
    <2>6. layout' \in Layouts \cup {<<>>} /\ regions' \in Seq(Regions) /\ wanted' \subseteq 0 .. HighestAddress
      BY <1>1, <1>5 DEF MemoryImageTypeOK
    <2>7. segments' \in 0 .. MaxSegments /\ loading' \in {"running", "bad address", "undefined"}
      <3>1. segments + 1 \in 0 .. MaxSegments  BY <1>6, MemoryImageAssumption
      <3>2. QED  BY <3>1, <2>1, <1>1 DEF Endings
    <2>8. QED  BY <2>2, <2>3, <2>4, <2>5, <2>6, <2>7 DEF MemoryImageTypeOK
  <1>17. Ascending(regions)'  BY <1>1, <1>5 DEF Ascending
  <1>18. (layout = <<>> => \A a \in Nat : a \in wanted <=> Covered(regions, a))'
    BY <1>1, <1>5 DEF Covered, BytesOf
  <1>19. QED
    BY <1>1, <1>14, <1>15, <1>16, <1>17, <1>18 DEF MemoryImageInv

LEMMA MemoryImageStepInv ==
  MemoryImageInv /\ [MemoryImageNext]_memoryImageVars => MemoryImageInv'
  <1>1. SUFFICES ASSUME MemoryImageInv, [MemoryImageNext]_memoryImageVars PROVE MemoryImageInv'
    OBVIOUS
  <1>2. CASE MakeMems  BY <1>1, <1>2, MakeMemsKeepsInv
  <1>3. CASE \E addr \in Starts, filesz \in FileSizes, pad \in Pads : LoadSegment(addr, filesz, pad)
    BY <1>1, <1>3, LoadSegmentKeepsInv
  <1>4. CASE UNCHANGED memoryImageVars
    <2>1. /\ layout' = layout /\ regions' = regions /\ memory' = memory /\ segments' = segments
          /\ loading' = loading /\ wanted' = wanted /\ image' = image /\ astray' = astray
      BY <1>4 DEF memoryImageVars
    <2>2. MemoryImageTypeOK'  BY <1>1, <2>1 DEF MemoryImageInv, MemoryImageTypeOK, Room
    <2>3. Ascending(regions)' /\ (layout = <<>> => \A a \in Nat : a \in wanted <=> Covered(regions, a))'
      BY <1>1, <2>1 DEF MemoryImageInv, Ascending, Covered, BytesOf
    <2>4. ImageInMemory'
      BY <1>1, <2>1
      DEF MemoryImageInv, ImageInMemory, Sound, InMemory, LoadedByte, FindDevice, Below, RegionSet
    <2>5. QED  BY <1>1, <2>1, <2>2, <2>3, <2>4 DEF MemoryImageInv
  <1>5. QED  BY <1>1, <1>2, <1>3, <1>4 DEF MemoryImageNext

(* The variables have their types.                                         *)
THEOREM MemoryImageTypeCorrect == MemoryImageSpec => []MemoryImageTypeOK
  <1>1. MemoryImageInv => MemoryImageTypeOK  BY DEF MemoryImageInv
  <1>2. QED
    BY <1>1, MemoryImageInitInv, MemoryImageStepInv, PTL DEF MemoryImageSpec

(* Memory is what was asked for, each address in one region, and holds     *)
(* what the last segment of the program had for each address whose chunk   *)
(* is sound; a program that has nothing elsewhere is loaded.               *)
THEOREM ProgramFound == MemoryImageSpec => []ProgramInMemory
  <1>1. MemoryImageInv => ProgramInMemory
    <2>1. SUFFICES ASSUME MemoryImageInv PROVE ProgramInMemory  OBVIOUS
    <2>2. RegionsDisjoint  BY <2>1 DEF MemoryImageInv, Ascending, RegionsDisjoint
    <2>3. RegionsCoverWanted
      <3>1. SUFFICES ASSUME layout = <<>>
                     PROVE  UNION {BytesOf(regions[i]) : i \in DOMAIN regions} = wanted
        BY DEF RegionsCoverWanted
      <3>2. \A a \in Nat : a \in wanted <=> Covered(regions, a)
        BY <2>1, <3>1 DEF MemoryImageInv
      <3>3. wanted \subseteq Nat
        <4>1. wanted \subseteq 0 .. HighestAddress  BY <2>1 DEF MemoryImageInv, MemoryImageTypeOK
        <4>2. QED  BY <4>1, AskedIsRegion
      <3>4. \A i \in DOMAIN regions : BytesOf(regions[i]) \subseteq Nat
        <4>1. ASSUME NEW i \in DOMAIN regions PROVE BytesOf(regions[i]) \subseteq Nat
          <5>1. regions[i] \in Regions  BY <2>1 DEF MemoryImageInv, Ascending
          <5>2. regions[i].base \in Nat /\ regions[i].size \in Nat  BY <5>1, AskedIsRegion
          <5>3. QED  BY <5>2 DEF BytesOf
        <4>2. QED  BY <4>1
      <3>5. QED  BY <3>2, <3>3, <3>4 DEF Covered
    <2>4. QED  BY <2>1, <2>2, <2>3 DEF MemoryImageInv, ProgramInMemory
  <1>2. QED
    BY <1>1, MemoryImageInitInv, MemoryImageStepInv, PTL DEF MemoryImageSpec
=============================================================================
