------------------------------ MODULE CacheSim ------------------------------
(***************************************************************************)
(* The cache simulator (riscv/cachesim.cc): a data cache in front of a     *)
(* second-level cache that the instruction cache misses into too, with     *)
(* random replacement, write-back, and the cache-management operations.    *)
(*                                                                         *)
(* The simulator keeps tags and no data.  `newest` says where the last     *)
(* store to a chunk of memory would be, had it data: what the caches do    *)
(* with their dirty bits is judged by it.  Every cache has a line size of  *)
(* its own.  One level accesses the next at one address only, the first of *)
(* its line, whatever the number of bytes (cache_sim_t::access counts them *)
(* and looks at nothing but the address).  An access of the program is to  *)
(* one chunk.  Statistics are left out, and the fully associative cache    *)
(* (more than four ways and one set).                                      *)
(***************************************************************************)
EXTENDS Integers

CONSTANTS
  NChunks,          \* bound: the chunks of memory, the unit of an access
  L1Line, L2Line,   \* cache_sim_t::linesz of each level, in chunks
  BlockSize,        \* mmu_t::blocksz, of the cache-management operations
  L1Sets, L1Ways, L2Sets, L2Ways

ASSUME CacheAssumption ==
  {NChunks, L1Line, L2Line, BlockSize, L1Sets, L1Ways, L2Sets, L2Ways}
    \subseteq Nat \ {0}

(* The geometries in which no store is lost: the lines of the second level *)
(* are made of whole lines of the first, and the blocks of whole lines of  *)
(* both.  All of them being powers of two, L1Line <= L2Line <= BlockSize.  *)
LinesNest == L2Line % L1Line = 0 /\ BlockSize % L2Line = 0

Chunks == 0 .. NChunks - 1
Lines == Chunks    \* a memory of as many lines as chunks is the largest
NoLine == NChunks  \* the line of a tag that never held one; it is not valid

(* addr >> idx_shift, at each level *)
L1Of(c) == c \div L1Line
L2Of(c) == c \div L2Line

(* A mutant of LineBelow: the number of the line is taken for its address *)
LineBelowUnshifted(x) == L2Of(x)

(* The line of the second level that is accessed for line x of the first:  *)
(* the one of its first address                                            *)
LineBelow(x) == L2Of(x * L1Line)

TagWords == [line : Lines \cup {NoLine}, valid : BOOLEAN, dirty : BOOLEAN]
Empty == [line |-> NoLine, valid |-> FALSE, dirty |-> FALSE]

VARIABLES
  l1, l2,   \* tags: of each set and way
  newest    \* of each chunk: "L1", "L2" or "memory"

cacheVars == <<l1, l2, newest>>

L1Slots == (0 .. L1Sets - 1) \X (0 .. L1Ways - 1)
L2Slots == (0 .. L2Sets - 1) \X (0 .. L2Ways - 1)

CacheTypeOK ==
  /\ l1 \in [L1Slots -> TagWords] /\ l2 \in [L2Slots -> TagWords]
  /\ newest \in [Chunks -> {"L1", "L2", "memory"}]

CacheInit ==
  /\ l1 = [s \in L1Slots |-> Empty] /\ l2 = [s \in L2Slots |-> Empty]
  /\ newest = [c \in Chunks |-> "memory"]

(* check_tag: the slots that hold a line *)
Hits(tags, x) == {s \in DOMAIN tags : tags[s].valid /\ tags[s].line = x}

(* victimize may choose any way of the line's set *)
Victims(tags, sets, x) == {s \in DOMAIN tags : s[1] = x % sets}

Dirtied(tags, x) == [s \in DOMAIN tags |-> IF s \in Hits(tags, x) THEN [tags[s] EXCEPT !.dirty = TRUE]
                                           ELSE tags[s]]

(* A mutant of Accessed: a store that misses leaves the line clean *)
AccessedCleanOnMiss(tags, x, store, way) ==
  IF Hits(tags, x) = {} THEN [tags EXCEPT ![way] = [line |-> x, valid |-> TRUE, dirty |-> FALSE]]
  ELSE IF store THEN Dirtied(tags, x) ELSE tags

(* access: with the way that victimize would choose on a miss *)
Accessed(tags, x, store, way) ==
  LET filled == IF Hits(tags, x) # {} THEN tags
                ELSE [tags EXCEPT ![way] = [line |-> x, valid |-> TRUE, dirty |-> FALSE]]
  IN IF store THEN Dirtied(filled, x) ELSE filled

(* What a miss writes back *)
WrittenBack(tags, x, way) ==
  IF Hits(tags, x) = {} /\ tags[way].valid /\ tags[way].dirty THEN {tags[way].line} ELSE {}

(* Chunks of lines that go to memory when they leave the second level *)
Flushed(where, lines) ==
  [c \in Chunks |-> IF L2Of(c) \in lines /\ where[c] = "L2" THEN "memory" ELSE where[c]]

(* An access of the data cache: on a miss the victim goes down first, then *)
(* the line comes up                                                       *)
DataAccess(c, store) ==
  LET x == L1Of(c)
      stored(where) == IF store THEN [where EXCEPT ![c] = "L1"] ELSE where
  IN
  \E way \in Victims(l1, L1Sets, x) :
    LET down == WrittenBack(l1, x, way)
        moved == [d \in Chunks |-> IF L1Of(d) \in down /\ newest[d] = "L1" THEN "L2" ELSE newest[d]]
    IN
    /\ l1' = Accessed(l1, x, store, way)
    /\ IF Hits(l1, x) # {} THEN l2' = l2 /\ newest' = stored(newest)
       ELSE IF down = {} THEN
         \E w \in Victims(l2, L2Sets, LineBelow(x)) :
           /\ l2' = Accessed(l2, LineBelow(x), FALSE, w)
           /\ newest' = stored(Flushed(newest, WrittenBack(l2, LineBelow(x), w)))
       ELSE
         LET y == LineBelow(l1[way].line) IN
         \E w \in Victims(l2, L2Sets, y), w2 \in Victims(l2, L2Sets, LineBelow(x)) :
           LET between == Accessed(l2, y, TRUE, w) IN
           /\ l2' = Accessed(between, LineBelow(x), FALSE, w2)
           /\ newest' = stored(Flushed(Flushed(moved, WrittenBack(l2, y, w)),
                                       WrittenBack(between, LineBelow(x), w2)))

(* A miss of the instruction cache, which never holds a dirty line; its    *)
(* lines may begin at any chunk                                            *)
InstructionMiss(c) ==
  /\ \E w \in Victims(l2, L2Sets, L2Of(c)) :
       /\ l2' = Accessed(l2, L2Of(c), FALSE, w)
       /\ newest' = Flushed(newest, WrittenBack(l2, L2Of(c), w))
  /\ l1' = l1

(* mmu_t::clean_inval aligns the address to a block *)
Block(c) == {d \in Chunks : d \div BlockSize = c \div BlockSize}

(* clean_invalidate of one level, line after line of the block.  A line    *)
(* that is invalidated and not cleaned keeps its dirty bit.                *)
CleanInvalidated(tags, lines, clean, inval) ==
  [s \in DOMAIN tags |->
    IF tags[s].valid /\ tags[s].line \in lines
    THEN [tags[s] EXCEPT !.dirty = @ /\ ~clean, !.valid = ~inval]
    ELSE tags[s]]

(* Chunks whose last store a clean writes back from one of these lines *)
Cleaned(lines1, lines2) ==
  {d \in Chunks : \/ newest[d] = "L1" /\ L1Of(d) \in lines1
                  \/ newest[d] = "L2" /\ L2Of(d) \in lines2}

CacheManagement(c, clean, inval) ==
  LET lines1 == {L1Of(d) : d \in Block(c)}
      lines2 == {L2Of(d) : d \in Block(c)}
      settled == Block(c) \cup (IF clean THEN Cleaned(lines1, lines2) ELSE {})
  IN
  /\ l1' = CleanInvalidated(l1, lines1, clean, inval)
  /\ l2' = CleanInvalidated(l2, lines2, clean, inval)
  /\ newest' = [d \in Chunks |-> IF d \in settled THEN "memory" ELSE newest[d]]

CacheNext ==
  \E c \in Chunks :
    \/ \E store \in BOOLEAN : DataAccess(c, store)
    \/ InstructionMiss(c)
    \* cbo.clean, cbo.flush, cbo.inval
    \/ \E clean, inval \in BOOLEAN : (clean \/ inval) /\ CacheManagement(c, clean, inval)

CacheSpec == CacheInit /\ [][CacheNext]_cacheVars
-----------------------------------------------------------------------------
(* Where lines and blocks nest, no line is in a cache twice, and no store  *)
(* is forgotten: where the last store to a chunk would be, its line is     *)
(* valid and dirty, until that level writes it back or the program gives   *)
(* it up.  With smaller lines in the second level it is not so: the one    *)
(* access of a write-back dirties only the first of them.                  *)
StoresKept ==
  /\ \A s, t \in L1Slots : l1[s].valid /\ l1[t].valid /\ l1[s].line = l1[t].line => s = t
  /\ \A s, t \in L2Slots : l2[s].valid /\ l2[t].valid /\ l2[s].line = l2[t].line => s = t
  /\ \A c \in Chunks :
       /\ newest[c] = "L1" => \E s \in Hits(l1, L1Of(c)) : l1[s].dirty
       /\ newest[c] = "L2" => \E s \in Hits(l2, L2Of(c)) : l2[s].dirty
=============================================================================
