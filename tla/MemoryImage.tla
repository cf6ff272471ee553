---------------------------- MODULE MemoryImage -----------------------------
(***************************************************************************)
(* How memory is laid out and a program gets into it: the regions of the   *)
(* command line (spike_main/spike.cc), the devices of the bus that they    *)
(* become (riscv/devices.cc), the segments of an ELF file                  *)
(* (fesvr/elfloader.cc), and the interface of the front-end server that    *)
(* writes them chunk by chunk (fesvr/memif.cc, riscv/sim.cc).              *)
(*                                                                         *)
(* Regions need not be aligned: DISABLE_PGSIZE_CHECK is 1.  The contents   *)
(* of a region are pages of the host, by their offset in the region, with  *)
(* room up to the end of the last one.  The other devices are left out.    *)
(***************************************************************************)
EXTENDS Integers, Sequences, FiniteSets

CONSTANTS
  ChunkSize,     \* chunk_align and chunk_max_size
  PageSize,      \* PGSIZE
  Bases, Sizes,  \* of the regions that the user may ask for
  MaxRegions,    \* bound: how many
  Starts, FileSizes, Pads,  \* p_paddr, p_filesz and the rest of p_memsz of a segment
  MaxSegments    \* bound: the segments of the program

ASSUME MemoryImageAssumption ==
  /\ ChunkSize \in Nat \ {0} /\ PageSize \in Nat \ {0} /\ PageSize % ChunkSize = 0
  /\ Bases \cup Starts \cup FileSizes \cup Pads \subseteq Nat /\ Sizes \subseteq Nat \ {0}
  /\ MaxRegions \in Nat \ {0} /\ MaxSegments \in Nat
  /\ \A S \in {Bases, Sizes, Starts, FileSizes, Pads} : \E x \in S : \A y \in S : y <= x

Top(S) == CHOOSE x \in S : \A y \in S : y <= x
HighestAddress == Top(Bases) + Top(Sizes) + Top(Starts) + Top(FileSizes) + Top(Pads)

Regions == [base : Bases, size : 1 .. HighestAddress]
BytesOf(r) == r.base .. r.base + r.size - 1
Room(r) == ((r.size + PageSize - 1) \div PageSize) * PageSize

(* A byte of the program is known by its segment and its place in it       *)
Zero == <<0, 0>>
Contents == {Zero} \cup (1 .. MaxSegments) \X (0 .. Top(FileSizes))

Layouts == UNION {[1 .. k -> [base : Bases, size : Sizes]] : k \in 1 .. MaxRegions}

VARIABLES
  layout,     \* the regions that are asked for, until they are made
  regions,    \* in ascending order
  memory,     \* of each region, by its base: the contents of its pages
  segments,   \* how many have been loaded
  loading,    \* "running", or how the program's loading has ended
  wanted,     \* history: the addresses that were asked for
  image,      \* history: what the addresses that were loaded should hold
  astray      \* history: something was loaded outside of what is sound (see below)

memoryImageVars == <<layout, regions, memory, segments, loading, wanted, image, astray>>

MemoryImageTypeOK ==
  /\ layout \in Layouts \cup {<<>>}
  /\ regions \in Seq(Regions)
  /\ DOMAIN memory = {regions[i].base : i \in DOMAIN regions}
  /\ \A i \in DOMAIN regions : memory[regions[i].base] \in [0 .. Room(regions[i]) - 1 -> Contents]
  /\ segments \in 0 .. MaxSegments
  /\ loading \in {"running", "bad address", "undefined"}
  /\ wanted \subseteq 0 .. HighestAddress
  /\ DOMAIN image \subseteq 0 .. HighestAddress
  /\ \A a \in DOMAIN image : image[a] \in Contents
  /\ astray \in BOOLEAN

MemoryImageInit ==
  /\ layout \in Layouts /\ regions = <<>> /\ memory = <<>>
  /\ segments = 0 /\ loading = "running"
  /\ wanted = {} /\ image = <<>> /\ astray = FALSE

RegionSet == {regions[i] : i \in DOMAIN regions}

(* sort_mem_region *)
Precedes(r, s) == r.base < s.base \/ (r.base = s.base /\ r.size < s.size)

(* A mutant of Merged: a region that is contained still sets the end *)
MergedShrinking(done, r) ==
  IF done = <<>> \/ r.base >= done[Len(done)].base + done[Len(done)].size THEN Append(done, r)
  ELSE [done EXCEPT ![Len(done)].size = r.base + r.size - done[Len(done)].base]

(* What merge_overlapping_memory_regions does with the next region: it is  *)
(* erased, or extends the one before, or is kept.                          *)
Merged(done, r) ==
  IF done = <<>> THEN <<r>>
  ELSE LET p == done[Len(done)]
           end == p.base + p.size
       IN IF r.base + r.size <= end THEN done
          ELSE IF r.base < end THEN [done EXCEPT ![Len(done)].size = r.base + r.size - p.base]
          ELSE Append(done, r)

MergedAll(sorted) ==
  LET done[k \in 0 .. Len(sorted)] ==
        IF k = 0 THEN <<>> ELSE Merged(done[k - 1], sorted[k])
  IN done[Len(sorted)]

Permutation(S) == {p \in [S -> S] : \A x \in S : \E y \in S : p[y] = x}

(* std::sort leaves any permutation that is in order                       *)
MakeMems ==
  /\ layout # <<>>
  /\ \E order \in Permutation(DOMAIN layout) :
       LET sorted == [i \in DOMAIN layout |-> layout[order[i]]]
       IN /\ \A i, j \in DOMAIN sorted : i < j => ~Precedes(sorted[j], sorted[i])
          /\ regions' = MergedAll(sorted)
  /\ memory' = [b \in {regions'[i].base : i \in DOMAIN regions'} |->
                  LET r == CHOOSE s \in RegionSet' : s.base = b IN [o \in 0 .. Room(r) - 1 |-> Zero]]
  /\ wanted' = UNION {BytesOf(layout[i]) : i \in DOMAIN layout}
  /\ layout' = <<>>
  /\ UNCHANGED <<segments, loading, image, astray>>

(* find_device: the device with the greatest base that is not above        *)
Below(a) == {r \in RegionSet : r.base <= a}
FindDevice(a) == CHOOSE r \in Below(a) : \A s \in Below(a) : s.base <= r.base

(* addr_to_mem finds memory.  It looks at the first address of an access.  *)
InMemory(a) == Below(a) # {} /\ a - FindDevice(a).base < FindDevice(a).size

ChunkOf(a) == (a \div ChunkSize) * ChunkSize

(* memcpy: `count` bytes from `skip` on of the source, to `first`          *)
Copied(bytes, first, source, skip, count) ==
  [o \in DOMAIN bytes |->
     IF o \in first .. first + count - 1 THEN source[skip + o - first] ELSE bytes[o]]

(* read_chunk, memcpy and write_chunk, for the `count` bytes from `skip`   *)
(* on of a source whose first byte belongs to addr; they are in one chunk. *)
(* A chunk that begins in memory is copied whole, to the host page where   *)
(* it begins.                                                              *)
WritePiece(s, addr, source, skip, count) ==
  LET chunk == ChunkOf(addr + skip)
      r == FindDevice(chunk)
  IN IF s.loading # "running" \/ count = 0 THEN s
     ELSE IF ~InMemory(chunk) THEN [s EXCEPT !.loading = "bad address"]
     ELSE IF ((chunk - r.base) % PageSize) + ChunkSize > PageSize THEN [s EXCEPT !.loading = "undefined"]
     ELSE [s EXCEPT !.memory[r.base] = Copied(@, (addr + skip) - r.base, source, skip, count)]

(* memif_t::write: the unaligned head, the unaligned tail, and the chunks  *)
(* between                                                                 *)
Write(s, addr, len, source) ==
  LET unaligned == addr % ChunkSize
      head == IF unaligned = 0 THEN 0
              ELSE IF len < ChunkSize - unaligned THEN len ELSE ChunkSize - unaligned
      tail == (len - head) % ChunkSize
      headed == WritePiece(s, addr, source, 0, head)
      after[k \in 0 .. (len - head) \div ChunkSize] ==
        IF k = 0 THEN WritePiece(headed, addr, source, len - tail, tail)
        ELSE WritePiece(after[k - 1], addr, source, head + (k - 1) * ChunkSize, ChunkSize)
  IN after[(len - head) \div ChunkSize]

(* A chunk is sound if it is in one region, which begins at a chunk        *)
Sound(a) ==
  \E i \in DOMAIN regions :
    /\ regions[i].base % ChunkSize = 0
    /\ ChunkOf(a) .. ChunkOf(a) + ChunkSize - 1 \subseteq BytesOf(regions[i])

(* LOAD_ELF, for one segment: what is in the file, then zeros.  A trap is  *)
(* a bad address, and the end.                                             *)
LoadSegment(addr, filesz, pad) ==
  LET data == [k \in 0 .. filesz - 1 |-> <<segments + 1, k>>]
      s1 == Write([loading |-> loading, memory |-> memory], addr, filesz, data)
      bytes == addr .. addr + filesz + pad - 1
      s2 == Write(s1, addr + filesz, pad, [k \in 0 .. pad - 1 |-> Zero])
  IN /\ layout = <<>> /\ loading = "running" /\ segments < MaxSegments
     /\ filesz + pad > 0
     /\ segments' = segments + 1
     /\ memory' = s2.memory /\ loading' = s2.loading
     /\ image' = [a \in DOMAIN image \cup bytes |->
                    IF a \notin bytes THEN image[a]
                    ELSE IF a < addr + filesz THEN data[a - addr] ELSE Zero]
     /\ astray' = (astray \/ \E a \in bytes : ~Sound(a))
     /\ UNCHANGED <<layout, regions, wanted>>

MemoryImageNext ==
  \/ MakeMems
  \/ \E addr \in Starts, filesz \in FileSizes, pad \in Pads : LoadSegment(addr, filesz, pad)

MemoryImageSpec == MemoryImageInit /\ [][MemoryImageNext]_memoryImageVars
-----------------------------------------------------------------------------
(* What a hart's load of one byte gets *)
LoadedByte(a) == memory[FindDevice(a).base][a - FindDevice(a).base]

RegionsDisjoint ==
  \A i, j \in DOMAIN regions : i < j => regions[i].base + regions[i].size <= regions[j].base
RegionsCoverWanted ==
  layout = <<>> => UNION {BytesOf(regions[i]) : i \in DOMAIN regions} = wanted
ImageInMemory ==
  loading = "running" =>
    \A a \in DOMAIN image : Sound(a) => InMemory(a) /\ LoadedByte(a) = image[a]

(* The memory is what was asked for, each address in one region; where a   *)
(* region begins at a chunk and holds the whole chunk, the harts find      *)
(* there, byte for byte, what the last segment of the program had for that *)
(* address, whatever the alignment and the length of the segments; and a   *)
(* program that has nothing elsewhere is loaded to its end.                *)
ProgramInMemory ==
  /\ RegionsDisjoint /\ RegionsCoverWanted /\ ImageInMemory
  /\ ~astray => loading = "running"
=============================================================================
