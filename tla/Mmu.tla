-------------------------------- MODULE Mmu --------------------------------
(***************************************************************************)
(* The memory management unit of each hart (riscv/mmu.h, riscv/mmu.cc):    *)
(* its software TLB, its cache of decoded instructions, the load           *)
(* reservation of LR/SC, and everything that flushes the former and yields *)
(* the latter: sfence.vma, fence.i, writes to satp and mstatus             *)
(* (riscv/csrs.cc), privilege changes and resets (riscv/processor.cc), for *)
(* harts that take turns as sim_t::step makes them (riscv/sim.cc).         *)
(*                                                                         *)
(* Addresses are page numbers: a page holds one word, be it data or an     *)
(* instruction.  The page table is a map from pages to leaf entries, one   *)
(* for each address space that satp can hold.  Supervisor and user mode,   *)
(* both translated, are "S".  A step is one access, one instruction that   *)
(* changes translation, a trap, a reset, or the end of a hart's quantum.   *)
(* The PMP registers are constant: processor_t::put_csr ignores all writes *)
(* to them, and a reset turns every region off.                            *)
(***************************************************************************)
EXTENDS Integers, FiniteSets

CONSTANTS
  NProcs,          \* number of harts
  NFrames,         \* number of physical pages that are memory
  NPages,          \* number of virtual pages
  TlbEntries,      \* TLB_ENTRIES
  IcacheEntries,   \* ICACHE_ENTRIES
  DISABLE_PGSIZE_CHECK, \* which also disables the TLB; decode.h defines it as 1
  HasPmp,          \* whether the harts have PMP regions: n_pmp > 0
  Spaces,          \* the address spaces, i.e. the values of satp but OFF
  Ptes,            \* the page table entries software writes
  Values,          \* what a word of memory can hold
  Virtual,         \* whether the program uses page tables and privileges
  ResetsAnywhere,  \* whether the debugger resets harts that are not in M mode
  BreakBeforeMake  \* whether software changes page tables by the book

Harts == 0 .. NProcs - 1
Frames == 0 .. NFrames - 1
Pages == 0 .. NPages - 1
Entries == 0 .. TlbEntries - 1
Lines == 0 .. IcacheEntries - 1
NoPage == -1
NoFrame == -1
OFF == "off"
Types == {"LOAD", "STORE", "FETCH"}
Privileges == {"S", "M"}

(* A page table entry allows its types of access to its frame; one that    *)
(* allows none is not valid.                                               *)
Invalid == [frame |-> 0, perms |-> {}]
Valid(e) == e # Invalid
PteType == [frame : Frames, perms : SUBSET Types]

ASSUME SizesAssumption ==
  /\ NProcs \in Nat \ {0} /\ NFrames \in Nat \ {0} /\ NPages \in Nat \ {0}
  /\ TlbEntries \in Nat \ {0} /\ IcacheEntries \in Nat \ {0}
  /\ DISABLE_PGSIZE_CHECK \in BOOLEAN /\ HasPmp \in BOOLEAN
ASSUME TableAssumption ==
  /\ OFF \notin Spaces
  /\ Invalid \in Ptes /\ Ptes \subseteq PteType
  /\ Values # {}
ASSUME SoftwareAssumption ==
  Virtual \in BOOLEAN /\ ResetsAnywhere \in BOOLEAN /\ BreakBeforeMake \in BOOLEAN

VARIABLES
  turn,         \* sim_t::current_proc
  mem,          \* memory, a word for each frame
  pte,          \* the page tables, which are in memory as well
  prv,          \* state.prv
  mprv, mpp,    \* mstatus.MPRV and mstatus.MPP
  satp,         \* satp
  tlbTag,       \* tlb_load_tag, tlb_store_tag and tlb_insn_tag
  tlbData,      \* tlb_data, which the three types share
  icacheTag,    \* the pages of the decoded instructions in icache
  icacheFrame,  \* the frames they came from
  reservation,  \* load_reservation_address
  present,      \* history: the entries a page had since a hart's last flush
  intruded      \* history: another hart stored to the reserved frame

modeVars == <<prv, mprv, mpp, satp>>
tlbVars == <<tlbTag, tlbData>>
icacheVars == <<icacheTag, icacheFrame>>
vars == <<turn, mem, pte, modeVars, tlbVars, icacheVars, reservation, present,
          intruded>>

TypeOK ==
  /\ turn \in Harts
  /\ mem \in [Frames -> Values]
  /\ pte \in [Spaces -> [Pages -> Ptes]]
  /\ prv \in [Harts -> Privileges]
  /\ mprv \in [Harts -> BOOLEAN]
  /\ mpp \in [Harts -> Privileges]
  /\ satp \in [Harts -> Spaces \cup {OFF}]
  /\ tlbTag \in [Harts -> [Types -> [Entries -> Pages \cup {NoPage}]]]
  /\ tlbData \in [Harts -> [Entries -> Frames]]
  /\ icacheTag \in [Harts -> [Lines -> Pages \cup {NoPage}]]
  /\ icacheFrame \in [Harts -> [Lines -> Frames]]
  /\ reservation \in [Harts -> Frames \cup {NoFrame}]
  /\ present \in [Harts -> [Spaces -> [Pages -> SUBSET Ptes]]]
  /\ intruded \in [Harts -> BOOLEAN]

Init ==
  /\ turn = 0
  /\ mem \in [Frames -> Values]
  /\ pte = [s \in Spaces |-> [p \in Pages |-> Invalid]]
  /\ prv = [h \in Harts |-> "M"]
  /\ mprv = [h \in Harts |-> FALSE]
  /\ mpp = [h \in Harts |-> "S"]
  /\ satp = [h \in Harts |-> OFF]
  /\ tlbTag = [h \in Harts |-> [t \in Types |-> [i \in Entries |-> NoPage]]]
  /\ tlbData = [h \in Harts |-> [i \in Entries |-> 0]]
  /\ icacheTag = [h \in Harts |-> [i \in Lines |-> NoPage]]
  /\ icacheFrame = [h \in Harts |-> [i \in Lines |-> 0]]
  /\ reservation = [h \in Harts |-> NoFrame]
  /\ present = [h \in Harts |-> [s \in Spaces |-> [p \in Pages |-> {Invalid}]]]
  /\ intruded = [h \in Harts |-> FALSE]

-----------------------------------------------------------------------------
(* Translation.                                                            *)

Index(p) == p % TlbEntries

Hit(h, t, p) == ~DISABLE_PGSIZE_CHECK /\ tlbTag[h][t][Index(p)] = p

IcacheIndex(p) == p % IcacheEntries

IcacheHit(h, p) == icacheTag[h][IcacheIndex(p)] = p

(* The privilege mode an access is made in.                                *)
Mode(h, t) == IF t # "FETCH" /\ mprv[h] THEN mpp[h] ELSE prv[h]

Bare(h, t) == Mode(h, t) = "M" \/ satp[h] = OFF

(* The frames that walk finds for page p: one, or none and a page fault.   *)
Walk(h, t, p) ==
  {f \in Frames : IF Bare(h, t) THEN f = p
                  ELSE LET e == pte[satp[h]][p] IN t \in e.perms /\ f = e.frame}

(* pmp_ok, given that no region is ever on.                                *)
PmpOk(h, t) == Mode(h, t) = "M" \/ ~HasPmp

Translate(h, t, p) == {f \in Walk(h, t, p) : PmpOk(h, t)}

(* The frames an access to page p may go to: on a hit nothing is checked.  *)
Lookup(h, t, p) ==
  IF Hit(h, t, p) THEN {tlbData[h][Index(p)]} ELSE Translate(h, t, p)

(* Mutation: the tags of the other types stay when the page changes.       *)
TagsAfterRefillKeeping(h, t, p) ==
  [u \in Types |->
     IF u = t THEN [tlbTag[h][u] EXCEPT ![Index(p)] = p] ELSE tlbTag[h][u]]

(* The tags of hart h after a checked access of type t to page p.  The     *)
(* entry serves one page, and each type of access only if it was checked.  *)
TagsAfterRefill(h, t, p) ==
  [u \in Types |->
     [tlbTag[h][u] EXCEPT ![Index(p)] = IF u = t \/ @ = p THEN p ELSE NoPage]]

(* An access of type t to page p, found in frame f, refills the TLB if it  *)
(* missed, and if loads and stores are not made in another mode than       *)
(* fetches.  The build in the repository never does.                       *)
Refill(h, t, p, f) ==
  IF Hit(h, t, p) \/ mprv[h] \/ DISABLE_PGSIZE_CHECK
  THEN UNCHANGED tlbVars
  ELSE /\ tlbTag' = [tlbTag EXCEPT ![h] = TagsAfterRefill(h, t, p)]
       /\ tlbData' = [tlbData EXCEPT ![h][Index(p)] = f]

FlushIcache(h) ==
  /\ icacheTag' = [icacheTag EXCEPT ![h] = [i \in Lines |-> NoPage]]
  /\ UNCHANGED icacheFrame

(* Mutation: decoded instructions survive.                                 *)
FlushTlbOnly(h) ==
  /\ tlbTag' = [tlbTag EXCEPT ![h] = [t \in Types |-> [i \in Entries |-> NoPage]]]
  /\ UNCHANGED <<tlbData, icacheVars>>
  /\ present' = [present EXCEPT ![h] = [s \in Spaces |-> [p \in Pages |-> {pte[s][p]}]]]

FlushTlb(h) ==
  /\ tlbTag' = [tlbTag EXCEPT ![h] = [t \in Types |-> [i \in Entries |-> NoPage]]]
  /\ UNCHANGED tlbData
  /\ FlushIcache(h)
  /\ present' = [present EXCEPT ![h] = [s \in Spaces |-> [p \in Pages |-> {pte[s][p]}]]]

KeepTlb == UNCHANGED <<tlbVars, icacheVars, present>>

-----------------------------------------------------------------------------
(* Accesses.                                                               *)

Read(h, t, p) ==
  /\ \E f \in Lookup(h, t, p) : Refill(h, t, p, f)
  /\ UNCHANGED <<turn, mem, pte, modeVars, reservation, present, intruded>>

Load(h, p) == Read(h, "LOAD", p) /\ UNCHANGED icacheVars

(* A hart that is debugged or logs its commits fetches one instruction at  *)
(* a time, and neither uses nor fills its instruction cache.               *)
SlowFetch(h, p) == Read(h, "FETCH", p) /\ UNCHANGED icacheVars

(* Any other hart fetches what its instruction cache misses only.          *)
Fetch(h, p) ==
  /\ ~IcacheHit(h, p)
  /\ \E f \in Lookup(h, "FETCH", p) :
       /\ Refill(h, "FETCH", p, f)
       /\ icacheFrame' = [icacheFrame EXCEPT ![h][IcacheIndex(p)] = f]
  /\ icacheTag' = [icacheTag EXCEPT ![h][IcacheIndex(p)] = p]
  /\ UNCHANGED <<turn, mem, pte, modeVars, reservation, present, intruded>>

(* The store of value x to frame f, by hart h.                             *)
Write(h, f, x) ==
  /\ mem' = [mem EXCEPT ![f] = x]
  /\ intruded' = [g \in Harts |-> intruded[g] \/ (g # h /\ reservation[g] = f)]

Store(h, p, x) ==
  /\ \E f \in Lookup(h, "STORE", p) : Write(h, f, x) /\ Refill(h, "STORE", p, f)
  /\ UNCHANGED <<turn, pte, modeVars, icacheVars, reservation, present>>

(* A load-reserved neither looks at the TLB nor refills it.                *)
LoadReserved(h, p) ==
  /\ \E f \in Translate(h, "LOAD", p) :
       reservation' = [reservation EXCEPT ![h] = f]
  /\ intruded' = [intruded EXCEPT ![h] = FALSE]
  /\ UNCHANGED <<turn, mem, pte, modeVars, tlbVars, icacheVars, present>>

(* Mutation: any reservation will do.                                      *)
ReservesAny(h, f) == reservation[h] # NoFrame

(* check_load_reservation, for an address that was translated to frame f.  *)
Reserves(h, f) == reservation[h] = f

(* A store-conditional translates without the TLB to compare with the      *)
(* reservation, then stores like any other store: through the TLB.         *)
StoreConditional(h, p, x) ==
  /\ \E f \in Translate(h, "STORE", p) :
       IF Reserves(h, f)
       THEN \E g \in Lookup(h, "STORE", p) :
              Write(h, g, x) /\ Refill(h, "STORE", p, g)
       ELSE UNCHANGED <<mem, intruded, tlbVars>>
  /\ reservation' = [reservation EXCEPT ![h] = NoFrame]
  /\ UNCHANGED <<turn, pte, modeVars, icacheVars, present>>

(* Software changes a page table entry.  By the book it makes an entry     *)
(* invalid, has all harts execute sfence.vma, and only then makes it valid *)
(* again.                                                                  *)
ByTheBook(s, p, e) ==
  Valid(e) => \A g \in Harts : present[g][s][p] = {Invalid}

StorePte(s, p, e) ==
  /\ Virtual
  /\ BreakBeforeMake => ByTheBook(s, p, e)
  /\ pte' = [pte EXCEPT ![s][p] = e]
  /\ present' = [h \in Harts |-> [present[h] EXCEPT ![s][p] = @ \cup {e}]]
  /\ UNCHANGED <<turn, mem, modeVars, tlbVars, icacheVars, reservation, intruded>>

-----------------------------------------------------------------------------
(* What changes how addresses are translated.                              *)

SfenceVma(h) ==
  /\ Virtual
  /\ FlushTlb(h)
  /\ UNCHANGED <<turn, mem, pte, modeVars, reservation, intruded>>

FenceI(h) ==
  /\ FlushIcache(h)
  /\ UNCHANGED <<turn, mem, pte, modeVars, tlbVars, reservation, present, intruded>>

WriteSatp(h, s) ==
  /\ Virtual
  /\ satp' = [satp EXCEPT ![h] = s]
  /\ IF s # satp[h] THEN FlushTlb(h) ELSE KeepTlb
  /\ UNCHANGED <<turn, mem, pte, prv, mprv, mpp, reservation, intruded>>

(* maybe_flush_tlb                                                         *)
MstatusFlushes(h, newMprv, newMpp) == newMprv # mprv[h] \/ newMpp # mpp[h]

WriteMstatus(h, newMprv, newMpp) ==
  /\ Virtual
  /\ prv[h] = "M"
  /\ mprv' = [mprv EXCEPT ![h] = newMprv]
  /\ mpp' = [mpp EXCEPT ![h] = newMpp]
  /\ IF MstatusFlushes(h, newMprv, newMpp) THEN FlushTlb(h) ELSE KeepTlb
  /\ UNCHANGED <<turn, mem, pte, prv, satp, reservation, intruded>>

(* An exception or an interrupt, of which an access that finds no frame is *)
(* one case: take_trap, to M, or to S if it is delegated.  The reservation *)
(* survives.                                                               *)
TakeTrap(h, to) ==
  /\ Virtual
  /\ to = "S" => prv[h] = "S"
  /\ prv' = [prv EXCEPT ![h] = to]
  /\ mpp' = IF to = "M" THEN [mpp EXCEPT ![h] = prv[h]] ELSE mpp
  /\ FlushTlb(h)
  /\ UNCHANGED <<turn, mem, pte, mprv, satp, reservation, intruded>>

Mret(h) ==
  /\ Virtual
  /\ prv[h] = "M"
  /\ prv' = [prv EXCEPT ![h] = mpp[h]]
  /\ mprv' = [mprv EXCEPT ![h] = @ /\ mpp[h] = "M"]
  /\ mpp' = [mpp EXCEPT ![h] = "S"]
  /\ FlushTlb(h)
  /\ UNCHANGED <<turn, mem, pte, satp, reservation, intruded>>

(* Sret, in S or in M.                                                     *)
Sret(h) ==
  /\ Virtual
  /\ prv' = [prv EXCEPT ![h] = "S"]
  /\ mprv' = [mprv EXCEPT ![h] = FALSE]
  /\ FlushTlb(h)
  /\ UNCHANGED <<turn, mem, pte, mpp, satp, reservation, intruded>>

(* processor_t::reset, which the debugger asks for: it gives all registers *)
(* their reset values, and flushes neither cache.  A debugger that first   *)
(* halts the hart finds it in M mode, as Debug Mode is entered with a      *)
(* change of privilege.                                                    *)
Reset(h) ==
  /\ prv[h] = "M" \/ ResetsAnywhere
  /\ prv' = [prv EXCEPT ![h] = "M"]
  /\ mprv' = [mprv EXCEPT ![h] = FALSE]
  /\ mpp' = [mpp EXCEPT ![h] = "S"]
  /\ satp' = [satp EXCEPT ![h] = OFF]
  /\ UNCHANGED <<turn, mem, pte, tlbVars, icacheVars, reservation, present, intruded>>

(* Mutation: current_proc does not wrap around.                            *)
NextTurnUnbounded == turn + 1

NextTurn == IF turn = NProcs - 1 THEN 0 ELSE turn + 1

(* sim_t::step hands over to the next hart, and leaves the reservation of  *)
(* the last one in place: the call that would yield it is commented out.   *)
EndQuantum ==
  /\ turn' = NextTurn
  /\ UNCHANGED <<mem, pte, modeVars, tlbVars, icacheVars, reservation, present,
                 intruded>>

Instruction(h) ==
  \/ \E p \in Pages : \/ Load(h, p) \/ SlowFetch(h, p) \/ Fetch(h, p)
                      \/ LoadReserved(h, p)
  \/ \E p \in Pages, x \in Values : Store(h, p, x) \/ StoreConditional(h, p, x)
  \/ \E s \in Spaces, p \in Pages, e \in Ptes : StorePte(s, p, e)
  \/ SfenceVma(h)
  \/ FenceI(h)
  \/ \E s \in Spaces \cup {OFF} : WriteSatp(h, s)
  \/ \E b \in BOOLEAN, m \in Privileges : WriteMstatus(h, b, m)
  \/ \E to \in Privileges : TakeTrap(h, to)
  \/ Mret(h)
  \/ Sret(h)

Next ==
  \/ \E h \in Harts : turn = h /\ Instruction(h)
  \/ \E h \in Harts : Reset(h)
  \/ EndQuantum

Spec == Init /\ [][Next]_vars

-----------------------------------------------------------------------------
(* What software can rely on.                                              *)

(* Whether a page table entry that hart h is entitled to use, because page *)
(* p had it at some time since the hart's last flush, allows accesses of   *)
(* type t to frame f; for an untranslated access, whether f is p itself.   *)
Entitled(h, t, p, f) ==
  IF Bare(h, t) THEN f = p
  ELSE \E e \in present[h][satp[h]][p] : t \in e.perms /\ f = e.frame

(* What the TLB lets through without a check, a check would have let       *)
(* through: for every type of access on its own, in the mode the hart is   *)
(* in, although the three types share one tlb_data, and although neither   *)
(* tag nor data say in which mode or address space they were filled.       *)
HitsEntitled ==
  \A h \in Harts, t \in Types, p \in Pages :
    Hit(h, t, p) =>
      LET f == tlbData[h][Index(p)]
      IN /\ Entitled(h, t, p, f)
         /\ PmpOk(h, t)

(* So does what the instruction cache lets through, which is checked in    *)
(* the same way when the instruction is first fetched and never again.     *)
InstructionsEntitled ==
  \A h \in Harts, p \in Pages :
    IcacheHit(h, p) =>
      LET f == icacheFrame[h][IcacheIndex(p)]
      IN Entitled(h, "FETCH", p, f) /\ PmpOk(h, "FETCH")

(* A store-conditional that succeeds stores to the reserved frame, though  *)
(* it translates its address twice, in two ways.                           *)
ScStoresToReserved ==
  [][\A h \in Harts, f \in Frames :
       /\ reservation[h] # NoFrame /\ reservation'[h] = NoFrame
       /\ mem'[f] # mem[f]
       => f = reservation[h]]_vars

(* RVWMO's atomicity axiom, to which the README says the simulator         *)
(* conforms: a store-conditional fails if another hart has stored to the   *)
(* reserved location since the load-reserved.                              *)
ScAtomic ==
  [][\A h \in Harts :
       /\ reservation[h] # NoFrame /\ reservation'[h] = NoFrame
       /\ intruded[h]
       => mem' = mem]_vars

(* debug_defines.h on dmcontrol.ndmreset: it resets "every part of the     *)
(* hardware platform, including every hart", so a hart in M mode, where    *)
(* addresses are physical, executes no instruction that an earlier         *)
(* translation fetched from elsewhere.                                     *)
MachineModeIsBare ==
  \A h \in Harts, p \in Pages :
    prv[h] = "M" /\ IcacheHit(h, p) => icacheFrame[h][IcacheIndex(p)] = p
=============================================================================
