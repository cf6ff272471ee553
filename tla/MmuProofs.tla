----------------------------- MODULE MmuProofs -----------------------------
(***************************************************************************)
(* Theorems about the memory management units: what the TLB and the        *)
(* instruction cache of a hart serve without a check is what a check would *)
(* have found, for any number of harts, pages, frames and cache entries,   *)
(* and any page table entries.                                             *)
(***************************************************************************)
EXTENDS Mmu, TLAPS

LEMMA IndexType == ASSUME NEW p \in Pages PROVE Index(p) \in Entries
  BY SizesAssumption DEF Index, Pages, Entries

LEMMA LineType == ASSUME NEW p \in Pages PROVE IcacheIndex(p) \in Lines
  BY SizesAssumption DEF IcacheIndex, Pages, Lines

LEMMA ConstantsTyped ==
  /\ 0 \in Harts /\ 0 \in Frames
  /\ Invalid \in Ptes
  /\ \A e \in Ptes : e.frame \in Frames
  BY SizesAssumption, TableAssumption DEF Harts, Frames, PteType

LEMMA LookupType ==
  ASSUME TypeOK, NEW h \in Harts, NEW t \in Types, NEW p \in Pages,
         NEW f \in Lookup(h, t, p)
  PROVE  f \in Frames
  <1>1. CASE Hit(h, t, p)
    BY <1>1, IndexType DEF TypeOK, Lookup
  <1>2. CASE ~Hit(h, t, p)
    BY <1>2 DEF Lookup, Translate, Walk
  <1>3. QED  BY <1>1, <1>2

LEMMA RefillType ==
  ASSUME TypeOK, NEW h \in Harts, NEW t \in Types, NEW p \in Pages,
         NEW f \in Frames, Refill(h, t, p, f)
  PROVE  /\ tlbTag' \in [Harts -> [Types -> [Entries -> Pages \cup {NoPage}]]]
         /\ tlbData' \in [Harts -> [Entries -> Frames]]
  <1>1. CASE UNCHANGED tlbVars
    BY <1>1 DEF TypeOK, tlbVars
  <1>2. CASE /\ tlbTag' = [tlbTag EXCEPT ![h] = TagsAfterRefill(h, t, p)]
             /\ tlbData' = [tlbData EXCEPT ![h][Index(p)] = f]
    <2>1. TagsAfterRefill(h, t, p) \in [Types -> [Entries -> Pages \cup {NoPage}]]
      <3>1. ASSUME NEW u \in Types, NEW q \in Pages \cup {NoPage}
            PROVE  [tlbTag[h][u] EXCEPT ![Index(p)] = q]
                     \in [Entries -> Pages \cup {NoPage}]
        <4>1. tlbTag[h][u] \in [Entries -> Pages \cup {NoPage}]  BY DEF TypeOK
        <4>2. QED  BY <4>1
      <3>2. QED  BY <3>1 DEF TagsAfterRefill
    <2>2. QED  BY <1>2, <2>1 DEF TypeOK
  <1>3. QED  BY <1>1, <1>2 DEF Refill

LEMMA FlushIcacheType ==
  ASSUME TypeOK, NEW h \in Harts, FlushIcache(h)
  PROVE  /\ icacheTag' \in [Harts -> [Lines -> Pages \cup {NoPage}]]
         /\ icacheFrame' \in [Harts -> [Lines -> Frames]]
  BY DEF TypeOK, FlushIcache

LEMMA FlushType ==
  ASSUME TypeOK, NEW h \in Harts, FlushTlb(h)
  PROVE  /\ tlbTag' \in [Harts -> [Types -> [Entries -> Pages \cup {NoPage}]]]
         /\ tlbData' \in [Harts -> [Entries -> Frames]]
         /\ icacheTag' \in [Harts -> [Lines -> Pages \cup {NoPage}]]
         /\ icacheFrame' \in [Harts -> [Lines -> Frames]]
         /\ present' \in [Harts -> [Spaces -> [Pages -> SUBSET Ptes]]]
  BY FlushIcacheType DEF TypeOK, FlushTlb

LEMMA KeepTlbType ==
  ASSUME TypeOK, KeepTlb
  PROVE  /\ tlbTag' \in [Harts -> [Types -> [Entries -> Pages \cup {NoPage}]]]
         /\ tlbData' \in [Harts -> [Entries -> Frames]]
         /\ icacheTag' \in [Harts -> [Lines -> Pages \cup {NoPage}]]
         /\ icacheFrame' \in [Harts -> [Lines -> Frames]]
         /\ present' \in [Harts -> [Spaces -> [Pages -> SUBSET Ptes]]]
  BY DEF TypeOK, KeepTlb, tlbVars, icacheVars

LEMMA WriteType ==
  ASSUME TypeOK, NEW h \in Harts, NEW f \in Frames, NEW x \in Values, Write(h, f, x)
  PROVE  mem' \in [Frames -> Values] /\ intruded' \in [Harts -> BOOLEAN]
  BY DEF TypeOK, Write

(* Accesses to memory keep the types.                                      *)
LEMMA AccessType ==
  ASSUME TypeOK, NEW h \in Harts, NEW p \in Pages,
         \/ Load(h, p) \/ SlowFetch(h, p) \/ Fetch(h, p) \/ LoadReserved(h, p)
         \/ \E x \in Values : Store(h, p, x) \/ StoreConditional(h, p, x)
  PROVE  TypeOK'
  <1>1. ASSUME NEW t \in {"LOAD", "FETCH"}, Read(h, t, p), UNCHANGED icacheVars
        PROVE  TypeOK'
    <2>1. t \in Types  BY DEF Types
    <2>2. PICK f \in Lookup(h, t, p) : Refill(h, t, p, f)  BY <1>1 DEF Read
    <2>3. f \in Frames  BY <2>1, LookupType
    <2>4. QED  BY <1>1, <2>1, <2>2, <2>3, RefillType
           DEF Read, TypeOK, modeVars, icacheVars
  <1>2. CASE LoadReserved(h, p)
    BY <1>2
       DEF LoadReserved, Translate, Walk, TypeOK, modeVars, tlbVars, icacheVars
  <1>3. ASSUME NEW x \in Values, Store(h, p, x) PROVE TypeOK'
    <2>1. "STORE" \in Types  BY DEF Types
    <2>2. PICK f \in Lookup(h, "STORE", p) : Write(h, f, x) /\ Refill(h, "STORE", p, f)
      BY <1>3 DEF Store
    <2>3. f \in Frames  BY <2>1, LookupType
    <2>4. QED
      BY <1>3, <2>1, <2>2, <2>3, RefillType, WriteType
         DEF Store, TypeOK, modeVars, icacheVars
  <1>4. ASSUME NEW x \in Values, StoreConditional(h, p, x) PROVE TypeOK'
    <2>1. /\ mem' \in [Frames -> Values] /\ intruded' \in [Harts -> BOOLEAN]
          /\ tlbTag' \in [Harts -> [Types -> [Entries -> Pages \cup {NoPage}]]]
          /\ tlbData' \in [Harts -> [Entries -> Frames]]
      <3>1. CASE UNCHANGED <<mem, intruded, tlbVars>>
        BY <3>1 DEF TypeOK, tlbVars
      <3>2. CASE \E g \in Lookup(h, "STORE", p) :
                   Write(h, g, x) /\ Refill(h, "STORE", p, g)
        <4>1. "STORE" \in Types  BY DEF Types
        <4>2. PICK g \in Lookup(h, "STORE", p) :
                Write(h, g, x) /\ Refill(h, "STORE", p, g)
          BY <3>2
        <4>3. g \in Frames  BY <4>1, LookupType
        <4>4. QED  BY <4>1, <4>2, <4>3, RefillType, WriteType
      <3>3. QED  BY <1>4, <3>1, <3>2 DEF StoreConditional
    <2>2. reservation' \in [Harts -> Frames \cup {NoFrame}]
      BY <1>4 DEF StoreConditional, TypeOK
    <2>3. QED
      BY <1>4, <2>1, <2>2 DEF StoreConditional, TypeOK, modeVars, icacheVars
  <1>5. CASE Fetch(h, p)
    <2>1. "FETCH" \in Types  BY DEF Types
    <2>2. PICK f \in Lookup(h, "FETCH", p) :
            /\ Refill(h, "FETCH", p, f)
            /\ icacheFrame' = [icacheFrame EXCEPT ![h][IcacheIndex(p)] = f]
      BY <1>5 DEF Fetch
    <2>3. f \in Frames  BY <2>1, LookupType
    <2>4. icacheFrame' \in [Harts -> [Lines -> Frames]]
      BY <2>2, <2>3 DEF TypeOK
    <2>5. icacheTag' \in [Harts -> [Lines -> Pages \cup {NoPage}]]
      BY <1>5 DEF Fetch, TypeOK
    <2>6. QED
      BY <1>5, <2>1, <2>2, <2>3, <2>4, <2>5, RefillType DEF Fetch, TypeOK, modeVars
  <1>6. QED  BY <1>1, <1>2, <1>3, <1>4, <1>5 DEF Load, SlowFetch

(* So does everything else an instruction or a trap does.                  *)
LEMMA ControlType ==
  ASSUME TypeOK, NEW h \in Harts, Instruction(h),
         ~(\E p \in Pages : \/ Load(h, p) \/ SlowFetch(h, p) \/ Fetch(h, p)
                            \/ LoadReserved(h, p)),
         ~(\E p \in Pages, x \in Values : Store(h, p, x) \/ StoreConditional(h, p, x))
  PROVE  TypeOK'
  <1>1. ASSUME NEW s \in Spaces, NEW p \in Pages, NEW e \in Ptes, StorePte(s, p, e)
        PROVE  TypeOK'
    BY <1>1 DEF StorePte, TypeOK, modeVars, tlbVars, icacheVars
  <1>2. CASE SfenceVma(h)
    BY <1>2, FlushType DEF SfenceVma, TypeOK, modeVars
  <1>3. ASSUME NEW s \in Spaces \cup {OFF}, WriteSatp(h, s) PROVE TypeOK'
    BY <1>3, FlushType, KeepTlbType DEF WriteSatp, TypeOK
  <1>4. ASSUME NEW b \in BOOLEAN, NEW m \in Privileges, WriteMstatus(h, b, m)
        PROVE  TypeOK'
    BY <1>4, FlushType, KeepTlbType DEF WriteMstatus, TypeOK
  <1>6. ASSUME NEW to \in Privileges, TakeTrap(h, to) PROVE TypeOK'
    BY <1>6, FlushType DEF TakeTrap, TypeOK
  <1>7. CASE Mret(h)
    BY <1>7, FlushType DEF Mret, TypeOK, Privileges
  <1>8. CASE Sret(h)
    BY <1>8, FlushType DEF Sret, TypeOK, Privileges
  <1>9. CASE FenceI(h)
    BY <1>9, FlushIcacheType DEF FenceI, TypeOK, modeVars, tlbVars
  <1>10. QED
    BY <1>1, <1>2, <1>3, <1>4, <1>6, <1>7, <1>8, <1>9 DEF Instruction

(* Every variable keeps its type.                                          *)
THEOREM MmuTypeCorrect == Spec => []TypeOK
  <1>1. Init => TypeOK
    BY ConstantsTyped DEF Init, TypeOK, Privileges
  <1>2. TypeOK /\ [Next]_vars => TypeOK'
    <2>1. SUFFICES ASSUME TypeOK, [Next]_vars PROVE TypeOK'  OBVIOUS
    <2>2. ASSUME NEW h \in Harts, Instruction(h) PROVE TypeOK'
      BY <2>1, <2>2, AccessType, ControlType
    <2>3. ASSUME NEW h \in Harts, Reset(h) PROVE TypeOK'
      BY <2>1, <2>3 DEF Reset, TypeOK, Privileges, tlbVars, icacheVars
    <2>4. CASE EndQuantum
      BY <2>1, <2>4, SizesAssumption
         DEF EndQuantum, NextTurn, TypeOK, Harts, modeVars, tlbVars, icacheVars
    <2>5. CASE UNCHANGED vars
      BY <2>1, <2>5 DEF vars, TypeOK, modeVars, tlbVars, icacheVars
    <2>6. QED  BY <2>1, <2>2, <2>3, <2>4, <2>5 DEF Next
  <1>3. QED  BY <1>1, <1>2, PTL DEF Spec

(***************************************************************************)
(* What the TLB serves without a check.                                    *)
(***************************************************************************)

(* While loads and stores are made in another mode than fetches, the TLB   *)
(* is empty.                                                               *)
NoHitsUnderMprv ==
  \A h \in Harts, t \in Types, p \in Pages : mprv[h] => ~Hit(h, t, p)

(* The page tables as they are, are among those a hart may still use; and  *)
(* of those of one page, only one is valid, if software goes by the book.  *)
PresentIncludesTable ==
  \A h \in Harts, s \in Spaces, p \in Pages : pte[s][p] \in present[h][s][p]
OneValidPresent ==
  \A h \in Harts, s \in Spaces, p \in Pages :
    \A d, e \in present[h][s][p] : Valid(d) /\ Valid(e) => d = e

TlbInv ==
  HitsEntitled /\ NoHitsUnderMprv /\ PresentIncludesTable /\ OneValidPresent

(* What a hit of hart h is entitled to, as a formula of one hart.          *)
HitEntitled(h, t, p) ==
  Hit(h, t, p) =>
    /\ Entitled(h, t, p, tlbData[h][Index(p)])
    /\ PmpOk(h, t)

LEMMA HitsEntitledByHart ==
  HitsEntitled <=> \A h \in Harts, t \in Types, p \in Pages : HitEntitled(h, t, p)
  BY DEF HitsEntitled, HitEntitled

(* A flush leaves no hit, and makes the present tables the actual ones.    *)
LEMMA FlushEmpties ==
  ASSUME TypeOK, TlbInv, NEW h \in Harts, FlushTlb(h), pte' = pte
  PROVE  /\ \A t \in Types, p \in Pages : ~Hit(h, t, p)'
         /\ \A s \in Spaces, p \in Pages : present'[h][s][p] = {pte'[s][p]}
         /\ \A g \in Harts : g # h => /\ tlbTag'[g] = tlbTag[g]
                                      /\ tlbData'[g] = tlbData[g]
                                      /\ present'[g] = present[g]
  <1>1. \A p \in Pages : Index(p) \in Entries  BY IndexType
  <1>2. \A p \in Pages : p # NoPage  BY DEF Pages, NoPage
  <1>3. \A t \in Types, p \in Pages : ~Hit(h, t, p)'
    BY <1>1, <1>2 DEF FlushTlb, Hit, TypeOK
  <1>4. QED  BY <1>3 DEF FlushTlb, TypeOK

(* A step that flushes the TLB of hart h may do what it likes to the modes *)
(* of h, but not to those of another hart nor to the page tables.          *)
LEMMA FlushingKeepsInv ==
  ASSUME TypeOK, TlbInv, NEW h \in Harts, FlushTlb(h), pte' = pte,
         \A g \in Harts : g # h =>
           UNCHANGED <<prv[g], mprv[g], mpp[g], satp[g]>>
  PROVE  TlbInv'
  <1>1. /\ \A t \in Types, p \in Pages : ~Hit(h, t, p)'
        /\ \A s \in Spaces, p \in Pages : present'[h][s][p] = {pte'[s][p]}
        /\ \A g \in Harts : g # h => /\ tlbTag'[g] = tlbTag[g]
                                     /\ tlbData'[g] = tlbData[g]
                                     /\ present'[g] = present[g]
    BY FlushEmpties
  <1>2. HitsEntitled'
    <2>1. SUFFICES ASSUME NEW g \in Harts, g # h, NEW t \in Types, NEW p \in Pages
                   PROVE  HitEntitled(g, t, p)'
      BY <1>1 DEF HitsEntitled, HitEntitled
    <2>2. HitEntitled(g, t, p)  BY HitsEntitledByHart DEF TlbInv
    <2>3. QED  BY <1>1, <2>1, <2>2 DEF HitEntitled, Hit, Entitled, PmpOk, Bare, Mode
  <1>3. NoHitsUnderMprv'
    BY <1>1 DEF TlbInv, NoHitsUnderMprv, Hit
  <1>4. PresentIncludesTable' /\ OneValidPresent'
    BY <1>1 DEF TlbInv, PresentIncludesTable, OneValidPresent
  <1>5. QED  BY <1>2, <1>3, <1>4 DEF TlbInv

(* The case of Refill that changes the TLB.                                *)
Fills(h, t, p, f) ==
  /\ tlbTag' = [tlbTag EXCEPT ![h] = TagsAfterRefill(h, t, p)]
  /\ tlbData' = [tlbData EXCEPT ![h][Index(p)] = f]

(* An access of type t that missed and found page p in frame f leaves hits *)
(* for page p at its index only, with frame f, and for types that hit      *)
(* before or t itself.                                                     *)
LEMMA RefillHits ==
  ASSUME TypeOK, ~DISABLE_PGSIZE_CHECK, NEW h \in Harts, NEW t \in Types,
         NEW p \in Pages, NEW f \in Frames, Fills(h, t, p, f),
         NEW u \in Types, NEW q \in Pages, tlbTag'[h][u][Index(q)] = q
  PROVE  /\ Index(q) = Index(p) =>
              /\ q = p
              /\ tlbData'[h][Index(q)] = f
              /\ u = t \/ Hit(h, u, p)
         /\ Index(q) # Index(p) =>
              /\ tlbData'[h][Index(q)] = tlbData[h][Index(q)]
              /\ Hit(h, u, q)
  <1>1. Index(p) \in Entries /\ Index(q) \in Entries  BY IndexType
  <1>2. q # NoPage  BY DEF Pages, NoPage
  <1>3. tlbTag'[h][u] = [tlbTag[h][u] EXCEPT ![Index(p)] =
                           IF u = t \/ @ = p THEN p ELSE NoPage]
    BY DEF TypeOK, Fills, TagsAfterRefill
  <1>4. tlbTag[h][u] \in [Entries -> Pages \cup {NoPage}]  BY DEF TypeOK
  <1>5. /\ tlbData'[h][Index(p)] = f
        /\ Index(q) # Index(p) => tlbData'[h][Index(q)] = tlbData[h][Index(q)]
    BY <1>1 DEF Fills, TypeOK
  <1>6. QED  BY <1>1, <1>2, <1>3, <1>4, <1>5 DEF Hit

(* A walk finds what its hart is entitled to use.                          *)
LEMMA TranslateEntitled ==
  ASSUME TypeOK, PresentIncludesTable, NEW h \in Harts, NEW t \in Types, NEW p \in Pages,
         NEW f \in Translate(h, t, p)
  PROVE  /\ f \in Frames
         /\ Entitled(h, t, p, f)
         /\ PmpOk(h, t)
         /\ ~Bare(h, t) => f = pte[satp[h]][p].frame /\ t \in pte[satp[h]][p].perms
  <1>1. f \in Frames /\ f \in Walk(h, t, p) /\ PmpOk(h, t)
    <2>1. f \in Walk(h, t, p) /\ PmpOk(h, t)  BY DEF Translate
    <2>2. QED  BY <2>1 DEF Walk
  <1>2. CASE Bare(h, t)
    BY <1>1, <1>2 DEF Walk, Entitled, PmpOk
  <1>3. CASE ~Bare(h, t)
    <2>1. satp[h] \in Spaces  BY <1>3 DEF Bare, TypeOK
    <2>2. pte[satp[h]][p] \in present[h][satp[h]][p]
      BY <2>1 DEF PresentIncludesTable
    <2>3. QED  BY <1>1, <1>3, <2>2 DEF Walk, Entitled, PmpOk
  <1>4. QED  BY <1>2, <1>3

(* If a type of access hits page p, and a walk for another type finds p in *)
(* frame f, then f is where the hit goes as well.                          *)
LEMMA TypesAgree ==
  ASSUME TypeOK, TlbInv, NEW h \in Harts, ~mprv[h], NEW t \in Types, NEW u \in Types,
         NEW p \in Pages, NEW f \in Translate(h, t, p), Hit(h, u, p)
  PROVE  tlbData[h][Index(p)] = f
  <1>1. HitEntitled(h, u, p)  BY HitsEntitledByHart DEF TlbInv
  <1>2. Entitled(h, u, p, tlbData[h][Index(p)])  BY <1>1 DEF HitEntitled
  <1>3. Bare(h, u) = Bare(h, t)  BY DEF Bare, Mode
  <1>4. CASE Bare(h, t)
    BY <1>2, <1>3, <1>4, TranslateEntitled DEF Entitled, TlbInv
  <1>5. CASE ~Bare(h, t)
    <2>1. satp[h] \in Spaces  BY <1>5 DEF Bare, TypeOK
    <2>2. PICK e \in present[h][satp[h]][p] :
            u \in e.perms /\ tlbData[h][Index(p)] = e.frame
      BY <1>2, <1>3, <1>5 DEF Entitled
    <2>3. /\ pte[satp[h]][p] \in present[h][satp[h]][p]
          /\ f = pte[satp[h]][p].frame /\ t \in pte[satp[h]][p].perms
      BY <1>5, <2>1, TranslateEntitled DEF TlbInv, PresentIncludesTable
    <2>4. Valid(e) /\ Valid(pte[satp[h]][p])
      BY <2>2, <2>3 DEF Valid, Invalid
    <2>5. e = pte[satp[h]][p]
      BY <2>1, <2>2, <2>3, <2>4 DEF TlbInv, OneValidPresent
    <2>6. QED  BY <2>2, <2>3, <2>5
  <1>6. QED  BY <1>4, <1>5

(* A step that only refills the TLB of hart h keeps the invariant.         *)
LEMMA RefillKeepsInv ==
  ASSUME TypeOK, TlbInv, NEW h \in Harts, NEW t \in Types, NEW p \in Pages,
         NEW f \in Lookup(h, t, p), Refill(h, t, p, f),
         UNCHANGED <<pte, modeVars, present>>
  PROVE  TlbInv'
  <1>1. CASE UNCHANGED tlbVars
    BY <1>1 DEF TlbInv, HitsEntitled, NoHitsUnderMprv, PresentIncludesTable,
                OneValidPresent, Hit, Entitled, PmpOk, Bare, Mode, modeVars, tlbVars
  <1>2. CASE ~UNCHANGED tlbVars
    <2>1. /\ ~mprv[h] /\ ~DISABLE_PGSIZE_CHECK
          /\ f \in Translate(h, t, p) /\ Fills(h, t, p, f)
      BY <1>2 DEF Refill, Lookup, Fills
    <2>2. /\ f \in Frames /\ Entitled(h, t, p, f)
          /\ PmpOk(h, t)
      BY <2>1, TranslateEntitled DEF TlbInv
    <2>3. ASSUME NEW u \in Types, NEW q \in Pages PROVE HitEntitled(h, u, q)'
      <3>1. SUFFICES ASSUME tlbTag'[h][u][Index(q)] = q
                     PROVE  /\ Entitled(h, u, q, tlbData'[h][Index(q)])
                            /\ PmpOk(h, u)
        BY DEF HitEntitled, Hit, Entitled, PmpOk, Bare, Mode, modeVars
      <3>2. Hit(h, u, q) => /\ Entitled(h, u, q, tlbData[h][Index(q)])
                            /\ PmpOk(h, u)
        BY HitsEntitledByHart DEF TlbInv, HitEntitled
      <3>3. /\ Index(q) = Index(p) =>
                 /\ q = p
                 /\ tlbData'[h][Index(q)] = f
                 /\ u = t \/ Hit(h, u, p)
            /\ Index(q) # Index(p) =>
                 /\ tlbData'[h][Index(q)] = tlbData[h][Index(q)]
                 /\ Hit(h, u, q)
        BY <2>1, <2>2, <3>1, RefillHits
      <3>4. CASE Index(q) = Index(p)
        <4>1. /\ q = p /\ tlbData'[h][Index(q)] = f
              /\ u = t \/ Hit(h, u, p)
          BY <3>3, <3>4
        <4>2. CASE Hit(h, u, p)
          <5>1. tlbData[h][Index(p)] = f  BY <2>1, <4>2, TypesAgree
          <5>2. QED  BY <3>2, <4>1, <4>2, <5>1
        <4>3. CASE u = t
          BY <2>2, <4>1, <4>3
        <4>4. QED  BY <4>1, <4>2, <4>3
      <3>5. QED  BY <3>2, <3>3, <3>4
    <2>4. ASSUME NEW g \in Harts, g # h, NEW u \in Types, NEW q \in Pages
          PROVE  HitEntitled(g, u, q)'
      <3>1. tlbTag'[g] = tlbTag[g] /\ tlbData'[g] = tlbData[g]
        BY <2>1, <2>4 DEF Fills, TypeOK
      <3>2. HitEntitled(g, u, q)  BY HitsEntitledByHart DEF TlbInv
      <3>3. QED  BY <3>1, <3>2 DEF HitEntitled, Hit, Entitled, PmpOk, Bare, Mode, modeVars
    <2>5. HitsEntitled'
      BY <2>3, <2>4 DEF HitsEntitled, HitEntitled
    <2>6. NoHitsUnderMprv'
      <3>1. \A g \in Harts : g # h => tlbTag'[g] = tlbTag[g]
        BY <2>1 DEF Fills, TypeOK
      <3>2. QED  BY <2>1, <3>1 DEF TlbInv, NoHitsUnderMprv, Hit, modeVars
    <2>7. PresentIncludesTable' /\ OneValidPresent'
      BY DEF TlbInv, PresentIncludesTable, OneValidPresent
    <2>8. QED  BY <2>5, <2>6, <2>7 DEF TlbInv
  <1>3. QED  BY <1>1, <1>2

(* A step that neither touches the TLB nor what it depends on.             *)
LEMMA KeepingTlbKeepsInv ==
  ASSUME TlbInv, UNCHANGED <<pte, modeVars, tlbVars, present>>
  PROVE  TlbInv'
  BY DEF TlbInv, HitsEntitled, NoHitsUnderMprv, PresentIncludesTable,
         OneValidPresent, Hit, Entitled, PmpOk, Bare, Mode, modeVars, tlbVars

(* A new page table entry does not take away from what harts may use; if   *)
(* it is valid, no hart has another that it may use.                       *)
LEMMA StorePteKeepsInv ==
  ASSUME TypeOK, TlbInv, BreakBeforeMake, NEW s \in Spaces, NEW p \in Pages,
         NEW e \in Ptes, StorePte(s, p, e)
  PROVE  TlbInv'
  <1>1. \A h \in Harts, z \in Spaces, q \in Pages :
          present'[h][z][q] = IF z = s /\ q = p THEN present[h][z][q] \cup {e}
                              ELSE present[h][z][q]
    <2>1. SUFFICES ASSUME NEW h \in Harts, NEW z \in Spaces, NEW q \in Pages
                   PROVE  present'[h][z][q] =
                            IF z = s /\ q = p THEN present[h][z][q] \cup {e}
                            ELSE present[h][z][q]
      OBVIOUS
    <2>2. present[h] \in [Spaces -> [Pages -> SUBSET Ptes]]
      BY DEF TypeOK
    <2>3. present'[h] = [present[h] EXCEPT ![s][p] = @ \cup {e}]
      BY DEF StorePte
    <2>4. present'[h][z] = IF z = s THEN [present[h][s] EXCEPT ![p] = @ \cup {e}]
                           ELSE present[h][z]
      BY <2>2, <2>3
    <2>5. present[h][s] \in [Pages -> SUBSET Ptes]
      BY <2>2
    <2>6. QED  BY <2>4, <2>5
  <1>2. UNCHANGED <<prv, mprv, mpp, satp, tlbTag, tlbData>>
    BY DEF StorePte, modeVars, tlbVars
  <1>3. HitsEntitled'
    <2>1. SUFFICES ASSUME NEW h \in Harts, NEW t \in Types, NEW q \in Pages
                   PROVE  HitEntitled(h, t, q)'
      BY DEF HitsEntitled, HitEntitled
    <2>2. HitEntitled(h, t, q)  BY HitsEntitledByHart DEF TlbInv
    <2>3. CASE Bare(h, t)
      BY <1>2, <2>2, <2>3 DEF HitEntitled, Hit, Entitled, PmpOk, Bare, Mode
    <2>4. CASE ~Bare(h, t)
      <3>1. satp[h] \in Spaces  BY <2>4 DEF Bare, TypeOK
      <3>2. present[h][satp[h]][q] \subseteq present'[h][satp[h]][q]
        BY <1>1, <3>1
      <3>3. QED  BY <1>2, <2>2, <2>4, <3>2 DEF HitEntitled, Hit, Entitled, PmpOk, Bare, Mode
    <2>5. QED  BY <2>3, <2>4
  <1>4. NoHitsUnderMprv'
    BY <1>2 DEF TlbInv, NoHitsUnderMprv, Hit
  <1>5. PresentIncludesTable'
    BY <1>1 DEF TlbInv, PresentIncludesTable, StorePte, TypeOK
  <1>6. OneValidPresent'
    <2>1. Valid(e) => \A g \in Harts : present[g][s][p] = {Invalid}
      BY DEF StorePte, ByTheBook
    <2>2. SUFFICES ASSUME NEW h \in Harts, NEW z \in Spaces, NEW q \in Pages,
                          NEW d \in present'[h][z][q], NEW d2 \in present'[h][z][q],
                          Valid(d), Valid(d2)
                   PROVE  d = d2
      BY DEF OneValidPresent, Valid
    <2>3. CASE z = s /\ q = p
      <3>1. present'[h][z][q] = present[h][s][p] \cup {e}  BY <1>1, <2>3
      <3>2. CASE Valid(e)
        BY <2>1, <2>2, <3>1, <3>2 DEF Valid
      <3>3. CASE ~Valid(e)
        <4>1. d \in present[h][s][p] /\ d2 \in present[h][s][p]
          BY <2>2, <3>1, <3>3
        <4>2. QED  BY <4>1, <2>2 DEF TlbInv, OneValidPresent, Valid
      <3>4. QED  BY <3>2, <3>3
    <2>4. CASE ~(z = s /\ q = p)
      <3>1. present'[h][z][q] = present[h][z][q]  BY <1>1, <2>4
      <3>2. QED  BY <3>1, <2>2 DEF TlbInv, OneValidPresent, Valid
    <2>5. QED  BY <2>3, <2>4
  <1>7. QED  BY <1>3, <1>4, <1>5, <1>6 DEF TlbInv

LEMMA InstructionKeepsInv ==
  ASSUME TypeOK, TlbInv, BreakBeforeMake, NEW h \in Harts, Instruction(h)
  PROVE  TlbInv'
  <1>1. ASSUME NEW t \in Types, NEW p \in Pages, Read(h, t, p) PROVE TlbInv'
    BY <1>1, RefillKeepsInv DEF Read
  <1>2. ASSUME NEW p \in Pages, NEW x \in Values, Store(h, p, x) PROVE TlbInv'
    <2>1. "STORE" \in Types  BY DEF Types
    <2>2. QED  BY <1>2, <2>1, RefillKeepsInv DEF Store
  <1>3. ASSUME NEW p \in Pages, LoadReserved(h, p) PROVE TlbInv'
    BY <1>3, KeepingTlbKeepsInv DEF LoadReserved
  <1>4. ASSUME NEW p \in Pages, NEW x \in Values, StoreConditional(h, p, x)
        PROVE  TlbInv'
    <2>1. UNCHANGED <<pte, modeVars, present>>  BY <1>4 DEF StoreConditional
    <2>2. CASE UNCHANGED tlbVars  BY <2>1, <2>2, KeepingTlbKeepsInv
    <2>3. CASE \E g \in Lookup(h, "STORE", p) : Refill(h, "STORE", p, g)
      <3>1. "STORE" \in Types  BY DEF Types
      <3>2. QED  BY <2>1, <2>3, <3>1, RefillKeepsInv
    <2>4. QED  BY <1>4, <2>2, <2>3 DEF StoreConditional
  <1>5. ASSUME NEW s \in Spaces, NEW p \in Pages, NEW e \in Ptes, StorePte(s, p, e)
        PROVE  TlbInv'
    BY <1>5, StorePteKeepsInv
  <1>6. CASE SfenceVma(h)
    BY <1>6, FlushingKeepsInv DEF SfenceVma, modeVars
  <1>7. ASSUME NEW s \in Spaces \cup {OFF}, WriteSatp(h, s) PROVE TlbInv'
    <2>1. CASE s # satp[h]
      BY <1>7, <2>1, FlushingKeepsInv DEF WriteSatp, TypeOK
    <2>2. CASE s = satp[h]
      <3>1. UNCHANGED <<pte, modeVars, tlbVars, present>>
        BY <1>7, <2>2 DEF WriteSatp, KeepTlb, TypeOK, modeVars
      <3>2. QED  BY <3>1, KeepingTlbKeepsInv
    <2>3. QED  BY <2>1, <2>2
  <1>8. ASSUME NEW b \in BOOLEAN, NEW m \in Privileges, WriteMstatus(h, b, m)
        PROVE  TlbInv'
    <2>1. CASE MstatusFlushes(h, b, m)
      BY <1>8, <2>1, FlushingKeepsInv DEF WriteMstatus, TypeOK
    <2>2. CASE ~MstatusFlushes(h, b, m)
      <3>1. UNCHANGED <<pte, modeVars, tlbVars, present>>
        BY <1>8, <2>2 DEF WriteMstatus, MstatusFlushes, KeepTlb, TypeOK, modeVars
      <3>2. QED  BY <3>1, KeepingTlbKeepsInv
    <2>3. QED  BY <2>1, <2>2
  <1>10. ASSUME NEW to \in Privileges, TakeTrap(h, to) PROVE TlbInv'
    BY <1>10, FlushingKeepsInv DEF TakeTrap, TypeOK
  <1>11. CASE Mret(h)
    BY <1>11, FlushingKeepsInv DEF Mret, TypeOK
  <1>12. CASE Sret(h)
    BY <1>12, FlushingKeepsInv DEF Sret, TypeOK
  <1>13. "LOAD" \in Types /\ "FETCH" \in Types  BY DEF Types
  <1>14. ASSUME NEW p \in Pages, Fetch(h, p) PROVE TlbInv'
    BY <1>13, <1>14, RefillKeepsInv DEF Fetch
  <1>15. CASE FenceI(h)
    BY <1>15, KeepingTlbKeepsInv DEF FenceI
  <1>16. QED
    BY <1>1, <1>2, <1>3, <1>4, <1>5, <1>6, <1>7, <1>8, <1>10, <1>11, <1>12,
       <1>13, <1>14, <1>15 DEF Instruction, Load, SlowFetch

(* A hart that is reset in M mode loses nothing it needed the flush for:   *)
(* it was untranslated before as it is afterwards.                         *)
LEMMA ResetKeepsInv ==
  ASSUME TypeOK, TlbInv, ~ResetsAnywhere, NEW h \in Harts, Reset(h)
  PROVE  TlbInv'
  <1>1. /\ prv[h] = "M"
        /\ UNCHANGED <<pte, tlbTag, tlbData, present>>
        /\ prv'[h] = "M" /\ mprv'[h] = FALSE
        /\ \A g \in Harts : g # h =>
             UNCHANGED <<prv[g], mprv[g], mpp[g], satp[g]>>
    BY DEF Reset, TypeOK, tlbVars
  <1>2. HitsEntitled'
    <2>1. SUFFICES ASSUME NEW g \in Harts, NEW t \in Types, NEW p \in Pages
                   PROVE  HitEntitled(g, t, p)'
      BY DEF HitsEntitled, HitEntitled
    <2>2. HitEntitled(g, t, p)  BY HitsEntitledByHart DEF TlbInv
    <2>3. CASE g = h
      <3>1. mprv[h] => ~Hit(h, t, p)  BY DEF TlbInv, NoHitsUnderMprv
      <3>2. QED  BY <1>1, <2>2, <2>3, <3>1 DEF HitEntitled, Hit, Entitled, PmpOk, Bare, Mode
    <2>4. CASE g # h
      BY <1>1, <2>2, <2>4 DEF HitEntitled, Hit, Entitled, PmpOk, Bare, Mode
    <2>5. QED  BY <2>3, <2>4
  <1>3. NoHitsUnderMprv'
    BY <1>1 DEF TlbInv, NoHitsUnderMprv, Hit
  <1>4. PresentIncludesTable' /\ OneValidPresent'
    BY <1>1 DEF TlbInv, PresentIncludesTable, OneValidPresent
  <1>5. QED  BY <1>2, <1>3, <1>4 DEF TlbInv

(* The TLB is sound if software breaks before it makes.                    *)
LEMMA TlbInvByTheBook ==
  ASSUME BreakBeforeMake, ~ResetsAnywhere
  PROVE  Spec => []TlbInv
  <1>1. Init => TlbInv
    <2>1. SUFFICES ASSUME Init PROVE TlbInv  OBVIOUS
    <2>2. \A h \in Harts, t \in Types, p \in Pages : ~Hit(h, t, p)
      <3>1. \A p \in Pages : p # NoPage  BY DEF Pages, NoPage
      <3>2. QED  BY <2>1, <3>1, IndexType DEF Init, Hit
    <2>3. \A h \in Harts, s \in Spaces, p \in Pages :
            present[h][s][p] = {Invalid} /\ pte[s][p] = Invalid
      BY <2>1 DEF Init
    <2>4. QED  BY <2>2, <2>3 DEF TlbInv, HitsEntitled, NoHitsUnderMprv,
                                 PresentIncludesTable, OneValidPresent
  <1>2. TypeOK /\ TlbInv /\ [Next]_vars => TlbInv'
    <2>1. SUFFICES ASSUME TypeOK, TlbInv, [Next]_vars PROVE TlbInv'  OBVIOUS
    <2>2. ASSUME NEW h \in Harts, Instruction(h) PROVE TlbInv'
      BY <2>1, <2>2, InstructionKeepsInv
    <2>3. ASSUME NEW h \in Harts, Reset(h) PROVE TlbInv'
      BY <2>1, <2>3, ResetKeepsInv
    <2>4. CASE EndQuantum
      BY <2>1, <2>4, KeepingTlbKeepsInv DEF EndQuantum
    <2>5. CASE UNCHANGED vars
      BY <2>1, <2>5, KeepingTlbKeepsInv DEF vars
    <2>6. QED  BY <2>1, <2>2, <2>3, <2>4, <2>5 DEF Next
  <1>3. QED  BY <1>1, <1>2, MmuTypeCorrect, PTL DEF Spec

(* If harts are reset in M mode only, and if software breaks before it     *)
(* makes or the TLB is disabled as in the build of the repository, every   *)
(* hit of every TLB is one that a walk would have found: the flushes of    *)
(* privilege changes, of satp and mstatus writes, and the refill that      *)
(* drops other pages' tags, are all that is needed.                        *)
THEOREM TlbSound ==
  ASSUME BreakBeforeMake \/ DISABLE_PGSIZE_CHECK, ~ResetsAnywhere
  PROVE  Spec => []HitsEntitled
  <1>1. CASE BreakBeforeMake
    <2>1. TlbInv => HitsEntitled  BY DEF TlbInv
    <2>2. Spec => []TlbInv  BY <1>1, TlbInvByTheBook
    <2>3. QED  BY <2>1, <2>2, PTL
  <1>2. CASE DISABLE_PGSIZE_CHECK
    <2>1. HitsEntitled  BY <1>2 DEF HitsEntitled, Hit
    <2>2. QED  BY <2>1, PTL
  <1>3. QED  BY <1>1, <1>2

(***************************************************************************)
(* What the instruction cache serves without a check.                      *)
(***************************************************************************)

(* A step changes no page table, empties h's history down to the tables,   *)
(* or adds to the histories what it adds to a table.                       *)
THEOREM PresentSound == Spec => []PresentIncludesTable
  <1>1. Init => PresentIncludesTable
    BY DEF Init, PresentIncludesTable
  <1>2. TypeOK /\ PresentIncludesTable /\ [Next]_vars => PresentIncludesTable'
    <2>1. SUFFICES ASSUME TypeOK, PresentIncludesTable, [Next]_vars
                   PROVE  PresentIncludesTable'
      OBVIOUS
    <2>2. ASSUME UNCHANGED <<pte, present>> PROVE PresentIncludesTable'
      BY <2>1, <2>2 DEF PresentIncludesTable
    <2>3. ASSUME NEW h \in Harts, FlushTlb(h), UNCHANGED pte
          PROVE  PresentIncludesTable'
      BY <2>1, <2>3 DEF PresentIncludesTable, FlushTlb, TypeOK
    <2>4. ASSUME NEW s \in Spaces, NEW p \in Pages, NEW e \in Ptes, StorePte(s, p, e)
          PROVE  PresentIncludesTable'
      <3>1. SUFFICES ASSUME NEW h \in Harts, NEW z \in Spaces, NEW q \in Pages
                     PROVE  pte'[z][q] \in present'[h][z][q]
        BY DEF PresentIncludesTable
      <3>2. /\ pte[z] \in [Pages -> Ptes] /\ pte[z][q] \in present[h][z][q]
            /\ present[h] \in [Spaces -> [Pages -> SUBSET Ptes]]
            /\ present[h][z] \in [Pages -> SUBSET Ptes]
        BY <2>1 DEF TypeOK, PresentIncludesTable
      <3>3. /\ pte'[z] = IF z = s THEN [pte[z] EXCEPT ![p] = e] ELSE pte[z]
            /\ present'[h] = [present[h] EXCEPT ![s][p] = @ \cup {e}]
        BY <2>1, <2>4 DEF StorePte, TypeOK
      <3>4. present'[h][z] = IF z = s THEN [present[h][z] EXCEPT ![p] = @ \cup {e}]
                             ELSE present[h][z]
        BY <3>2, <3>3
      <3>5. QED  BY <3>2, <3>3, <3>4
    <2>5. ASSUME NEW h \in Harts, Instruction(h) PROVE PresentIncludesTable'
      BY <2>2, <2>3, <2>4, <2>5
         DEF Instruction, Load, SlowFetch, Read, Fetch, Store, LoadReserved,
             StoreConditional, SfenceVma, FenceI, WriteSatp, WriteMstatus,
             TakeTrap, Mret, Sret, KeepTlb
    <2>6. ASSUME NEW h \in Harts, Reset(h) PROVE PresentIncludesTable'
      BY <2>2, <2>6 DEF Reset
    <2>7. CASE EndQuantum  BY <2>2, <2>7 DEF EndQuantum
    <2>8. CASE UNCHANGED vars  BY <2>2, <2>8 DEF vars
    <2>9. QED  BY <2>1, <2>5, <2>6, <2>7, <2>8 DEF Next
  <1>3. QED  BY <1>1, <1>2, MmuTypeCorrect, PTL DEF Spec

(* What an instruction cache hit of hart h is entitled to.                 *)
InstructionEntitled(h, p) ==
  IcacheHit(h, p) =>
    /\ Entitled(h, "FETCH", p, icacheFrame[h][IcacheIndex(p)])
    /\ PmpOk(h, "FETCH")

LEMMA InstructionsByHart ==
  InstructionsEntitled <=> \A h \in Harts, p \in Pages : InstructionEntitled(h, p)
  BY DEF InstructionsEntitled, InstructionEntitled

(* A cached instruction stays one its hart is entitled to as long as the   *)
(* hart keeps its modes, and page table entries are only added to those it *)
(* may use.                                                                *)
LEMMA CachedStaysEntitled ==
  ASSUME NEW h \in Harts, NEW p \in Pages, InstructionEntitled(h, p),
         IcacheHit(h, p)' => /\ IcacheHit(h, p)
                             /\ icacheFrame'[h][IcacheIndex(p)]
                                   = icacheFrame[h][IcacheIndex(p)],
         UNCHANGED <<prv[h], satp[h]>>,
         satp[h] # OFF =>
           present[h][satp[h]][p] \subseteq present'[h][satp[h]][p]
  PROVE  InstructionEntitled(h, p)'
  BY DEF InstructionEntitled, Entitled, PmpOk, Bare, Mode

(* A step that leaves all of this alone.                                   *)
LEMMA QuietKeepsInstructions ==
  ASSUME InstructionsEntitled, UNCHANGED <<prv, satp, icacheVars, present>>
  PROVE  InstructionsEntitled'
  BY DEF InstructionsEntitled, Entitled, PmpOk, Bare, Mode, IcacheHit, icacheVars

(* A step that flushes the instruction cache of h, and does to its modes   *)
(* what it likes.                                                          *)
LEMMA FlushingKeepsInstructions ==
  ASSUME TypeOK, InstructionsEntitled, NEW h \in Harts, FlushIcache(h),
         \A g \in Harts : g # h =>
           UNCHANGED <<prv[g], satp[g], present[g]>>
  PROVE  InstructionsEntitled'
  <1>1. \A p \in Pages : p # NoPage /\ IcacheIndex(p) \in Lines
    BY LineType DEF Pages, NoPage
  <1>2. \A p \in Pages : ~IcacheHit(h, p)'
    BY <1>1 DEF FlushIcache, IcacheHit, TypeOK
  <1>3. \A g \in Harts : g # h => /\ icacheTag'[g] = icacheTag[g]
                                  /\ icacheFrame'[g] = icacheFrame[g]
    BY DEF FlushIcache, TypeOK
  <1>4. ASSUME NEW g \in Harts, NEW p \in Pages PROVE InstructionEntitled(g, p)'
    <2>1. CASE g = h
      BY <1>2, <2>1 DEF InstructionEntitled
    <2>2. CASE g # h
      BY <1>3, <2>2, InstructionsByHart, CachedStaysEntitled DEF IcacheHit
    <2>3. QED  BY <2>1, <2>2
  <1>5. QED  BY <1>4 DEF InstructionsEntitled, InstructionEntitled

(* An instruction fetched into the cache was looked up.                    *)
LEMMA FetchKeepsInstructions ==
  ASSUME TypeOK, HitsEntitled, PresentIncludesTable, InstructionsEntitled,
         NEW h \in Harts, NEW p \in Pages, Fetch(h, p)
  PROVE  InstructionsEntitled'
  <1>1. "FETCH" \in Types  BY DEF Types
  <1>2. PICK f \in Lookup(h, "FETCH", p) :
          icacheFrame' = [icacheFrame EXCEPT ![h][IcacheIndex(p)] = f]
    BY DEF Fetch
  <1>3. Entitled(h, "FETCH", p, f) /\ PmpOk(h, "FETCH")
    <2>1. CASE Hit(h, "FETCH", p)
      BY <1>1, <1>2, <2>1 DEF Lookup, HitsEntitled, PmpOk
    <2>2. CASE ~Hit(h, "FETCH", p)
      <3>1. f \in Translate(h, "FETCH", p)  BY <1>2, <2>2 DEF Lookup
      <3>2. QED  BY <1>1, <3>1, TranslateEntitled DEF PmpOk
    <2>3. QED  BY <2>1, <2>2
  <1>4. /\ icacheTag' = [icacheTag EXCEPT ![h][IcacheIndex(p)] = p]
        /\ UNCHANGED <<prv, mprv, mpp, satp, present>>
    BY DEF Fetch, modeVars
  <1>5. ASSUME NEW g \in Harts, NEW q \in Pages PROVE InstructionEntitled(g, q)'
    <2>1. IcacheIndex(p) \in Lines /\ IcacheIndex(q) \in Lines  BY LineType
    <2>2. CASE g = h /\ IcacheIndex(q) = IcacheIndex(p)
      <3>1. icacheTag'[h][IcacheIndex(p)] = p /\ icacheFrame'[h][IcacheIndex(p)] = f
        BY <1>2, <1>4, <2>1 DEF TypeOK
      <3>2. QED
        BY <1>3, <1>4, <2>2, <3>1
           DEF InstructionEntitled, IcacheHit, Entitled, PmpOk, Bare, Mode
    <2>3. CASE ~(g = h /\ IcacheIndex(q) = IcacheIndex(p))
      <3>1. /\ icacheTag'[g][IcacheIndex(q)] = icacheTag[g][IcacheIndex(q)]
            /\ icacheFrame'[g][IcacheIndex(q)] = icacheFrame[g][IcacheIndex(q)]
        BY <1>2, <1>4, <2>1, <2>3 DEF TypeOK
      <3>2. QED
        BY <1>4, <3>1, InstructionsByHart, CachedStaysEntitled DEF IcacheHit
    <2>4. QED  BY <2>2, <2>3
  <1>6. QED  BY <1>5 DEF InstructionsEntitled, InstructionEntitled

(* A new page table entry adds to what harts may use.                      *)
LEMMA StorePteKeepsInstructions ==
  ASSUME TypeOK, InstructionsEntitled, NEW s \in Spaces, NEW p \in Pages,
         NEW e \in Ptes, StorePte(s, p, e)
  PROVE  InstructionsEntitled'
  <1>1. UNCHANGED <<prv, satp, icacheTag, icacheFrame>>
    BY DEF StorePte, modeVars, icacheVars
  <1>2. ASSUME NEW h \in Harts, NEW z \in Spaces, NEW q \in Pages
        PROVE  present[h][z][q] \subseteq present'[h][z][q]
    <2>1. present[h] \in [Spaces -> [Pages -> SUBSET Ptes]]  BY DEF TypeOK
    <2>2. present'[h] = [present[h] EXCEPT ![s][p] = @ \cup {e}]  BY DEF StorePte
    <2>3. present'[h][z] = IF z = s THEN [present[h][s] EXCEPT ![p] = @ \cup {e}]
                           ELSE present[h][z]
      BY <2>1, <2>2
    <2>4. present[h][s] \in [Pages -> SUBSET Ptes]  BY <2>1
    <2>5. QED  BY <2>3, <2>4
  <1>3. ASSUME NEW h \in Harts, NEW q \in Pages PROVE InstructionEntitled(h, q)'
    <2>1. satp[h] # OFF => present[h][satp[h]][q] \subseteq present'[h][satp[h]][q]
      BY <1>2 DEF TypeOK
    <2>2. QED
      BY <1>1, <2>1, InstructionsByHart, CachedStaysEntitled DEF IcacheHit
  <1>4. QED  BY <1>3 DEF InstructionsEntitled, InstructionEntitled

(* Under the conditions of TlbSound, what the instruction cache serves has *)
(* been checked as well: everything that changes the mode a hart fetches   *)
(* in or its address space flushes it, sfence.vma does, and what fills it  *)
(* comes from a walk or from a sound TLB.                                  *)
THEOREM InstructionsSound ==
  ASSUME BreakBeforeMake \/ DISABLE_PGSIZE_CHECK, ~ResetsAnywhere
  PROVE  Spec => []InstructionsEntitled
  <1>1. Init => InstructionsEntitled
    <2>1. \A p \in Pages : p # NoPage /\ IcacheIndex(p) \in Lines
      BY LineType DEF Pages, NoPage
    <2>2. QED  BY <2>1 DEF Init, InstructionsEntitled, IcacheHit
  <1>2. /\ TypeOK /\ HitsEntitled /\ PresentIncludesTable /\ InstructionsEntitled
        /\ [Next]_vars
        => InstructionsEntitled'
    <2>1. SUFFICES ASSUME TypeOK, HitsEntitled, PresentIncludesTable,
                          InstructionsEntitled, [Next]_vars
                   PROVE  InstructionsEntitled'
      OBVIOUS
    <2>2. ASSUME UNCHANGED <<prv, satp, icacheVars, present>>
          PROVE  InstructionsEntitled'
      BY <2>1, <2>2, QuietKeepsInstructions
    <2>3. ASSUME NEW h \in Harts, FlushTlb(h),
                 \A g \in Harts : g # h => UNCHANGED <<prv[g], satp[g]>>
          PROVE  InstructionsEntitled'
      <3>1. \A g \in Harts : g # h => UNCHANGED present[g]
        BY <2>1, <2>3 DEF FlushTlb, TypeOK
      <3>2. FlushIcache(h)  BY <2>3 DEF FlushTlb
      <3>3. QED  BY <2>1, <2>3, <3>1, <3>2, FlushingKeepsInstructions
    <2>4. ASSUME NEW h \in Harts, Instruction(h) PROVE InstructionsEntitled'
      <3>1. ASSUME NEW p \in Pages,
                   \/ Load(h, p) \/ SlowFetch(h, p) \/ LoadReserved(h, p)
                   \/ \E x \in Values : Store(h, p, x) \/ StoreConditional(h, p, x)
            PROVE  InstructionsEntitled'
        BY <2>2, <3>1 DEF Load, SlowFetch, Read, LoadReserved, Store,
                          StoreConditional, modeVars
      <3>2. ASSUME NEW p \in Pages, Fetch(h, p) PROVE InstructionsEntitled'
        BY <2>1, <3>2, FetchKeepsInstructions
      <3>3. ASSUME NEW s \in Spaces, NEW p \in Pages, NEW e \in Ptes,
                   StorePte(s, p, e)
            PROVE  InstructionsEntitled'
        BY <2>1, <3>3, StorePteKeepsInstructions
      <3>4. CASE SfenceVma(h)
        BY <2>3, <3>4 DEF SfenceVma, modeVars
      <3>5. CASE FenceI(h)
        BY <2>1, <3>5, FlushingKeepsInstructions DEF FenceI, modeVars
      <3>6. ASSUME NEW s \in Spaces \cup {OFF}, WriteSatp(h, s)
            PROVE  InstructionsEntitled'
        <4>1. CASE s # satp[h]
          BY <2>1, <2>3, <3>6, <4>1 DEF WriteSatp, TypeOK
        <4>2. CASE s = satp[h]
          <5>1. UNCHANGED <<prv, satp, icacheVars, present>>
            BY <2>1, <3>6, <4>2 DEF WriteSatp, KeepTlb, TypeOK
          <5>2. QED  BY <2>2, <5>1
        <4>3. QED  BY <4>1, <4>2
      <3>7. ASSUME NEW b \in BOOLEAN, NEW m \in Privileges, WriteMstatus(h, b, m)
            PROVE  InstructionsEntitled'
        <4>1. CASE MstatusFlushes(h, b, m)
          BY <2>3, <3>7, <4>1 DEF WriteMstatus
        <4>2. CASE ~MstatusFlushes(h, b, m)
          BY <2>2, <3>7, <4>2 DEF WriteMstatus, KeepTlb
        <4>3. QED  BY <4>1, <4>2
      <3>9. ASSUME NEW to \in Privileges, TakeTrap(h, to)
            PROVE  InstructionsEntitled'
        BY <2>1, <2>3, <3>9 DEF TakeTrap, TypeOK
      <3>10. CASE Mret(h)
        BY <2>1, <2>3, <3>10 DEF Mret, TypeOK
      <3>11. CASE Sret(h)
        BY <2>1, <2>3, <3>11 DEF Sret, TypeOK
      <3>12. QED
        BY <2>4, <3>1, <3>2, <3>3, <3>4, <3>5, <3>6, <3>7, <3>9, <3>10,
           <3>11 DEF Instruction
    <2>5. ASSUME NEW h \in Harts, Reset(h) PROVE InstructionsEntitled'
      <3>1. /\ prv[h] = "M" /\ prv'[h] = "M"
            /\ UNCHANGED <<icacheTag, icacheFrame, present>>
            /\ \A g \in Harts : g # h => UNCHANGED <<prv[g], satp[g]>>
        BY <2>1, <2>5 DEF Reset, TypeOK, icacheVars
      <3>2. ASSUME NEW g \in Harts, NEW p \in Pages PROVE InstructionEntitled(g, p)'
        <4>1. InstructionEntitled(g, p)  BY <2>1, InstructionsByHart
        <4>2. QED
          BY <3>1, <4>1
             DEF InstructionEntitled, IcacheHit, Entitled, PmpOk, Bare, Mode
      <3>3. QED  BY <3>2 DEF InstructionsEntitled, InstructionEntitled
    <2>6. CASE EndQuantum
      BY <2>2, <2>6 DEF EndQuantum, modeVars
    <2>7. CASE UNCHANGED vars
      BY <2>2, <2>7 DEF vars, modeVars
    <2>8. QED  BY <2>1, <2>4, <2>5, <2>6, <2>7 DEF Next
  <1>3. QED
    BY <1>1, <1>2, MmuTypeCorrect, TlbSound, PresentSound, PTL DEF Spec

(***************************************************************************)
(* Store-conditionals.                                                     *)
(***************************************************************************)

(* A walk finds one frame at most.                                         *)
LEMMA TranslateUnique ==
  ASSUME NEW h \in Harts, NEW t \in Types, NEW p \in Pages,
         NEW f \in Translate(h, t, p), NEW g \in Translate(h, t, p)
  PROVE  g = f
  <1>1. CASE Bare(h, t)  BY <1>1 DEF Translate, Walk
  <1>2. CASE ~Bare(h, t)  BY <1>2 DEF Translate, Walk
  <1>3. QED  BY <1>1, <1>2

(* What the two translations of a store-conditional need to agree.         *)
LookupsAgree ==
  \A h \in Harts, t \in Types, p \in Pages :
    \A f \in Translate(h, t, p), g \in Lookup(h, t, p) : g = f

LEMMA LookupsAgreeByInv ==
  ASSUME TypeOK, TlbInv PROVE LookupsAgree
  <1>1. SUFFICES ASSUME NEW h \in Harts, NEW t \in Types, NEW p \in Pages,
                        NEW f \in Translate(h, t, p), NEW g \in Lookup(h, t, p)
                 PROVE  g = f
    BY DEF LookupsAgree
  <1>2. CASE Hit(h, t, p)
    <2>1. g = tlbData[h][Index(p)] /\ ~mprv[h]
      BY <1>2 DEF Lookup, TlbInv, NoHitsUnderMprv
    <2>2. QED  BY <1>2, <2>1, TypesAgree
  <1>3. CASE ~Hit(h, t, p)
    BY <1>3, TranslateUnique DEF Lookup
  <1>4. QED  BY <1>2, <1>3

(* A step that ends a reservation and stores, stores where it pointed.     *)
LEMMA ConditionalStep ==
  ASSUME TypeOK, LookupsAgree, [Next]_vars, NEW h \in Harts, NEW f \in Frames,
         reservation[h] # NoFrame, reservation'[h] = NoFrame, mem'[f] # mem[f]
  PROVE  f = reservation[h]
  <1>1. ~UNCHANGED mem /\ ~UNCHANGED reservation  OBVIOUS
  <1>2. ASSUME NEW g \in Harts, Instruction(g) PROVE f = reservation[h]
    <2>1. PICK p \in Pages, x \in Values : StoreConditional(g, p, x)
      BY <1>1, <1>2 DEF Instruction, Load, SlowFetch, Fetch, Read, LoadReserved, Store,
         StorePte, SfenceVma, FenceI, WriteSatp, WriteMstatus, TakeTrap, Mret, Sret
    <2>2. h = g  BY <2>1 DEF StoreConditional, TypeOK
    <2>3. PICK k \in Translate(h, "STORE", p) :
            IF Reserves(h, k)
            THEN \E l \in Lookup(h, "STORE", p) : Write(h, l, x) /\ Refill(h, "STORE", p, l)
            ELSE UNCHANGED <<mem, intruded, tlbVars>>
      BY <2>1, <2>2 DEF StoreConditional
    <2>4. Reserves(h, k)  BY <1>1, <2>3
    <2>5. PICK l \in Lookup(h, "STORE", p) : Write(h, l, x)  BY <2>3, <2>4
    <2>6. l = k  BY <2>3, <2>5 DEF LookupsAgree, Types
    <2>7. f = l  BY <2>5 DEF Write, TypeOK
    <2>8. QED  BY <2>4, <2>6, <2>7 DEF Reserves
  <1>3. ~(\E g \in Harts : Reset(g)) /\ ~EndQuantum /\ ~UNCHANGED vars
    BY <1>1 DEF Reset, EndQuantum, vars
  <1>4. QED  BY <1>2, <1>3 DEF Next

(* A store-conditional that succeeds stores to the reserved frame, if      *)
(* harts are reset in M mode only, and if software breaks before it makes  *)
(* or the TLB is disabled.                                                 *)
THEOREM ConditionalStoresReserved ==
  ASSUME BreakBeforeMake \/ DISABLE_PGSIZE_CHECK, ~ResetsAnywhere
  PROVE  Spec => ScStoresToReserved
  <1> DEFINE Stores ==
        \A h \in Harts, f \in Frames :
          /\ reservation[h] # NoFrame /\ reservation'[h] = NoFrame
          /\ mem'[f] # mem[f]
          => f = reservation[h]
  <1>1. TypeOK /\ LookupsAgree /\ [Next]_vars => [Stores]_vars
    BY ConditionalStep
  <1>2. Spec => []LookupsAgree
    <2>1. CASE BreakBeforeMake
      <3>1. TypeOK /\ TlbInv => LookupsAgree  BY LookupsAgreeByInv
      <3>2. Spec => []TlbInv  BY <2>1, TlbInvByTheBook
      <3>3. QED  BY <3>1, <3>2, MmuTypeCorrect, PTL
    <2>2. CASE DISABLE_PGSIZE_CHECK
      <3>1. LookupsAgree  BY <2>2, TranslateUnique DEF LookupsAgree, Lookup, Hit
      <3>2. QED  BY <3>1, PTL
    <2>3. QED  BY <2>1, <2>2
  <1>3. QED  BY <1>1, <1>2, MmuTypeCorrect, PTL DEF Spec, ScStoresToReserved
=============================================================================
