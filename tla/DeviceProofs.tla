---------------------------- MODULE DeviceProofs ----------------------------
(***************************************************************************)
(* Theorems about the interrupt controller of Plic, the serial port, the   *)
(* calls of the test bench, the counters of instructions, the debugger's   *)
(* accesses through the system bus, vector loads and stores, and the types *)
(* of all the components of MCDevices.                                     *)
(***************************************************************************)
EXTENDS MCDevices, MemoryProofs, BitProofs

(***************************************************************************)
(* The interrupt controller                                                *)
(***************************************************************************)

(* The types of the constants of Plic.                                     *)
LEMMA PlicConstants ==
  /\ Contexts \subseteq Int
  /\ 0 \in Priorities
  /\ \A c \in Contexts : Pin(c) \in Pins
  <1>1. 0 \in Priorities  BY PlicAssumption DEF Priorities
  <1>2. Contexts \subseteq Int  BY PlicAssumption DEF PLIC_MAX_CONTEXTS
  <1>3. QED  BY <1>1, <1>2, PinsAssumption

(* Driving a pin keeps the types of the pins.                              *)
LEMMA UpdateType ==
  ASSUME TypeOK, NEW c \in Contexts, Update(c)
  PROVE  mip' \in SUBSET Pins /\ settled' \in SUBSET Contexts
  <1>1. Pin(c) \in Pins  BY PlicConstants
  <1>2. QED  BY <1>1 DEF Update, TypeOK

(* Every action keeps the types, whatever software and devices do.         *)
LEMMA PlicInitType == Init => TypeOK
  BY PlicConstants DEF Init, TypeOK

LEMMA PlicStepType == TypeOK /\ [Next]_vars => TypeOK'
  <1>1. SUFFICES ASSUME TypeOK, [Next]_vars PROVE TypeOK'  OBVIOUS
  <1>2. ASSUME NEW s \in Sources, NEW x \in Priorities, WritePriority(s, x)
        PROVE  TypeOK'
    BY <1>1, <1>2 DEF WritePriority, TypeOK, contextVars
  <1>3. ASSUME NEW c \in Contexts, NEW x \in Priorities, WriteThreshold(c, x)
        PROVE  TypeOK'
    BY <1>1, <1>3 DEF WriteThreshold, TypeOK
  <1>4. ASSUME NEW c \in Contexts, NEW S \in SUBSET Sources, WriteEnable(c, S)
        PROVE  TypeOK'
    <2>1. DEFINE on == S \ enable[c]
                 off == enable[c] \ S
                 prio == [s \in Sources |->
                            IF s \in on \cap level THEN priority[s]
                            ELSE IF s \in off THEN 0 ELSE pendingPriority[c][s]]
    <2>2. prio \in [Sources -> Priorities]
      BY <1>1, PlicConstants DEF TypeOK
    <2>3. pendingPriority' = [pendingPriority EXCEPT ![c] = prio]
      BY <1>4 DEF WriteEnable
    <2>4. pendingPriority' \in [Contexts -> [Sources -> Priorities]]
      BY <1>1, <2>2, <2>3 DEF TypeOK
    <2>5. /\ enable' \in [Contexts -> SUBSET Sources]
          /\ pending' \in [Contexts -> SUBSET Sources]
          /\ claimed' \in [Contexts -> SUBSET Sources]
      BY <1>1, <1>4 DEF WriteEnable, PendingOnceEnabled, TypeOK
    <2>6. QED
      BY <1>1, <1>4, <2>4, <2>5 DEF WriteEnable, TypeOK
  <1>5. ASSUME NEW c \in Contexts, Claim(c) PROVE TypeOK'
    BY <1>1, <1>5, UpdateType DEF Claim, TypeOK
  <1>6. ASSUME NEW c \in Contexts, NEW s \in Sources, Complete(c, s)
        PROVE  TypeOK'
    BY <1>1, <1>6, UpdateType DEF Complete, TypeOK
  <1>6a. ASSUME NEW c \in Contexts, WriteElsewhere(c) PROVE TypeOK'
    BY <1>1, <1>6a, UpdateType DEF WriteElsewhere, contextVars, TypeOK
  <1>7. ASSUME NEW s \in Sources, Raise(s) PROVE TypeOK'
    <2>1. pendingPriority' \in [Contexts -> [Sources -> Priorities]]
      BY <1>1, <1>7 DEF Raise, TypeOK
    <2>2. QED  BY <1>1, <1>7, <2>1 DEF Raise, TypeOK
  <1>8. ASSUME NEW s \in Sources, Lower(s) PROVE TypeOK'
    <2>1. pendingPriority' \in [Contexts -> [Sources -> Priorities]]
      BY <1>1, <1>8, PlicConstants DEF Lower, TypeOK
    <2>2. QED  BY <1>1, <1>8, <2>1 DEF Lower, ClaimedOnceLowered, TypeOK
  <1>9. ASSUME NEW h \in Harts, NEW bits \in SUBSET {"MEIP", "SEIP"},
               WriteMip(h, bits)
        PROVE  TypeOK'
    BY <1>1, <1>9 DEF WriteMip, TypeOK, contextVars, Pins
  <1>10. CASE UNCHANGED vars
    BY <1>1, <1>10 DEF vars, contextVars, TypeOK
  <1>11. QED
    BY <1>1, <1>2, <1>3, <1>4, <1>5, <1>6, <1>6a, <1>7, <1>8, <1>9, <1>10 DEF Next

(* Every variable has its type, for any number of contexts and sources.    *)
THEOREM PlicTypeCorrect == Spec => []TypeOK
  BY PlicInitType, PlicStepType, PTL DEF Spec

-----------------------------------------------------------------------------
(* No source is enabled for two contexts, which is why a line reaches all  *)
(* the contexts it should although the loop over them stops at the first.  *)
EnabledOnce ==
  Exclusive => \A c, d \in Contexts : c # d => enable[c] \cap enable[d] = {}

PendingInv == EnabledOnce /\ PendingIsLevelAndEnabled

(* Under the exclusive discipline the first context that enables a source  *)
(* is the only one.                                                        *)
LEMMA FirstIsOnly ==
  ASSUME TypeOK, EnabledOnce, Exclusive, NEW s \in Sources, NEW c \in Contexts
  PROVE  c \in FirstEnabling(s) <=> s \in enable[c]
  <1>1. \A d \in Contexts : s \in enable[c] /\ s \in enable[d] => d = c
    BY DEF EnabledOnce
  <1>2. c <= c  BY PlicConstants
  <1>3. QED  BY <1>1, <1>2 DEF FirstEnabling

(* A change of a line reaches the context that enables the source.         *)
LEMMA LineKeepsInv ==
  ASSUME TypeOK, PendingInv, NEW s \in Sources, Raise(s) \/ Lower(s)
  PROVE  PendingInv'
  <1>1. EnabledOnce'  BY DEF PendingInv, EnabledOnce, Raise, Lower
  <1>2. ASSUME Exclusive, NEW c \in Contexts
        PROVE  pending'[c] = enable'[c] \cap level'
    <2>1. pending[c] = enable[c] \cap level
      BY <1>2 DEF PendingInv, PendingIsLevelAndEnabled
    <2>2. c \in FirstEnabling(s) <=> s \in enable[c]
      BY <1>2, FirstIsOnly DEF PendingInv
    <2>3. CASE Raise(s)
      <3>1. /\ level' = level \cup {s} /\ enable' = enable
            /\ pending'[c] = IF c \in FirstEnabling(s) THEN pending[c] \cup {s}
                             ELSE pending[c]
        BY <2>3 DEF Raise
      <3>2. QED  BY <2>1, <2>2, <3>1
    <2>4. CASE Lower(s)
      <3>1. /\ level' = level \ {s} /\ enable' = enable
            /\ pending'[c] = IF c \in FirstEnabling(s) THEN pending[c] \ {s}
                             ELSE pending[c]
        BY <2>4 DEF Lower
      <3>2. QED  BY <2>1, <2>2, <3>1
    <2>5. QED  BY <2>3, <2>4
  <1>3. QED  BY <1>1, <1>2 DEF PendingInv, PendingIsLevelAndEnabled

(* So does a change of the enable bits.                                    *)
LEMMA EnableKeepsInv ==
  ASSUME TypeOK, PendingInv, NEW c \in Contexts, NEW S \in SUBSET Sources,
         WriteEnable(c, S)
  PROVE  PendingInv'
  <1>1. /\ enable' = [enable EXCEPT ![c] = S] /\ level' = level
        /\ Exclusive => \A d \in Contexts \ {c} : S \cap enable[d] = {}
        /\ pending' = [pending EXCEPT ![c] =
                         PendingOnceEnabled(c, S \ enable[c], enable[c] \ S)]
    BY DEF WriteEnable
  <1>2. EnabledOnce'
    BY <1>1 DEF PendingInv, EnabledOnce, TypeOK
  <1>3. PendingIsLevelAndEnabled'
    <2>1. SUFFICES ASSUME Exclusive, NEW d \in Contexts
                   PROVE  pending'[d] = enable'[d] \cap level'
      BY DEF PendingIsLevelAndEnabled
    <2>2. pending[d] = enable[d] \cap level
      BY <2>1 DEF PendingInv, PendingIsLevelAndEnabled
    <2>3. CASE d = c
      <3>1. enable'[c] = S /\ pending'[c] =
              (pending[c] \cup ((S \ enable[c]) \cap level)) \ (enable[c] \ S)
        BY <1>1 DEF PendingOnceEnabled, TypeOK
      <3>2. QED  BY <1>1, <2>2, <2>3, <3>1
    <2>4. CASE d # c
      BY <1>1, <2>2, <2>4 DEF TypeOK
    <2>5. QED  BY <2>3, <2>4
  <1>4. QED  BY <1>2, <1>3 DEF PendingInv

(* Every step keeps both.                                                  *)
LEMMA PendingKept == TypeOK /\ PendingInv /\ [Next]_vars => PendingInv'
  <1>1. SUFFICES ASSUME TypeOK, PendingInv, [Next]_vars PROVE PendingInv'
    OBVIOUS
  <1>2. ASSUME UNCHANGED <<enable, pending, level>> PROVE PendingInv'
    BY <1>1, <1>2 DEF PendingInv, EnabledOnce, PendingIsLevelAndEnabled
  <1>3. ASSUME NEW s \in Sources, NEW x \in Priorities, WritePriority(s, x)
        PROVE  PendingInv'
    BY <1>2, <1>3 DEF WritePriority, contextVars
  <1>4. ASSUME NEW c \in Contexts, NEW x \in Priorities, WriteThreshold(c, x)
        PROVE  PendingInv'
    BY <1>2, <1>4 DEF WriteThreshold
  <1>5. ASSUME NEW c \in Contexts, NEW S \in SUBSET Sources, WriteEnable(c, S)
        PROVE  PendingInv'
    BY <1>1, <1>5, EnableKeepsInv
  <1>6. ASSUME NEW c \in Contexts, Claim(c) PROVE PendingInv'
    BY <1>2, <1>6 DEF Claim
  <1>7. ASSUME NEW c \in Contexts, NEW s \in Sources, Complete(c, s)
        PROVE  PendingInv'
    BY <1>2, <1>7 DEF Complete
  <1>7a. ASSUME NEW c \in Contexts, WriteElsewhere(c) PROVE PendingInv'
    BY <1>2, <1>7a DEF WriteElsewhere, contextVars
  <1>8. ASSUME NEW s \in Sources, Raise(s) \/ Lower(s) PROVE PendingInv'
    BY <1>1, <1>8, LineKeepsInv
  <1>9. ASSUME NEW h \in Harts, NEW bits \in SUBSET {"MEIP", "SEIP"},
               WriteMip(h, bits)
        PROVE  PendingInv'
    BY <1>2, <1>9 DEF WriteMip, contextVars
  <1>10. CASE UNCHANGED vars
    BY <1>2, <1>10 DEF vars, contextVars
  <1>11. QED
    BY <1>1, <1>3, <1>4, <1>5, <1>6, <1>7, <1>7a, <1>8, <1>9, <1>10 DEF Next

(* As long as software enables a source for one context at most, whatever  *)
(* waits is enabled and high, and whatever is enabled and high waits.      *)
THEOREM PendingExact == Spec => []PendingIsLevelAndEnabled
  <1>1. Init => PendingInv
    BY DEF Init, PendingInv, EnabledOnce, PendingIsLevelAndEnabled
  <1>2. PendingInv => PendingIsLevelAndEnabled  BY DEF PendingInv
  <1>3. QED  BY <1>1, <1>2, PendingKept, PlicTypeCorrect, PTL DEF Spec

-----------------------------------------------------------------------------
(* One step of the scan, whose results so far are those of f.              *)
ScanStep(waiting, prio, f, s) ==
  IF s = 0 THEN NoSource
  ELSE IF s \in waiting /\ Beats(prio, s, f[s - 1]) THEN s
  ELSE f[s - 1]

(* The first m results of the scan exist: each extends the ones before it. *)
LEMMA ScanExists ==
  ASSUME NEW waiting, NEW prio, NEW m \in Nat
  PROVE  \E f : f = [s \in 0 .. m |-> ScanStep(waiting, prio, f, s)]
  <1> DEFINE Scan(f, k) == f = [s \in 0 .. k |-> ScanStep(waiting, prio, f, s)]
             T == {k \in Nat : \E f : Scan(f, k)}
  <1>1. 0 \in T
    <2> DEFINE f == [s \in 0 .. 0 |-> NoSource]
    <2>1. Scan(f, 0)  BY DEF ScanStep
    <2> QED  BY <2>1
  <1>2. ASSUME NEW k \in Nat, k \in T PROVE k + 1 \in T
    <2>1. PICK f : Scan(f, k)  BY <1>2
    <2> DEFINE last == IF k + 1 \in waiting /\ Beats(prio, k + 1, f[k]) THEN k + 1 ELSE f[k]
               g == [s \in 0 .. k + 1 |-> IF s = k + 1 THEN last ELSE f[s]]
    <2>2. ASSUME NEW s \in 0 .. k + 1 PROVE g[s] = ScanStep(waiting, prio, g, s)
      <3>1. CASE s = k + 1
        <4>1. s # 0 /\ s - 1 = k /\ k \in 0 .. k + 1 /\ k # k + 1  BY <3>1
        <4>2. g[s - 1] = f[k]  BY <4>1
        <4>3. g[s] = last  BY <3>1
        <4>4. QED  BY <3>1, <4>1, <4>2, <4>3 DEF ScanStep
      <3>2. CASE s # k + 1
        <4>1. s \in 0 .. k  BY <3>2
        <4>2. f[s] = ScanStep(waiting, prio, f, s)  BY <2>1, <4>1
        <4>3. g[s] = f[s]  BY <3>2
        <4>4. s # 0 => g[s - 1] = f[s - 1]  BY <4>1
        <4>5. QED  BY <4>2, <4>3, <4>4 DEF ScanStep
      <3>3. QED  BY <3>1, <3>2
    <2>3. Scan(g, k + 1)
      <3> HIDE DEF last
      <3>1. g = [s \in 0 .. k + 1 |-> g[s]]  OBVIOUS
      <3> HIDE DEF g
      <3>2. QED  BY <2>2, <3>1
    <2>4. \E h : Scan(h, k + 1)
      <3> HIDE DEF g, Scan
      <3>1. QED  BY <2>3
    <2>5. QED  BY <2>4
  <1>3. Nat \subseteq T
    <2> HIDE DEF T
    <2> QED  BY <1>1, <1>2, SetInduction
  <1>4. QED  BY <1>3

(* What the scan of waiting sources returns: nothing if there are none, or *)
(* the first of those that have the highest priority.                      *)
LEMMA BestIsBest ==
  ASSUME NEW waiting \in SUBSET Sources, NEW prio \in [Sources -> Priorities]
  PROVE  LET best == Best(waiting, prio)
         IN IF waiting = {} THEN best = NoSource
            ELSE /\ best \in waiting
                 /\ \A s \in waiting : \/ prio[s] < prio[best]
                                       \/ prio[s] = prio[best] /\ best <= s
  <1>0. NDev \in Nat /\ MaxPriority \in Nat  BY PlicAssumption
  <1>00. \A s \in waiting : s \in Nat /\ 1 <= s /\ s <= NDev  BY <1>0 DEF Sources
  <1>1. PICK f : f = [s \in 0 .. NDev |-> ScanStep(waiting, prio, f, s)]
                 /\ Best(waiting, prio) = f[NDev]
    <2> DEFINE g == CHOOSE f : f = [s \in 0 .. NDev |-> ScanStep(waiting, prio, f, s)]
    <2>1. g = [s \in 0 .. NDev |-> ScanStep(waiting, prio, g, s)]
      BY <1>0, ScanExists, Zenon
    <2>2. Best(waiting, prio) = g[NDev]  BY DEF Best, ScanStep
    <2>3. QED  BY <2>1, <2>2
  <1> DEFINE seen(k) == {s \in waiting : s <= k}
             Right(k) == IF seen(k) = {} THEN f[k] = NoSource
                         ELSE /\ f[k] \in seen(k)
                              /\ \A s \in seen(k) : \/ prio[s] < prio[f[k]]
                                                    \/ prio[s] = prio[f[k]] /\ f[k] <= s
             T == {k \in Nat : k <= NDev => Right(k)}
  <1>2. 0 \in T
    <2>1. seen(0) = {}  BY <1>00
    <2>2. f[0] = NoSource  BY <1>0, <1>1 DEF ScanStep
    <2>3. QED  BY <2>1, <2>2
  <1>3. ASSUME NEW k \in Nat, k \in T PROVE k + 1 \in T
    <2>1. SUFFICES ASSUME k + 1 <= NDev PROVE Right(k + 1)  OBVIOUS
    <2>2. Right(k)  BY <1>0, <1>3, <2>1
    <2>3. f[k + 1] = IF k + 1 \in waiting /\ Beats(prio, k + 1, f[k]) THEN k + 1 ELSE f[k]
      <3>1. k + 1 \in 0 .. NDev /\ k + 1 # 0 /\ (k + 1) - 1 = k  BY <1>0, <2>1
      <3>2. QED  BY <1>1, <3>1 DEF ScanStep
    <2>4. seen(k + 1) = seen(k) \cup (waiting \cap {k + 1})  BY <1>00
    <2>5. \A s \in waiting : s \in Int /\ s # 0 /\ prio[s] \in Int
      BY <1>0 DEF Sources, Priorities
    <2>6. QED
      <3> DEFINE old == seen(k)
                 new == seen(k + 1)
      <3>1. k + 1 \notin old /\ old \subseteq waiting /\ \A s \in old : s < k + 1
        BY <1>0 DEF Sources
      <3> HIDE DEF seen, old, new
      <3>2. CASE k + 1 \notin waiting
        BY <2>2, <2>3, <2>4, <3>2 DEF old, new
      <3>3. CASE k + 1 \in waiting /\ old = {}
        BY <2>2, <2>3, <2>4, <3>3 DEF old, new, Beats
      <3>4. CASE k + 1 \in waiting /\ old # {}
        <4>1. f[k] \in old /\ \A s \in old : \/ prio[s] < prio[f[k]]
                                             \/ prio[s] = prio[f[k]] /\ f[k] <= s
          BY <2>2, <3>4 DEF old
        <4>2. f[k] # NoSource  BY <2>5, <3>1, <4>1 DEF NoSource
        <4>3. CASE prio[f[k]] < prio[k + 1]
          BY <2>3, <2>4, <2>5, <3>1, <3>4, <4>1, <4>3 DEF old, new, Beats
        <4>4. CASE ~ (prio[f[k]] < prio[k + 1])
          BY <2>3, <2>4, <2>5, <3>1, <3>4, <4>1, <4>2, <4>4 DEF old, new, Beats
        <4>5. QED  BY <4>3, <4>4
      <3>5. QED  BY <3>2, <3>3, <3>4
  <1>4. Right(NDev)
    <2> HIDE DEF Right
    <2>1. 0 \in T /\ \A k \in Nat : k \in T => k + 1 \in T  BY <1>2, <1>3
    <2> HIDE DEF T
    <2>2. Nat \subseteq T  BY <2>1, SetInduction
    <2>3. QED  BY <1>0, <2>2 DEF T
  <1>5. seen(NDev) = waiting  BY <1>00
  <1>6. QED  BY <1>1, <1>4, <1>5

(* In every state, what a claim would return for a context, and what its   *)
(* pin is driven by, is the best of the sources that wait for it: of the   *)
(* highest priority, and of several the one with the lowest number.  The   *)
(* threshold of the context plays no part in it.                           *)
THEOREM ScanBest == Spec => []ScanFindsTheBest
  <1>1. TypeOK => ScanFindsTheBest
    <2>1. SUFFICES ASSUME TypeOK, NEW c \in Contexts
                   PROVE  LET waiting == pending[c] \ claimed[c]
                              best == Best(waiting, pendingPriority[c])
                          IN IF waiting = {} THEN best = NoSource
                             ELSE /\ best \in waiting
                                  /\ \A s \in waiting :
                                       \/ pendingPriority[c][s] < pendingPriority[c][best]
                                       \/ pendingPriority[c][s] = pendingPriority[c][best] /\ best <= s
      BY DEF ScanFindsTheBest, BestPending
    <2>2. pending[c] \ claimed[c] \in SUBSET Sources /\ pendingPriority[c] \in [Sources -> Priorities]
      BY <2>1 DEF TypeOK
    <2>3. QED  BY <2>2, BestIsBest
  <1>2. QED  BY <1>1, PlicTypeCorrect, PTL

-----------------------------------------------------------------------------
(* A claim is for a source that waits for the context.                     *)
ClaimedIsPending == Exclusive => \A c \in Contexts : claimed[c] \subseteq enable[c] \cap level

LEMMA ClaimedKept ==
  ASSUME TypeOK, PendingInv, ClaimedIsPending, [Next]_vars
  PROVE  ClaimedIsPending'
  <1>1. SUFFICES ASSUME Exclusive, NEW d \in Contexts PROVE (claimed[d] \subseteq enable[d] \cap level)'
    BY DEF ClaimedIsPending
  <1>2. claimed[d] \subseteq enable[d] \cap level /\ pending[d] = enable[d] \cap level
    BY <1>1 DEF ClaimedIsPending, PendingInv, PendingIsLevelAndEnabled
  <1>3. ASSUME UNCHANGED <<claimed, enable, level>> PROVE (claimed[d] \subseteq enable[d] \cap level)'
    BY <1>2, <1>3
  <1>4. ASSUME NEW c \in Contexts, NEW S \in SUBSET Sources, WriteEnable(c, S)
        PROVE  (claimed[d] \subseteq enable[d] \cap level)'
    <2>1. /\ enable' = [enable EXCEPT ![c] = S] /\ level' = level
          /\ claimed' = [claimed EXCEPT ![c] = @ \ (enable[c] \ S)]
      BY <1>4 DEF WriteEnable
    <2>2. QED  BY <1>2, <2>1 DEF TypeOK
  <1>5. ASSUME NEW c \in Contexts, Claim(c) PROVE (claimed[d] \subseteq enable[d] \cap level)'
    <2>1. /\ claimed' = [claimed EXCEPT ![c] = @ \cup ({BestPending(c)} \cap Sources)]
          /\ UNCHANGED <<enable, level>>
      BY <1>5 DEF Claim
    <2>2. {BestPending(c)} \cap Sources \subseteq pending[c]
      <3>1. pending[c] \ claimed[c] \in SUBSET Sources /\ pendingPriority[c] \in [Sources -> Priorities]
        BY DEF TypeOK
      <3>2. BestPending(c) = NoSource \/ BestPending(c) \in pending[c] \ claimed[c]
        BY <3>1, BestIsBest DEF BestPending
      <3>3. NoSource \notin Sources  BY PlicAssumption DEF NoSource, Sources
      <3>4. QED  BY <3>2, <3>3
    <2>3. QED  BY <1>2, <2>1, <2>2 DEF TypeOK
  <1>6. ASSUME NEW c \in Contexts, NEW s \in Sources, Complete(c, s)
        PROVE  (claimed[d] \subseteq enable[d] \cap level)'
    BY <1>2, <1>6 DEF Complete, TypeOK
  <1>6a. ASSUME NEW c \in Contexts, WriteElsewhere(c)
        PROVE  (claimed[d] \subseteq enable[d] \cap level)'
    BY <1>3, <1>6a DEF WriteElsewhere, contextVars
  <1>7. ASSUME NEW s \in Sources, Raise(s) PROVE (claimed[d] \subseteq enable[d] \cap level)'
    BY <1>2, <1>7 DEF Raise
  <1>8. ASSUME NEW s \in Sources, Lower(s) PROVE (claimed[d] \subseteq enable[d] \cap level)'
    <2>1. /\ level' = level \ {s} /\ enable' = enable
          /\ claimed'[d] = IF d \in FirstEnabling(s) THEN claimed[d] \ {s} ELSE claimed[d]
      BY <1>8 DEF Lower, ClaimedOnceLowered
    <2>2. d \in FirstEnabling(s) <=> s \in enable[d]
      BY <1>1, FirstIsOnly DEF PendingInv
    <2>3. QED  BY <1>2, <2>1, <2>2
  <1>9. QED
    BY <1>3, <1>4, <1>5, <1>6, <1>6a, <1>7, <1>8
    DEF Next, WritePriority, WriteThreshold, WriteMip, vars, contextVars

(* As long as software enables a source for one context at most, a source  *)
(* in service is asserted, enabled, and in service nowhere else.           *)
THEOREM ServiceCurrent == Spec => []ServiceIsCurrent
  <1> DEFINE Inv == PendingInv /\ ClaimedIsPending
  <1>1. Init => Inv
    BY DEF Init, PendingInv, EnabledOnce, PendingIsLevelAndEnabled, ClaimedIsPending
  <1>2. TypeOK /\ Inv /\ [Next]_vars => Inv'
    BY PendingKept, ClaimedKept
  <1>3. Inv => ServiceIsCurrent
    BY DEF PendingInv, EnabledOnce, ClaimedIsPending, PendingIsLevelAndEnabled, ServiceIsCurrent
  <1>4. QED
    <2> HIDE DEF Inv
    <2>1. QED  BY <1>1, <1>2, <1>3, PlicTypeCorrect, PTL DEF Spec

-----------------------------------------------------------------------------
(* Two contexts never share a pin of the device tree.                      *)
LEMMA DeviceTreePinsDiffer ==
  ASSUME NEW c \in Contexts, NEW d \in Contexts,
         DeviceTreePin(c) = DeviceTreePin(d)
  PROVE  c = d
  <1>1. c \in Int /\ d \in Int  BY PlicConstants
  <1>2. c \div 2 = d \div 2 /\ (c % 2 = 0 <=> d % 2 = 0)
    BY DEF DeviceTreePin
  <1>3. QED  BY <1>1, <1>2, SMT

(* What a context finds to claim depends on its own registers only.        *)
LEMMA BestPendingKept ==
  ASSUME NEW c \in Contexts, pending'[c] = pending[c], claimed'[c] = claimed[c],
         pendingPriority'[c] = pendingPriority[c]
  PROVE  BestPending(c)' = BestPending(c)
  BY DEF BestPending

(* A context that drives its pin settles, and disturbs no other one.       *)
LEMMA UpdateKeepsRouting ==
  ASSUME \A c \in Contexts : Pin(c) = DeviceTreePin(c),
         TypeOK, RoutedByDeviceTree, NEW c \in Contexts, Update(c),
         UNCHANGED <<pending, pendingPriority>>,
         \A d \in Contexts \ {c} : claimed'[d] = claimed[d]
  PROVE  RoutedByDeviceTree'
  <1>1. SUFFICES ASSUME NEW d \in settled'
                 PROVE  DeviceTreePin(d) \in mip' <=> BestPending(d)' # NoSource
    BY DEF RoutedByDeviceTree
  <1>2. d \in Contexts  BY UpdateType
  <1>3. mip' = IF BestPending(c)' # NoSource THEN mip \cup {DeviceTreePin(c)}
               ELSE mip \ {DeviceTreePin(c)}
    BY DEF Update
  <1>4. CASE d = c
    BY <1>3, <1>4
  <1>5. CASE d # c
    <2>1. d \in settled  BY <1>1, <1>5 DEF Update
    <2>2. DeviceTreePin(d) # DeviceTreePin(c)
      BY <1>2, <1>5, DeviceTreePinsDiffer
    <2>3. BestPending(d)' = BestPending(d)
      BY <1>2, <1>5, BestPendingKept
    <2>4. DeviceTreePin(d) \in mip <=> BestPending(d) # NoSource
      BY <2>1 DEF RoutedByDeviceTree
    <2>5. QED  BY <1>3, <2>2, <2>3, <2>4
  <1>6. QED  BY <1>4, <1>5

(* A step that drives no pin unsettles every context whose registers it    *)
(* changes.                                                                *)
LEMMA QuietKeepsRouting ==
  ASSUME TypeOK, RoutedByDeviceTree, mip' = mip, settled' \subseteq settled,
         \A d \in settled' : /\ pending'[d] = pending[d]
                             /\ claimed'[d] = claimed[d]
                             /\ pendingPriority'[d] = pendingPriority[d]
  PROVE  RoutedByDeviceTree'
  <1>1. SUFFICES ASSUME NEW d \in settled'
                 PROVE  DeviceTreePin(d) \in mip' <=> BestPending(d)' # NoSource
    BY DEF RoutedByDeviceTree
  <1>2. d \in Contexts /\ d \in settled  BY <1>1 DEF TypeOK
  <1>3. BestPending(d)' = BestPending(d)  BY <1>1, <1>2, BestPendingKept
  <1>4. QED  BY <1>2, <1>3 DEF RoutedByDeviceTree

(* What is wrong with the pins of two harts is their numbers and nothing   *)
(* else: wherever the pin that the constructor gives a context is the one  *)
(* that the device tree announces, as it is for one hart, the last access  *)
(* to a context leaves its pin set if and only if a source waits there     *)
(* unclaimed.  This is what the code does, not what the threshold of a     *)
(* context is for: a source that does not exceed it sets the pin as well.  *)
THEOREM PinsTellTheTruth ==
  ASSUME \A c \in Contexts : Pin(c) = DeviceTreePin(c)
  PROVE  Spec => []RoutedByDeviceTree
  <1>1. Init => RoutedByDeviceTree
    BY DEF Init, RoutedByDeviceTree
  <1>2. TypeOK /\ RoutedByDeviceTree /\ [Next]_vars => RoutedByDeviceTree'
    <2>1. SUFFICES ASSUME TypeOK, RoutedByDeviceTree, [Next]_vars
                   PROVE  RoutedByDeviceTree'
      OBVIOUS
    <2>2. ASSUME NEW s \in Sources, NEW x \in Priorities, WritePriority(s, x)
          PROVE  RoutedByDeviceTree'
      BY <2>1, <2>2, QuietKeepsRouting DEF WritePriority, contextVars
    <2>3. ASSUME NEW c \in Contexts, NEW x \in Priorities, WriteThreshold(c, x)
          PROVE  RoutedByDeviceTree'
      BY <2>1, <2>3, QuietKeepsRouting DEF WriteThreshold
    <2>4. ASSUME NEW c \in Contexts, NEW S \in SUBSET Sources, WriteEnable(c, S)
          PROVE  RoutedByDeviceTree'
      <3>1. mip' = mip /\ settled' = settled \ {c}  BY <2>4 DEF WriteEnable
      <3>2. \A d \in Contexts \ {c} : /\ pending'[d] = pending[d]
                                      /\ claimed'[d] = claimed[d]
                                      /\ pendingPriority'[d] = pendingPriority[d]
        BY <2>1, <2>4 DEF WriteEnable, TypeOK
      <3>3. settled \subseteq Contexts  BY <2>1 DEF TypeOK
      <3>4. QED  BY <2>1, <3>1, <3>2, <3>3, QuietKeepsRouting
    <2>5. ASSUME NEW c \in Contexts, Claim(c) PROVE RoutedByDeviceTree'
      BY <2>1, <2>5, UpdateKeepsRouting DEF Claim, TypeOK
    <2>6. ASSUME NEW c \in Contexts, NEW s \in Sources, Complete(c, s)
          PROVE  RoutedByDeviceTree'
      BY <2>1, <2>6, UpdateKeepsRouting DEF Complete, TypeOK
    <2>6a. ASSUME NEW c \in Contexts, WriteElsewhere(c) PROVE RoutedByDeviceTree'
      BY <2>1, <2>6a, UpdateKeepsRouting DEF WriteElsewhere, contextVars, TypeOK
    <2>7. ASSUME NEW s \in Sources, Raise(s) \/ Lower(s)
          PROVE  RoutedByDeviceTree'
      <3>1. mip' = mip /\ settled' = settled \ FirstEnabling(s)
        BY <2>7 DEF Raise, Lower
      <3>2. \A d \in Contexts \ FirstEnabling(s) :
              /\ pending'[d] = pending[d]
              /\ claimed'[d] = claimed[d]
              /\ pendingPriority'[d] = pendingPriority[d]
        BY <2>1, <2>7 DEF Raise, Lower, TypeOK
      <3>3. settled \subseteq Contexts  BY <2>1 DEF TypeOK
      <3>4. QED  BY <2>1, <3>1, <3>2, <3>3, QuietKeepsRouting
    <2>8. ASSUME NEW h \in Harts, NEW bits \in SUBSET {"MEIP", "SEIP"},
                 WriteMip(h, bits)
          PROVE  RoutedByDeviceTree'
      <3>1. SUFFICES ASSUME NEW d \in settled'
                     PROVE  DeviceTreePin(d) \in mip' <=> BestPending(d)' # NoSource
        BY DEF RoutedByDeviceTree
      <3>2. d \in settled /\ d \in Contexts /\ DeviceTreePin(d)[1] # h
        BY <2>1, <2>8, <3>1 DEF WriteMip, TypeOK
      <3>3. DeviceTreePin(d) \in mip' <=> DeviceTreePin(d) \in mip
        <4>1. DeviceTreePin(d) \notin {h} \X bits
          BY <3>2
        <4>2. mip' = {pin \in mip : pin[1] # h} \cup ({h} \X bits)
          BY <2>8 DEF WriteMip
        <4>3. QED  BY <3>2, <4>1, <4>2
      <3>4. BestPending(d)' = BestPending(d)
        BY <2>8, <3>2, BestPendingKept DEF WriteMip, contextVars
      <3>5. QED  BY <2>1, <3>2, <3>3, <3>4 DEF RoutedByDeviceTree
    <2>9. CASE UNCHANGED vars
      BY <2>1, <2>9, QuietKeepsRouting DEF vars, contextVars
    <2>10. QED
      BY <2>1, <2>2, <2>3, <2>4, <2>5, <2>6, <2>6a, <2>7, <2>8, <2>9 DEF Next
  <1>3. QED  BY <1>1, <1>2, PlicTypeCorrect, PTL DEF Spec

(***************************************************************************)
(* The serial port                                                         *)
(***************************************************************************)

(* The registers have their types and the line follows the queue, whatever *)
(* the size of the queue.                                                  *)
UartInv == UartTypeOK /\ LineFollowsQueue

LEMMA UartInitInv == UartInit => UartInv
<1> SUFFICES ASSUME UartInit PROVE UartInv
  OBVIOUS
<1>1. 0 \in 0 .. QueueSize /\ ~(0 > 0)
  BY UartAssumption
<1> QED
  BY <1>1, Zenon DEF UartInit, UartInv, UartTypeOK, LineFollowsQueue

(* update_interrupt makes the line right whenever data ready already is    *)
LEMMA UpdateKeepsLine ==
  ASSUME NEW count \in 0 .. QueueSize, NEW ready \in BOOLEAN,
         NEW enabled \in SUBSET {"RDI", "THRI"}, NEW clear \in BOOLEAN,
         ready <=> count > 0,
         UpdateInterrupt(count, ready, enabled, clear)
  PROVE  /\ rxCount' \in 0 .. QueueSize /\ dataReady' \in BOOLEAN /\ line' \in BOOLEAN
         /\ ier' \in SUBSET {"RDI", "THRI"} /\ iir' \in SUBSET {"RDI", "THRI"}
         /\ LineFollowsQueue'
<1>1. /\ rxCount' = IF clear THEN 0 ELSE count
      /\ dataReady' = (ready /\ ~clear)
      /\ ier' = enabled
      /\ line' = (iir' # {})
      /\ iir' = {cause \in enabled : cause = "RDI" => (ready /\ ~clear)}
  BY Zenon DEF UpdateInterrupt
<1>2. rxCount' \in 0 .. QueueSize /\ (rxCount' > 0 <=> count > 0 /\ ~clear)
  BY <1>1, UartAssumption
<1>3. dataReady' <=> ready /\ ~clear
  BY <1>1, Zenon
<1>4. iir' \in SUBSET {"RDI", "THRI"}
  BY <1>1, Zenon
<1>5. iir' # {} <=> ("RDI" \in enabled /\ ready /\ ~clear) \/ "THRI" \in enabled
  <2>1. "RDI" \in iir' <=> "RDI" \in enabled /\ ready /\ ~clear
    BY <1>1, Zenon
  <2>2. "THRI" # "RDI"
    OBVIOUS
  <2>3. "THRI" \in iir' <=> "THRI" \in enabled
    BY <1>1, <2>2, Zenon
  <2> QED
    BY <1>4, <2>1, <2>3, Zenon
<1> QED
  BY <1>1, <1>2, <1>3, <1>4, <1>5, Zenon DEF LineFollowsQueue

LEMMA UartStepInv == UartInv /\ [UartNext]_uartVars => UartInv'
<1> SUFFICES ASSUME UartInv, [UartNext]_uartVars PROVE UartInv'
  OBVIOUS
<1> USE UartAssumption DEF UartInv, UartTypeOK
<1>0. dataReady <=> rxCount > 0
  BY DEF LineFollowsQueue
<1>1. CASE LoadReceiveBuffer
  <2>1. CASE dlab
    BY <1>0, <1>1, <2>1, UpdateKeepsLine DEF LoadReceiveBuffer
  <2>2. CASE ~dlab /\ rxCount = 0
    <3>1. UpdateInterrupt(0, FALSE, ier, FALSE)
      BY <1>1, <2>2 DEF LoadReceiveBuffer
    <3>2. 0 \in 0 .. QueueSize /\ (FALSE <=> 0 > 0)
      OBVIOUS
    <3> QED
      BY <1>1, <3>1, <3>2, UpdateKeepsLine DEF LoadReceiveBuffer
  <2>3. CASE ~dlab /\ rxCount # 0
    <3>1. UpdateInterrupt(rxCount - 1, dataReady /\ rxCount > 1, ier, FALSE)
      BY <1>1, <2>3 DEF LoadReceiveBuffer
    <3>2. /\ rxCount - 1 \in 0 .. QueueSize
          /\ (dataReady /\ rxCount > 1) <=> rxCount - 1 > 0
      BY <1>0, <2>3
    <3> QED
      BY <1>1, <3>1, <3>2, UpdateKeepsLine DEF LoadReceiveBuffer
  <2> QED
    BY <2>1, <2>2, <2>3
<1>2. CASE StoreTransmitBuffer
  <2>1. CASE ~dlab /\ loopback /\ rxCount < QueueSize
    <3>1. UpdateInterrupt(rxCount + 1, TRUE, ier, FALSE)
      BY <1>2, <2>1 DEF StoreTransmitBuffer
    <3>2. rxCount + 1 \in 0 .. QueueSize /\ rxCount + 1 > 0
      BY <2>1
    <3> QED
      BY <1>2, <3>1, <3>2, UpdateKeepsLine DEF StoreTransmitBuffer
  <2>2. CASE ~(~dlab /\ loopback /\ rxCount < QueueSize)
    BY <1>0, <1>2, <2>2, UpdateKeepsLine DEF StoreTransmitBuffer
  <2> QED
    BY <2>1, <2>2
<1>3. ASSUME NEW enabled \in SUBSET {"RDI", "THRI"}, StoreInterruptEnable(enabled)
      PROVE  UartInv'
  <2>1. (IF dlab THEN ier ELSE enabled) \in SUBSET {"RDI", "THRI"}
    OBVIOUS
  <2> QED
    BY <1>0, <1>3, <2>1, UpdateKeepsLine DEF StoreInterruptEnable
<1>4. ASSUME NEW enabled \in BOOLEAN, StoreFifoControl(enabled) PROVE UartInv'
  BY <1>0, <1>4, UpdateKeepsLine DEF StoreFifoControl
<1>5. ASSUME NEW divisorLatch \in BOOLEAN, NEW bit1 \in BOOLEAN,
             StoreLineControl(divisorLatch, bit1)
      PROVE  UartInv'
  BY <1>0, <1>5, UpdateKeepsLine DEF StoreLineControl
<1>6. ASSUME NEW loop \in BOOLEAN, StoreModemControl(loop) PROVE UartInv'
  BY <1>0, <1>6, UpdateKeepsLine DEF StoreModemControl
<1>7. CASE UartTick
  <2>1. rxCount + 1 \in 0 .. QueueSize /\ rxCount + 1 > 0
    BY <1>7 DEF UartTick
  <2> QED
    BY <1>7, <2>1, UpdateKeepsLine DEF UartTick
<1>8. CASE UNCHANGED uartVars
  BY <1>8 DEF uartVars, LineFollowsQueue
<1> QED
  BY <1>1, <1>2, <1>3, <1>4, <1>5, <1>6, <1>7, <1>8 DEF UartNext

(* Registers keep their types and the queue its size; the interrupt line   *)
(* follows the queue and the enable bits.                                  *)
THEOREM UartTypeCorrect == UartSpec => []UartTypeOK
<1>1. UartInit => UartInv
  BY UartInitInv
<1>2. UartInv /\ [UartNext]_uartVars => UartInv'
  BY UartStepInv
<1>3. UartInv => UartTypeOK
  BY DEF UartInv
<1> QED
  BY <1>1, <1>2, <1>3, PTL DEF UartSpec

(* For every queue size, the line is high exactly when there is a cause.   *)
THEOREM UartLineFollowsQueue == UartSpec => []LineFollowsQueue
<1>1. UartInit => UartInv
  BY UartInitInv
<1>2. UartInv /\ [UartNext]_uartVars => UartInv'
  BY UartStepInv
<1>3. UartInv => LineFollowsQueue
  BY DEF UartInv
<1> QED
  BY <1>1, <1>2, <1>3, PTL DEF UartSpec
-----------------------------------------------------------------------------
(* The flags that outlive a step cover at least what the last one did      *)
CosimInv ==
  /\ CosimTypeOK
  /\ lastStep = "illegal" => trapIllegal
  /\ lastStep \in {"trapped", "interrupted"} => trapInstr
  /\ trapIllegal \/ reportedIllegal => illegalSeen
  /\ ReportsTruthful

(* A step of the hart sets the flags that speak of it, and keeps the others
   or clears them                                                          *)
LEMMA HartStepFlags ==
  ASSUME CosimInv, HartStep
  PROVE  /\ currentInstruction' \in InstructionKinds /\ supervisor' \in BOOLEAN
         /\ lastStep' \in Outcomes /\ illegalSeen' \in BOOLEAN
         /\ trapIllegal' \in BOOLEAN /\ trapInstr' \in BOOLEAN
         /\ lastStep' = "illegal" => trapIllegal'
         /\ lastStep' \in {"trapped", "interrupted"} => trapInstr'
         /\ trapIllegal' \/ reportedIllegal => illegalSeen'
<1>1. PICK outcome \in Outcomes, cached \in BOOLEAN :
        /\ lastStep' = outcome
        /\ IF outcome = "interrupted" THEN UNCHANGED currentInstruction
                                      ELSE currentInstruction' \in InstructionKinds
        /\ trapIllegal' = (outcome = "illegal"
                            \/ ((cached \/ outcome = "interrupted") /\ trapIllegal))
        /\ trapInstr' = (outcome \in {"trapped", "interrupted"}
                            \/ ((cached \/ outcome = "interrupted") /\ trapInstr))
        /\ illegalSeen' = (illegalSeen \/ outcome = "illegal")
  BY Zenon DEF HartStep
<1>2. currentInstruction' \in InstructionKinds
  BY <1>1, Zenon DEF CosimInv, CosimTypeOK
<1>3. supervisor' \in BOOLEAN
  BY Zenon DEF HartStep
<1> QED
  BY <1>1, <1>2, <1>3, Zenon DEF CosimInv, CosimTypeOK

LEMMA CosimStepInv == CosimInv /\ [CosimNext]_cosimVars => CosimInv'
<1> SUFFICES ASSUME CosimInv, [CosimNext]_cosimVars PROVE CosimInv'
  OBVIOUS
<1>1. ASSUME RunUntilVector \/ StepOn \/ Inject PROVE CosimInv'
  <2>1. HartStep /\ UNCHANGED <<reportedIllegal, excBit, answer>>
    BY <1>1, Zenon DEF RunUntilVector, StepOn, Inject
  <2>2. call' \in {"running", "injecting"} /\ call' # "none"
    BY <1>1 DEF RunUntilVector, StepOn, Inject
  <2> QED
    BY <2>1, <2>2, HartStepFlags, Zenon DEF CosimInv, CosimTypeOK, ReportsTruthful
<1>2. CASE EndTest
  BY <1>2 DEF EndTest, CosimInv, CosimTypeOK, ReportsTruthful
<1>3. CASE ReportVector
  <2>1. currentInstruction = "vector" /\ ~supervisor
    BY <1>3, Zenon DEF ReportVector, NotYet
  <2>2. PICK tooWide \in BOOLEAN : /\ reportedIllegal' = (trapIllegal \/ tooWide)
                                   /\ illegalSeen' = (illegalSeen \/ tooWide)
    BY <1>3, Zenon DEF ReportVector
  <2>3. /\ call' = "none" /\ answer' \in {"error", "report"} /\ answer' # "injected"
        /\ answer' = "report" => ~(trapInstr /\ ~reportedIllegal')
        /\ UNCHANGED <<currentInstruction, supervisor, trapIllegal, trapInstr, excBit, lastStep>>
    BY <1>3 DEF ReportVector
  <2>4. trapIllegal \/ reportedIllegal' => illegalSeen'
    BY <2>2, Zenon DEF CosimInv
  <2>5. reportedIllegal' \in BOOLEAN /\ illegalSeen' \in BOOLEAN
    BY <2>2, Zenon
  <2>6. ASSUME answer' = "report", ~illegalSeen' PROVE lastStep = "executed"
    <3>1. ~trapIllegal /\ ~trapInstr
      BY <2>3, <2>4, <2>6, Zenon
    <3> QED
      BY <3>1, Zenon DEF CosimInv, CosimTypeOK, Outcomes
  <2>7. ReportsTruthful'
    BY <2>1, <2>3, <2>6, Zenon DEF ReportsTruthful
  <2>8. CosimTypeOK'
    BY <2>3, <2>5, Zenon DEF CosimInv, CosimTypeOK
  <2> QED
    BY <2>3, <2>4, <2>7, <2>8, Zenon DEF CosimInv
<1>4. CASE ReportInjected
  <2>1. PICK tooWide \in BOOLEAN : /\ reportedIllegal' = (trapIllegal \/ tooWide)
                                   /\ illegalSeen' = (illegalSeen \/ tooWide)
    BY <1>4, Zenon DEF ReportInjected
  <2>2. /\ call' = "none" /\ answer' = "injected" /\ answer' # "report"
        /\ excBit' = (trapIllegal \/ trapInstr)
        /\ UNCHANGED <<currentInstruction, supervisor, trapIllegal, trapInstr, lastStep>>
    BY <1>4 DEF ReportInjected
  <2>3. trapIllegal \/ reportedIllegal' => illegalSeen'
    BY <2>1, Zenon DEF CosimInv
  <2>4. reportedIllegal' \in BOOLEAN /\ illegalSeen' \in BOOLEAN /\ excBit' \in BOOLEAN
    BY <2>1, <2>2, Zenon
  <2>5. lastStep # "executed" => excBit'
    BY <2>2, Zenon DEF CosimInv, CosimTypeOK, Outcomes
  <2>6. ReportsTruthful'
    BY <2>2, <2>5, Zenon DEF ReportsTruthful
  <2>7. CosimTypeOK'
    BY <2>2, <2>4, Zenon DEF CosimInv, CosimTypeOK
  <2> QED
    BY <2>2, <2>3, <2>6, <2>7, Zenon DEF CosimInv
<1>5. CASE UNCHANGED cosimVars
  BY <1>5, Zenon DEF cosimVars, CosimInv, CosimTypeOK, ReportsTruthful
<1> QED
  BY <1>1, <1>2, <1>3, <1>4, <1>5 DEF CosimNext

LEMMA CosimInitInv == CosimInit => CosimInv
BY DEF CosimInit, CosimInv, CosimTypeOK, ReportsTruthful, InstructionKinds, Outcomes

(* A report that shows no error is of a vector instruction that the last   *)
(* step executed, and an injection that trapped says so.                   *)
THEOREM CosimReportsTruthful == CosimSpec => []ReportsTruthful
<1>1. CosimInit => CosimInv
  BY CosimInitInv
<1>2. CosimInv /\ [CosimNext]_cosimVars => CosimInv'
  BY CosimStepInv
<1>3. CosimInv => ReportsTruthful
  BY DEF CosimInv
<1> QED
  BY <1>1, <1>2, <1>3, PTL DEF CosimSpec

(***************************************************************************)
(* Remainders, by a number that is not a constant.                         *)
(***************************************************************************)
LEMMA ModRange ==
  ASSUME NEW m \in Nat \ {0}, NEW x \in Int PROVE x % m \in 0 .. m - 1
  BY SMT

LEMMA ModOfSmall ==
  ASSUME NEW m \in Nat \ {0}, NEW x \in 0 .. m - 1 PROVE x % m = x
  BY SMT

LEMMA ModOfSum ==
  ASSUME NEW m \in Nat \ {0}, NEW q \in Int, NEW r \in 0 .. m - 1 PROVE (m * q + r) % m = r
  BY SMTT(60)

LEMMA ModQuotient ==
  ASSUME NEW m \in Nat, m > 0, NEW x \in Int PROVE \E q \in Int : x = m * q + (x % m)
  BY SMTT(60)

LEMMA ModSuccessor ==
  ASSUME NEW m \in Nat \ {0}, NEW x \in Int PROVE ((x % m) + 1) % m = (x + 1) % m
<1>1. PICK q \in Int : x = m * q + (x % m)
  <2>1. m \in Nat /\ m > 0
    OBVIOUS
  <2> QED
    BY <2>1, ModQuotient
<1> DEFINE r == x % m
<1>2. r \in 0 .. m - 1
  BY ModRange
<1>3. x = m * q + r
  BY <1>1
<1> HIDE DEF r
<1>4. CASE r + 1 < m
  <2>1. r + 1 \in 0 .. m - 1 /\ x + 1 = m * q + (r + 1)
    BY <1>2, <1>3, <1>4
  <2>2. (x + 1) % m = r + 1
    BY <2>1, ModOfSum
  <2>3. (r + 1) % m = r + 1
    BY <2>1, ModOfSmall
  <2> QED
    BY <2>2, <2>3 DEF r
<1>5. CASE r + 1 = m
  <2>1. x + 1 = m * (q + 1) + 0 /\ r + 1 = m * 1 + 0
    BY <1>2, <1>3, <1>5
  <2>2. (x + 1) % m = 0
    <3>1. 0 \in 0 .. m - 1 /\ q + 1 \in Int
      OBVIOUS
    <3> QED
      BY <2>1, <3>1, ModOfSum
  <2>3. (r + 1) % m = 0
    <3>1. 0 \in 0 .. m - 1 /\ 1 \in Int
      OBVIOUS
    <3> QED
      BY <2>1, <3>1, ModOfSum
  <2> QED
    BY <2>2, <2>3 DEF r
<1> QED
  BY <1>2, <1>4, <1>5

(***************************************************************************)
(* Counters.                                                               *)
(***************************************************************************)

(* A CSR instruction that was fetched again finds the inner loop just      *)
(* entered, unless the interrupt came that leaks `serialized`.  With a     *)
(* quantum of one that interrupt has no time to come.                      *)
CountersFlow ==
  /\ quantum \in Nat \ {0} /\ at \in {"outside", "head", "inside"}
  /\ n \in Nat /\ instret \in Nat /\ n <= quantum
  /\ serialized \in BOOLEAN /\ leaked \in BOOLEAN /\ skewed \in BOOLEAN
  /\ IF at = "inside" THEN instret < n ELSE instret = 0
  /\ at = "head" => n > 0
  /\ serialized /\ ~leaked => instret = 0
  /\ quantum = 1 => /\ ~leaked /\ ~skewed
                    /\ at = "inside" => ~unseen
                    /\ serialized => at # "outside" /\ (at = "head" => ~unseen)

(* What has been retired and not yet added is all that a counter lacks.    *)
CountersValue ==
  /\ counter \in Values /\ ideal \in Values
  /\ ~skewed => Plus(counter, instret) = ideal
  /\ ~misread

(* How adding to a counter composes.                                       *)
LEMMA PlusFacts ==
  /\ \A v \in Values : \A k \in Nat : Plus(v, k) \in Values
  /\ \A v \in Values : Plus(v, 0) = v
  /\ \A v \in Values : \A k \in Nat : Plus(Plus(v, k), 1) = Plus(v, k + 1)
  /\ \A v \in Values : Plus(v, -1) \in Values /\ Plus(Plus(v, -1), 1) = v
<1>1. CounterSize \in Nat \ {0}
  BY CountersAssumption
<1>2. \A v \in Values : v \in Int /\ v \in 0 .. CounterSize - 1
  BY <1>1 DEF Values
<1>3. \A v \in Values : \A k \in Nat : Plus(v, k) \in Values
  BY <1>1, <1>2, ModRange DEF Plus, Values
<1>4. ASSUME NEW v \in Values PROVE Plus(v, 0) = v
  <2>1. v + 0 = v
    BY <1>2
  <2> QED
    BY <1>1, <1>2, <2>1, ModOfSmall DEF Plus
<1>5. ASSUME NEW v \in Values, NEW k \in Nat PROVE Plus(Plus(v, k), 1) = Plus(v, k + 1)
  <2>1. v + k \in Int /\ (v + k) + 1 = v + (k + 1)
    BY <1>2
  <2> QED
    BY <1>1, <2>1, ModSuccessor DEF Plus
<1>6. ASSUME NEW v \in Values PROVE Plus(v, -1) \in Values /\ Plus(Plus(v, -1), 1) = v
  <2>1. v + -1 \in Int /\ (v + -1) + 1 = v
    BY <1>2
  <2>2. Plus(v, -1) \in Values
    BY <1>1, <2>1, ModRange DEF Plus, Values
  <2>3. (((v + -1) % CounterSize) + 1) % CounterSize = ((v + -1) + 1) % CounterSize
    BY <1>1, <2>1, ModSuccessor
  <2>4. v % CounterSize = v
    BY <1>1, <1>2, ModOfSmall
  <2> QED
    BY <2>1, <2>2, <2>3, <2>4 DEF Plus
<1> QED
  BY <1>3, <1>4, <1>5, <1>6

(* What leaving the inner loop does; a quantum of one is used up by one    *)
(* instruction.                                                            *)
LEMMA LeaveFlow ==
  ASSUME CountersFlow, at = "inside", NEW value, NEW retired \in {instret, instret + 1},
         NEW ended \in BOOLEAN, Leave(value, retired, ended)
  PROVE  /\ n' \in Nat /\ n' <= n /\ instret' = 0
         /\ at' \in {"outside", "head"} /\ (at' = "head" => n' > 0)
         /\ quantum = 1 /\ retired = instret + 1 => at' = "outside"
<1>1. retired \in Nat /\ retired <= n /\ n \in Nat
  BY DEF CountersFlow
<1>2. quantum = 1 => n = 1 /\ instret = 0
  BY DEF CountersFlow
<1>3. n' = IF ended THEN 0 ELSE n - retired
  BY DEF Leave
<1>4. at' = IF n' = 0 THEN "outside" ELSE "head"
  BY DEF Leave
<1>5. instret' = 0
  BY DEF Leave
<1> QED
  BY <1>1, <1>2, <1>3, <1>4, <1>5

(* The loop comes by its places in the order that CountersFlow says.       *)
LEMMA CountersStepFlow == CountersFlow /\ [CountersNext]_countersVars => CountersFlow'
<1> SUFFICES ASSUME CountersFlow, [CountersNext]_countersVars PROVE CountersFlow'
  OBVIOUS
<1>1. CASE CallStep
  BY <1>1 DEF CallStep, CountersFlow
<1>2. CASE EnterInnerLoop
  BY <1>2 DEF EnterInnerLoop, CountersFlow
<1>3. CASE Interrupted
  BY <1>3 DEF Interrupted, Leave, CountersFlow
<1>4. CASE Retire
  <2>1. CASE instret + 1 < n
    BY <1>4, <2>1 DEF Retire, FetchesAny, CountersFlow
  <2>2. CASE ~(instret + 1 < n)
    BY <1>4, <2>2 DEF Retire, FetchesAny, Leave, CountersFlow
  <2> QED
    BY <2>1, <2>2
<1>5. CASE Abandon
  BY <1>5 DEF Abandon, FetchesAny, Leave, CountersFlow
<1>6. CASE RetireAndLeave
  BY <1>6 DEF RetireAndLeave, FetchesAny, Leave, CountersFlow
<1>7. CASE SerializeBefore
  BY <1>7 DEF SerializeBefore, Leave, CountersFlow
<1>8. CASE ReadCounter
  <2>1. /\ n' \in Nat /\ n' <= n /\ instret' = 0
        /\ at' \in {"outside", "head"} /\ (at' = "head" => n' > 0)
        /\ quantum = 1 => at' = "outside"
    <3>1. at = "inside"
      BY <1>8 DEF ReadCounter, MayAccess
    <3> QED
      BY <1>8, <3>1, LeaveFlow DEF ReadCounter, CountersFlow
  <2>2. /\ serialized' = FALSE /\ leaked' = FALSE /\ quantum' = quantum
        /\ skewed' \in BOOLEAN /\ (quantum = 1 => ~leaked' /\ ~skewed')
    BY <1>8 DEF ReadCounter, CountersFlow
  <2>3. n' <= quantum' /\ quantum' \in Nat \ {0} /\ instret' \in Nat /\ at' # "inside"
    BY <2>1, <2>2 DEF CountersFlow
  <2>4. ~serialized' /\ serialized' \in BOOLEAN /\ leaked' \in BOOLEAN
    BY <2>2
  <2> QED
    BY <2>1, <2>2, <2>3, <2>4 DEF CountersFlow
<1>9. ASSUME NEW value \in Values, WriteCounter(value) PROVE CountersFlow'
  <2>1. /\ n' \in Nat /\ n' <= n /\ instret' = 0
        /\ at' \in {"outside", "head"} /\ (at' = "head" => n' > 0)
        /\ quantum = 1 => at' = "outside"
    <3>1. at = "inside"
      BY <1>9 DEF WriteCounter, MayAccess
    <3> QED
      BY <1>9, <3>1, LeaveFlow DEF WriteCounter, CountersFlow
  <2>2. /\ serialized' = FALSE /\ leaked' = FALSE /\ quantum' = quantum
        /\ skewed' \in BOOLEAN /\ (quantum = 1 => ~leaked' /\ ~skewed')
    BY <1>9 DEF WriteCounter, CountersFlow
  <2>3. n' <= quantum' /\ quantum' \in Nat \ {0} /\ instret' \in Nat /\ at' # "inside"
    BY <2>1, <2>2 DEF CountersFlow
  <2>4. ~serialized' /\ serialized' \in BOOLEAN /\ leaked' \in BOOLEAN
    BY <2>2
  <2> QED
    BY <2>1, <2>2, <2>3, <2>4 DEF CountersFlow
<1>10. CASE RefuseCsr
  <2>1. /\ n' \in Nat /\ n' <= n /\ instret' = 0
        /\ at' \in {"outside", "head"} /\ (at' = "head" => n' > 0)
        /\ quantum = 1 => at' \in {"outside", "head"}
    <3>1. at = "inside"
      BY <1>10 DEF RefuseCsr, MayAccess
    <3> QED
      BY <1>10, <3>1, LeaveFlow DEF RefuseCsr, CountersFlow
  <2>2. /\ serialized' = FALSE /\ leaked' = FALSE /\ quantum' = quantum
        /\ skewed' \in BOOLEAN /\ (quantum = 1 => ~leaked' /\ ~skewed')
    BY <1>10 DEF RefuseCsr, CountersFlow
  <2>3. n' <= quantum' /\ quantum' \in Nat \ {0} /\ instret' \in Nat /\ at' # "inside"
    BY <2>1, <2>2 DEF CountersFlow
  <2>4. ~serialized' /\ serialized' \in BOOLEAN /\ leaked' \in BOOLEAN
    BY <2>2
  <2> QED
    BY <2>1, <2>2, <2>3, <2>4 DEF CountersFlow
<1>11. CASE UNCHANGED countersVars
  BY <1>11 DEF countersVars, CountersFlow
<1> QED
  BY <1>1, <1>2, <1>3, <1>4, <1>5, <1>6, <1>7, <1>8, <1>9, <1>10, <1>11 DEF CountersNext

LEMMA CountersStepValue ==
  CountersFlow /\ CountersValue /\ [CountersNext]_countersVars => CountersValue'
<1> SUFFICES ASSUME CountersFlow, CountersValue, [CountersNext]_countersVars
             PROVE  CountersValue'
  OBVIOUS
<1>1. /\ instret \in Nat /\ instret + 1 \in Nat /\ counter \in Values /\ ideal \in Values
      /\ at # "inside" => instret = 0
      /\ 1 \in Nat /\ 0 \in Nat
  BY DEF CountersFlow, CountersValue
<1>2. /\ Plus(counter, instret) \in Values /\ Plus(counter, instret + 1) \in Values
      /\ Plus(ideal, 1) \in Values /\ Plus(counter, 0) = counter
      /\ Plus(Plus(counter, instret), 0) = Plus(counter, instret)
      /\ Plus(Plus(counter, instret + 1), 0) = Plus(counter, instret + 1)
      /\ Plus(Plus(counter, instret), 1) = Plus(counter, instret + 1)
  BY <1>1, PlusFacts
<1>3. ~skewed => Plus(counter, instret) = ideal
                 /\ Plus(counter, instret + 1) = Plus(ideal, 1)
  BY <1>2 DEF CountersValue
<1>4. CASE CallStep \/ EnterInnerLoop
  BY <1>1, <1>4 DEF CallStep, EnterInnerLoop, CountersValue, CountersFlow
<1>5. CASE Interrupted
  BY <1>1, <1>2, <1>3, <1>5 DEF Interrupted, Leave, CountersValue
<1>6. CASE Retire
  BY <1>1, <1>2, <1>3, <1>6 DEF Retire, Leave, CountersValue
<1>7. CASE Abandon
  BY <1>1, <1>2, <1>3, <1>7 DEF Abandon, Leave, CountersValue
<1>8. CASE RetireAndLeave
  BY <1>1, <1>2, <1>3, <1>8 DEF RetireAndLeave, Leave, CountersValue
<1>9. CASE SerializeBefore
  BY <1>1, <1>2, <1>3, <1>9 DEF SerializeBefore, Leave, CountersValue
<1>10. CASE ReadCounter
  \* Nothing is retired yet when the instruction reads, or the interrupt came.
  <2>1. serialized /\ ~leaked => instret = 0
    BY DEF CountersFlow
  <2>2. ~misread'
    BY <1>2, <1>3, <1>10, <2>1 DEF ReadCounter, MayAccess, CountersValue
  <2> QED
    BY <1>1, <1>2, <1>3, <1>10, <2>2 DEF ReadCounter, Leave, CountersValue
<1>11. ASSUME NEW value \in Values, WriteCounter(value) PROVE CountersValue'
  \* The bump that follows a write takes it to the value written.
  <2>1. /\ Plus(value, -1) \in Values /\ Plus(Plus(value, -1), 1) = value
        /\ Plus(value, 0) = value
        /\ Plus(Plus(value, -1), instret + 1) \in Values
    BY <1>1, PlusFacts
  <2>2. instret = 0 => instret + 1 = 1
    BY <1>1
  <2>3. ~skewed' => instret = 0
    BY <1>1, <1>11 DEF WriteCounter, MayAccess, CountersFlow
  <2> QED
    BY <1>1, <1>11, <2>1, <2>2, <2>3 DEF WriteCounter, Leave, CountersValue
<1>12. CASE RefuseCsr
  BY <1>1, <1>2, <1>3, <1>12 DEF RefuseCsr, Leave, CountersValue
<1>13. CASE UNCHANGED countersVars
  BY <1>13 DEF countersVars, CountersValue, Plus
<1> QED
  BY <1>4, <1>5, <1>6, <1>7, <1>8, <1>9, <1>10, <1>11, <1>12, <1>13 DEF CountersNext

LEMMA CountersInitInv == CountersInit => CountersFlow /\ CountersValue
<1>1. CounterSize \in Nat \ {0} /\ Quanta \subseteq Nat \ {0}
  BY CountersAssumption
<1>2. 0 \in Values
  BY <1>1 DEF Values
<1>3. Plus(0, 0) = 0
  BY <1>2, PlusFacts
<1>4. ASSUME CountersInit PROVE CountersFlow
  <2>1. quantum \in Nat \ {0} /\ n = 0 /\ n <= quantum /\ instret = 0 /\ at = "outside"
    BY <1>1, <1>4 DEF CountersInit
  <2>2. /\ ~serialized /\ ~leaked /\ ~skewed
        /\ serialized \in BOOLEAN /\ leaked \in BOOLEAN /\ skewed \in BOOLEAN
    BY <1>4 DEF CountersInit
  <2> QED
    BY <2>1, <2>2 DEF CountersFlow
<1>5. CountersInit => CountersValue
  BY <1>2, <1>3 DEF CountersInit, CountersValue
<1> QED
  BY <1>4, <1>5

(* Whatever the size of the counters and the quanta, instructions read     *)
(* exact counters, but for those whose fetches an interrupt has separated. *)
THEOREM CountersAreExact == CountersSpec => []CountersExact
<1>1. CountersFlow /\ CountersValue => CountersExact
  <2> SUFFICES ASSUME CountersFlow, CountersValue PROVE CountersExact
    OBVIOUS
  <2>1. counter \in Values /\ Plus(counter, 0) = counter
    BY PlusFacts DEF CountersValue
  <2> QED
    BY <2>1 DEF CountersFlow, CountersValue, CountersExact
<1> QED
  BY <1>1, CountersInitInv, CountersStepFlow, CountersStepValue, PTL DEF CountersSpec

(* What the types say beyond that                                          *)
CountersRest == quantum \in Quanta /\ unseen \in BOOLEAN /\ misread \in BOOLEAN
CountersInv == CountersFlow /\ CountersValue /\ CountersRest

LEMMA CountersStepInv == CountersInv /\ [CountersNext]_countersVars => CountersInv'
<1> SUFFICES ASSUME CountersInv, [CountersNext]_countersVars PROVE CountersInv'
  OBVIOUS
<1>1. quantum' = quantum
  BY DEF CountersNext, countersVars, CallStep, EnterInnerLoop, Interrupted, Retire, Abandon,
         RetireAndLeave, SerializeBefore, ReadCounter, WriteCounter, RefuseCsr
<1>2. unseen' \in {unseen, TRUE, FALSE}
  BY DEF CountersNext, countersVars, CallStep, EnterInnerLoop, Interrupted, Retire, Abandon,
         RetireAndLeave, SerializeBefore, ReadCounter, WriteCounter, RefuseCsr
<1>3. misread' = misread \/ ReadCounter
  BY DEF CountersNext, countersVars, CallStep, EnterInnerLoop, Interrupted, Retire, Abandon,
         RetireAndLeave, SerializeBefore, WriteCounter, RefuseCsr
<1>4. ReadCounter => misread' \in BOOLEAN
  BY Zenon DEF ReadCounter
<1>5. CountersRest'
  BY <1>1, <1>2, <1>3, <1>4, Zenon DEF CountersInv, CountersRest
<1> QED
  BY <1>5, CountersStepFlow, CountersStepValue DEF CountersInv

LEMMA CountersInvTypes == CountersInv => CountersTypeOK
<1> SUFFICES ASSUME CountersInv PROVE CountersTypeOK
  OBVIOUS
<1>1. MaxQuantum \in Quanta /\ \A r \in Quanta : r <= MaxQuantum
  BY CountersAssumption, Zenon DEF MaxQuantum
<1>2. MaxQuantum \in Nat /\ quantum \in Nat /\ quantum <= MaxQuantum
  BY <1>1, CountersAssumption DEF CountersInv, CountersRest
<1>3. n \in 0 .. MaxQuantum /\ instret \in 0 .. MaxQuantum
  BY <1>2 DEF CountersInv, CountersFlow
<1> QED
  BY <1>3, Zenon DEF CountersInv, CountersFlow, CountersValue, CountersRest, CountersTypeOK

(***************************************************************************)
(* System bus access.                                                      *)
(***************************************************************************)
SbTypes ==
  /\ sbaddress \in Addresses
  /\ promised \in Addresses \cup {Nothing}
  /\ sbaccess \in 0 .. 4
  /\ escaped \in BOOLEAN /\ deceived \in BOOLEAN
  /\ readondata \in BOOLEAN /\ autoincrement \in BOOLEAN /\ readonaddr \in BOOLEAN

(* Without an error a stream is on: the register holds what was promised,  *)
(* and the address is that of the word after it.                           *)
StreamOn ==
  /\ sbdata = promised /\ readondata /\ autoincrement /\ MaxAccess >= 0
  /\ sbaddress = <<promised[1], (promised[2] + Bytes) % LowerSize>>

StreamInv ==
  sberror = {} => ~deceived /\ (promised # Nothing /\ ~escaped => StreamOn)

LEMMA BytesNat == ASSUME NEW k \in 0 .. 4 PROVE 2 ^ k \in Nat
<1>1. 2 ^ 0 \in Nat /\ 2 ^ 1 \in Nat /\ 2 ^ 2 \in Nat /\ 2 ^ 3 \in Nat /\ 2 ^ 4 \in Nat
  OBVIOUS
<1>2. k = 0 \/ k = 1 \/ k = 2 \/ k = 3 \/ k = 4
  OBVIOUS
<1> QED
  BY <1>1, <1>2

LEMMA IncrementedType ==
  ASSUME SbTypes, NEW a \in Addresses PROVE Incremented(a) \in Addresses
<1>1. Bytes \in Nat
  BY BytesNat DEF SbTypes, Bytes
<1>2. a[1] \in 0 .. UpperSize - 1 /\ a[2] \in 0 .. LowerSize - 1 /\ LowerSize \in Nat \ {0}
  BY SystemBusAssumption DEF Addresses
<1>3. (a[2] + Bytes) % LowerSize \in 0 .. LowerSize - 1
  <2>1. a[2] + Bytes \in Int
    BY <1>1, <1>2
  <2> QED
    BY <1>2, <2>1, ModRange
<1> QED
  BY <1>2, <1>3 DEF Incremented, Addresses

(* A fetch without error and without trap has loaded the word.             *)
LEMMA FetchLoads ==
  ASSUME NEW a, SbRead(a), sberror' = {}, ~escaped' PROVE sbdata' = a /\ sberror = {}
<1>1. Result(a) \in {"bad size", "misaligned", "fault", "done"}
  BY DEF Result
<1>2. Result(a) # "bad size" /\ Result(a) # "fault" /\ Result(a) # "misaligned"
  BY DEF SbRead
<1> QED
  BY <1>1, <1>2 DEF SbRead

LEMMA SystemBusStepTypes ==
  ASSUME SbTypes, SystemBusNext PROVE SbTypes'
<1>1. /\ sbaddress \in Addresses /\ sbaddress[1] \in 0 .. UpperSize - 1
      /\ sbaddress[2] \in 0 .. LowerSize - 1
      /\ LowerSize \in Nat \ {0} /\ Bytes \in Nat
      /\ \A k \in 0 .. MaxAccess + 1 : k \in 0 .. 4
      /\ 0 \in 0 .. MaxAccess + 1
  <2>1. sbaddress \in Addresses /\ Bytes \in Nat
    BY BytesNat DEF SbTypes, Bytes
  <2>2. MaxAccess \in -1 .. 3 /\ LowerSize \in Nat \ {0}
    BY SystemBusAssumption
  <2>3. (\A k \in 0 .. MaxAccess + 1 : k \in 0 .. 4) /\ 0 \in 0 .. MaxAccess + 1
    BY <2>2
  <2>4. sbaddress[1] \in 0 .. UpperSize - 1 /\ sbaddress[2] \in 0 .. LowerSize - 1
    BY <2>1 DEF Addresses
  <2> QED
    BY <2>1, <2>2, <2>3, <2>4
<1>2. \A a \in Addresses : Incremented(a) \in Addresses
  BY IncrementedType
<1>3. \A a : SbRead(a) \/ SbWrite(a) => escaped' \in BOOLEAN
  <2>1. \A a : SbRead(a) => escaped' \in BOOLEAN
    BY Zenon DEF SbRead
  <2>2. \A a : SbWrite(a) => escaped' \in BOOLEAN
    <3> TAKE a
    <3>1. (Result(a) \in {"misaligned", "fault"}) \in BOOLEAN
      OBVIOUS
    <3> QED
      BY <3>1, Zenon DEF SbWrite
  <2> QED
    BY <2>1, <2>2
<1>4. NextPromised \in Addresses \cup {Nothing}
  <2>1. CASE promised = Nothing \/ promised[2] + Bytes >= LowerSize
    BY <2>1 DEF NextPromised
  <2>2. CASE ~(promised = Nothing \/ promised[2] + Bytes >= LowerSize)
    <3>1. promised[1] \in 0 .. UpperSize - 1 /\ promised[2] \in 0 .. LowerSize - 1
      BY <2>2 DEF SbTypes, Addresses
    <3>2. promised[2] + Bytes \in 0 .. LowerSize - 1
      BY <1>1, <2>2, <3>1
    <3> QED
      BY <2>2, <3>1, <3>2 DEF NextPromised, Addresses
  <2> QED
    BY <2>1, <2>2
<1>5. CASE WriteSbcs
  BY <1>1, <1>5 DEF WriteSbcs, SbTypes
<1>6. ASSUME NEW lower \in 0 .. LowerSize - 1, WriteSbaddress0(lower) PROVE SbTypes'
  <2> DEFINE a == <<sbaddress[1], lower>>
  <2>1. a \in Addresses
    BY <1>1 DEF Addresses
  <2> HIDE DEF a
  <2>2. /\ sbaddress' \in {a, Incremented(a)} /\ promised' \in {a, Nothing}
        /\ SbRead(a) \/ escaped' = escaped
        /\ deceived' = FALSE /\ UNCHANGED sbFlags
    BY <1>6 DEF WriteSbaddress0, a
  <2> QED
    BY <1>2, <1>3, <2>1, <2>2 DEF SbTypes, sbFlags
<1>7. ASSUME NEW upper \in 0 .. UpperSize - 1, WriteSbaddress1(upper) PROVE SbTypes'
  BY <1>1, <1>7 DEF WriteSbaddress1, SbTypes, sbFlags, Addresses
<1>8. CASE ReadSbdata0
  <2>1. /\ sbaddress' \in {sbaddress, Incremented(sbaddress)} /\ promised' = NextPromised
        /\ SbRead(sbaddress) \/ escaped' = escaped
        /\ deceived' \in BOOLEAN /\ UNCHANGED sbFlags
    BY <1>8 DEF ReadSbdata0
  <2> QED
    BY <1>1, <1>2, <1>3, <1>4, <2>1 DEF SbTypes, sbFlags
<1>9. CASE WriteSbdata0
  <2>1. /\ sbaddress' \in {sbaddress, Incremented(sbaddress)} /\ promised' = Nothing
        /\ SbWrite(sbaddress) \/ escaped' = escaped
        /\ deceived' = FALSE /\ UNCHANGED sbFlags
    BY <1>9 DEF WriteSbdata0
  <2> QED
    BY <1>1, <1>2, <1>3, <2>1 DEF SbTypes, sbFlags
<1>10. CASE ResetSystemBus
  BY <1>1, <1>10 DEF ResetSystemBus, SbTypes
<1> QED
  BY <1>5, <1>6, <1>7, <1>8, <1>9, <1>10 DEF SystemBusNext

LEMMA SystemBusStepStream ==
  ASSUME SbTypes, StreamInv, SystemBusNext PROVE StreamInv'
<1>1. ~escaped /\ Bytes \in Nat /\ LowerSize \in Nat \ {0}
  BY SystemBusAssumption, BytesNat DEF SbTypes, Bytes, SystemBusNext
<1>2. CASE promised' = Nothing /\ deceived' = FALSE
  BY <1>2 DEF StreamInv
<1>3. ASSUME NEW lower \in 0 .. LowerSize - 1, WriteSbaddress0(lower),
             promised' # Nothing, sberror' = {}, ~escaped'
      PROVE  StreamOn'
  <2> DEFINE a == <<sbaddress[1], lower>>
  <2>1. sberror = {} /\ readonaddr /\ readondata /\ autoincrement
    BY <1>3 DEF WriteSbaddress0
  <2>2. SbRead(a) /\ sbaddress' = Incremented(a) /\ promised' = a
    BY <1>3, <2>1 DEF WriteSbaddress0
  <2>3. sbdata' = a /\ Result(a) = "done"
    BY <1>3, <2>2, FetchLoads DEF SbRead, Result
  <2>4. MaxAccess >= 0
    <3>1. sbaccess <= MaxAccess /\ sbaccess >= 0
      BY <2>3, SystemBusAssumption DEF Result, SbTypes
    <3> QED
      BY <3>1, SystemBusAssumption DEF SbTypes
  <2>5. UNCHANGED sbFlags /\ Bytes' = Bytes
    BY <1>3 DEF WriteSbaddress0, sbFlags, Bytes
  <2> QED
    BY <2>1, <2>2, <2>3, <2>4, <2>5 DEF StreamOn, Incremented, sbFlags
<1>4. ASSUME ReadSbdata0, sberror' = {} PROVE ~deceived'
  <2>1. sberror = {}
    BY <1>4, FetchLoads DEF ReadSbdata0, SbRead
  <2> QED
    BY <1>1, <1>4, <2>1 DEF ReadSbdata0, StreamInv, StreamOn
<1>5. ASSUME ReadSbdata0, promised' # Nothing, sberror' = {}, ~escaped' PROVE StreamOn'
  <2>1. sberror = {}
    BY <1>5, FetchLoads DEF ReadSbdata0
  <2>2. promised # Nothing /\ promised[2] + Bytes < LowerSize
        /\ promised' = <<promised[1], promised[2] + Bytes>>
    <3>1. promised # Nothing => promised[2] \in Nat
      BY SystemBusAssumption DEF SbTypes, Addresses
    <3>2. promised' = NextPromised
      BY <1>5 DEF ReadSbdata0
    <3> QED
      BY <1>1, <1>5, <3>1, <3>2 DEF NextPromised
  <2>3. StreamOn
    BY <1>1, <2>1, <2>2 DEF StreamInv
  <2>4. SbRead(sbaddress) /\ sbaddress' = Incremented(sbaddress)
    BY <1>5, <2>1, <2>3 DEF ReadSbdata0, StreamOn
  <2>5. sbdata' = sbaddress
    BY <1>5, <2>4, FetchLoads
  \* The stream does not wrap around.
  <2>6. (promised[2] + Bytes) % LowerSize = promised[2] + Bytes
    <3>1. promised[2] + Bytes \in 0 .. LowerSize - 1
      BY <1>1, <2>2, SystemBusAssumption DEF SbTypes, Addresses
    <3> QED
      BY <1>1, <3>1, ModOfSmall
  <2>7. sbaddress = promised'
    BY <2>2, <2>3, <2>6 DEF StreamOn
  <2>8. UNCHANGED sbFlags /\ Bytes' = Bytes
    BY <1>5 DEF ReadSbdata0, sbFlags, Bytes
  <2>9. /\ readondata /\ autoincrement /\ MaxAccess >= 0
        /\ sbaddress' = <<promised'[1], (promised'[2] + Bytes) % LowerSize>>
    BY <2>3, <2>4, <2>7 DEF StreamOn, Incremented
  <2> QED
    BY <2>5, <2>7, <2>8, <2>9 DEF StreamOn, sbFlags
<1>6. WriteSbcs \/ WriteSbdata0 \/ ResetSystemBus \/ (\E u \in 0 .. UpperSize - 1 : WriteSbaddress1(u))
        => promised' = Nothing /\ deceived' = FALSE
  BY DEF WriteSbcs, WriteSbdata0, ResetSystemBus, WriteSbaddress1
<1>7. ASSUME NEW lower \in 0 .. LowerSize - 1, WriteSbaddress0(lower) PROVE StreamInv'
  BY <1>3, <1>7 DEF StreamInv, WriteSbaddress0
<1>8. CASE ReadSbdata0
  BY <1>4, <1>5, <1>8 DEF StreamInv
<1> QED
  BY <1>2, <1>6, <1>7, <1>8 DEF SystemBusNext

SystemBusInv == SystemBusTypeOK /\ StreamInv

LEMMA SystemBusTypes == SystemBusTypeOK => SbTypes
<1>1. \A k \in 0 .. MaxAccess + 1 : k \in 0 .. 4
  BY SystemBusAssumption
<1> QED
  BY <1>1 DEF SystemBusTypeOK, SbTypes

LEMMA SystemBusInitInv == SystemBusInit => SystemBusInv
<1>1. <<0, 0>> \in Addresses
  BY SystemBusAssumption DEF Addresses
<1>2. 0 \in 0 .. MaxAccess + 1
  BY SystemBusAssumption
<1>3. SystemBusInit => SystemBusTypeOK
  <2>1. FALSE \in BOOLEAN /\ {} \in SUBSET {1, 2}
    OBVIOUS
  <2> QED
    BY <1>1, <1>2, <2>1, Zenon DEF SystemBusInit, SystemBusTypeOK
<1>4. SystemBusInit => StreamInv
  BY DEF SystemBusInit, StreamInv
<1> QED
  BY <1>3, <1>4 DEF SystemBusInv

(* What the types say beyond SbTypes                                       *)
LEMMA SystemBusStepOthers ==
  ASSUME SystemBusTypeOK, SystemBusNext
  PROVE  /\ sbdata' \in Addresses \cup {Nothing} /\ sbaccess' \in 0 .. MaxAccess + 1
         /\ sberror' \in SUBSET {1, 2}
<1>1. 0 \in 0 .. MaxAccess + 1
  BY SystemBusAssumption
<1>2. ASSUME NEW a \in Addresses, SbRead(a)
      PROVE  sbdata' \in Addresses \cup {Nothing} /\ sberror' \in SUBSET {1, 2}
  BY <1>2 DEF SbRead, SystemBusTypeOK
<1>3. \A a : SbWrite(a) => sberror' \in SUBSET {1, 2}
  BY DEF SbWrite, SystemBusTypeOK
<1>4. CASE WriteSbcs
  BY <1>4 DEF WriteSbcs, SystemBusTypeOK
<1>5. ASSUME NEW lower \in 0 .. LowerSize - 1, WriteSbaddress0(lower)
      PROVE  /\ sbdata' \in Addresses \cup {Nothing} /\ sbaccess' \in 0 .. MaxAccess + 1
             /\ sberror' \in SUBSET {1, 2}
  <2>1. <<sbaddress[1], lower>> \in Addresses
    BY DEF SystemBusTypeOK, Addresses
  <2>2. SbRead(<<sbaddress[1], lower>>) \/ UNCHANGED <<sbdata, sberror>>
    BY <1>5 DEF WriteSbaddress0
  <2>3. sbaccess' = sbaccess
    BY <1>5 DEF WriteSbaddress0, sbFlags
  <2> QED
    BY <1>2, <2>1, <2>2, <2>3 DEF SystemBusTypeOK
<1>6. ASSUME NEW upper, WriteSbaddress1(upper)
      PROVE  UNCHANGED <<sbdata, sbaccess, sberror>>
  BY <1>6 DEF WriteSbaddress1, sbFlags
<1>7. CASE ReadSbdata0
  <2>1. SbRead(sbaddress) \/ UNCHANGED <<sbdata, sberror>>
    BY <1>7 DEF ReadSbdata0
  <2>2. sbaccess' = sbaccess
    BY <1>7 DEF ReadSbdata0, sbFlags
  <2> QED
    BY <1>2, <2>1, <2>2 DEF SystemBusTypeOK
<1>8. CASE WriteSbdata0
  <2>1. sbdata' = Nothing /\ (SbWrite(sbaddress) \/ sberror' = sberror)
    BY <1>8 DEF WriteSbdata0
  <2>2. sbaccess' = sbaccess
    BY <1>8 DEF WriteSbdata0, sbFlags
  <2> QED
    BY <1>3, <2>1, <2>2 DEF SystemBusTypeOK
<1>9. CASE ResetSystemBus
  BY <1>1, <1>9 DEF ResetSystemBus, SystemBusTypeOK
<1> QED
  BY <1>4, <1>5, <1>6, <1>7, <1>8, <1>9 DEF SystemBusNext, SystemBusTypeOK

LEMMA SystemBusStepInv == SystemBusInv /\ [SystemBusNext]_systemBusVars => SystemBusInv'
<1> SUFFICES ASSUME SystemBusInv, [SystemBusNext]_systemBusVars PROVE SystemBusInv'
  OBVIOUS
<1>1. SbTypes
  BY SystemBusTypes DEF SystemBusInv
<1>2. CASE SystemBusNext
  <2>1. SbTypes' /\ StreamInv'
    BY <1>1, <1>2, SystemBusStepTypes, SystemBusStepStream DEF SystemBusInv
  <2>2. SystemBusTypeOK'
    BY <1>2, <2>1, SystemBusStepOthers, Zenon DEF SystemBusInv, SbTypes, SystemBusTypeOK
  <2> QED
    BY <2>1, <2>2 DEF SystemBusInv
<1>3. CASE UNCHANGED systemBusVars
  BY <1>3 DEF systemBusVars, sbFlags, sbHistory, SystemBusInv, SystemBusTypeOK, StreamInv,
              StreamOn, Bytes
<1> QED
  BY <1>2, <1>3

(* A debugger that streams and looks at the error afterwards gets memory,  *)
(* whatever the size of its accesses and wherever memory ends.             *)
THEOREM StreamsAreMemory == SystemBusSpec => []StreamIsMemory
<1>1. SystemBusInv => StreamIsMemory
  BY DEF SystemBusInv, StreamInv, StreamOn, StreamIsMemory
<1> QED
  BY <1>1, SystemBusInitInv, SystemBusStepInv, PTL DEF SystemBusSpec

(***************************************************************************)
(* Vector loads and stores.                                                *)
(***************************************************************************)

(* The first element that this attempt, or in the handler the next one,    *)
(* has yet to access in full.                                              *)
Front == IF phase = "handler" \/ i < vstart THEN vstart ELSE i

(* What the instruction is to access, and what of it has been accessed.    *)
Meant(p) == p[2] < nf /\ p[1] \in active /\ origin <= p[1]
Reached(p) == p[1] < Front \/ (phase # "handler" /\ p[1] = i /\ p[2] < fn)

VectorPlace ==
  /\ fn < nf
  /\ Overlaps => nf = 1
  /\ instruction # "faultfirst" => vl = VectorLength
  /\ phase # "done" => origin <= vstart /\ (~TracksVstart => vstart = origin)
  /\ phase = "loop" /\ fn > 0 => ~Skipped(i)
  /\ phase = "copy" => i >= vl /\ LoadsByWay
  /\ phase = "done" => vstart = 0

(* An element that was accessed is right, and stays so: it is not accessed *)
(* again, or its index is still there.                                     *)
VectorData ==
  /\ \A p \in Slots : reg[p] # "old" => Meant(p)
  /\ LoadsByWay /\ phase # "done" => \A p \in Slots : reg[p] = "old"
  /\ phase # "done" => \A p \in Slots : Meant(p) /\ Reached(p) =>
                         dataArray[p] = "right" /\ (LoadsByWay \/ reg[p] = "right")
  /\ phase = "loop" => \A e \in Elements : e >= Front => e \in index
  /\ Overlaps /\ phase \in {"handler", "loop"} =>
       \A e \in Elements : e >= Front => reg[<<e, 0>>] = "old"
  /\ phase = "done" => \A p \in Slots : Meant(p) /\ p[1] < vl =>
                         reg[p] = "right" /\ dataArray[p] = "right"

(* On the standard core no complete element is accessed again.             *)
VectorOnce ==
  standard => \A e \in Elements :
    /\ finished[e] <= 1
    /\ phase \in {"handler", "loop"} /\ e >= Front => finished[e] = 0

VectorNumbers ==
  /\ i \in Nat /\ i <= VectorLength /\ vl \in Nat /\ vl <= VectorLength
  /\ fn \in Nat /\ fn < MaxFields /\ nf \in Nat /\ nf <= MaxFields /\ 1 <= nf
  /\ vstart \in Nat /\ vstart < VectorLength /\ origin \in Nat /\ origin < VectorLength
  /\ VectorLength \in Nat /\ MaxFields \in Nat /\ 0 < VectorLength /\ 0 < MaxFields
  /\ i < vl => i \in Elements /\ <<i, fn>> \in Slots

(* The ranges of the loop's numbers, as the provers use them.              *)
LEMMA VectorNumbersHold == ASSUME VectorTypeOK PROVE VectorNumbers
BY VectorAssumption DEF VectorTypeOK, Elements, FieldNumbers, Slots, VectorNumbers

(* Every step keeps the types, given that fields stay below nf.            *)
LEMMA VectorStepType ==
  ASSUME VectorTypeOK, VectorPlace, VectorNext PROVE VectorTypeOK'
<1>n. VectorNumbers
  BY VectorNumbersHold
<1> USE DEF VectorNumbers
<1>1. CASE Attempt
  <2>1. i' \in 0 .. VectorLength /\ fn' \in FieldNumbers
    BY <1>n, <1>1 DEF Attempt, FieldNumbers
  <2>2. index' \subseteq Elements
    BY <1>1 DEF Attempt
  <2> QED
    BY <1>n, <1>1, <2>1, <2>2 DEF Attempt, VectorTypeOK
<1>2. CASE SkipElement
  <2>1. i' \in 0 .. VectorLength
    BY <1>n, <1>2 DEF SkipElement
  <2> QED
    BY <1>n, <1>2, <2>1 DEF SkipElement, VectorTypeOK
<1>3. CASE AccessField
  <2>1. i \in Elements /\ <<i, fn>> \in Slots
    BY <1>n, <1>3 DEF AccessField
  <2>2. vstart' \in Elements
    BY <1>n, <1>3, <2>1 DEF AccessField, Mark, VectorTypeOK
  <2>3. i' \in 0 .. VectorLength /\ fn' \in FieldNumbers
    <3>1. i + 1 \in 0 .. VectorLength /\ i \in 0 .. VectorLength
      BY <1>n, <1>3 DEF AccessField
    <3>2. fn # nf - 1 => fn + 1 \in FieldNumbers
      BY <1>n DEF VectorPlace, FieldNumbers
    <3>3. 0 \in FieldNumbers
      BY <1>n DEF FieldNumbers
    <3> QED
      BY <1>3, <3>1, <3>2, <3>3 DEF AccessField
  <2>4. reg' \in [Slots -> Datum] /\ dataArray' \in [Slots -> Datum]
    BY <1>n, <1>3, <2>1 DEF AccessField, Datum, VectorTypeOK
  <2>5. finished' \in [Elements -> 0 .. 2]
    <3>1. \A e \in Elements : (IF finished[e] < 2 THEN finished[e] + 1 ELSE 2) \in 0 .. 2
      BY DEF VectorTypeOK
    <3>2. finished' = finished
            \/ finished' = [finished EXCEPT ![i] = IF finished[i] < 2 THEN finished[i] + 1 ELSE 2]
      BY <1>n, <1>3 DEF AccessField
    <3> QED
      BY <2>1, <3>1, <3>2 DEF VectorTypeOK
  <2>6. UNCHANGED <<instruction, standard, nf, active, origin, vl, phase, index, mapped>>
    BY <1>n, <1>3 DEF AccessField
  <2> QED
    BY <2>2, <2>3, <2>4, <2>5, <2>6 DEF VectorTypeOK
<1>4. CASE TrapOnField
  <2>1. vstart' \in Elements
    BY <1>n, <1>4 DEF TrapOnField, Fault, Mark, VectorTypeOK
  <2> QED
    BY <1>n, <1>4, <2>1 DEF TrapOnField, VectorTypeOK
<1>5. CASE ShortenVector
  <2>1. vl' \in 0 .. VectorLength /\ fn' \in FieldNumbers
    BY <1>n, <1>5 DEF ShortenVector, Fault, FieldNumbers
  <2> QED
    BY <1>n, <1>5, <2>1 DEF ShortenVector, VectorTypeOK
<1>6. CASE EndLoop
  <2>1. vstart' \in Elements /\ phase' \in {"handler", "loop", "copy", "done"}
    BY <1>n, <1>6 DEF EndLoop, VectorTypeOK, Elements
  <2> QED
    BY <1>n, <1>6, <2>1 DEF EndLoop, VectorTypeOK
<1>7. CASE CopyArray
  <2>1. vstart' \in Elements /\ phase' \in {"handler", "loop", "copy", "done"}
    BY <1>n, <1>7 DEF CopyArray, VectorTypeOK, Elements
  <2>2. reg' \in [Slots -> Datum]
    BY <1>n, <1>7 DEF CopyArray, VectorTypeOK
  <2> QED
    BY <1>n, <1>7, <2>1, <2>2 DEF CopyArray, VectorTypeOK
<1>8. CASE HandlePageFault
  BY <1>n, <1>8 DEF HandlePageFault, VectorTypeOK
<1> QED
  BY <1>1, <1>2, <1>3, <1>4, <1>5, <1>6, <1>7, <1>8 DEF VectorNext

(* vstart never falls below the first one before the end, and only the     *)
(* standard core moves it.                                                 *)
LEMMA VectorStepPlace ==
  ASSUME VectorTypeOK, VectorPlace, VectorNext PROVE VectorPlace'
<1>n. VectorNumbers
  BY VectorNumbersHold
<1> USE DEF VectorNumbers, VectorPlace, Overlaps, TracksVstart, LoadsByWay
<1>1. CASE Attempt
  BY <1>n, <1>1 DEF Attempt
<1>2. CASE SkipElement
  BY <1>n, <1>2 DEF SkipElement, Skipped
<1>3. CASE AccessField
  <2>1. vstart' \in Nat /\ origin <= vstart' /\ (~TracksVstart => vstart' = vstart)
    BY <1>n, <1>3 DEF AccessField, Mark, Skipped
  <2>2. fn' < nf /\ (fn' > 0 => i' = i /\ vstart' <= i /\ i \in active)
    BY <1>n, <1>3 DEF AccessField, Mark, Skipped
  <2>3. phase = "loop" /\ UNCHANGED <<instruction, standard, nf, active, origin, vl, phase>>
    BY <1>3 DEF AccessField
  <2>4. fn' > 0 => ~Skipped(i)'
    BY <1>n, <2>1, <2>2, <2>3 DEF Skipped
  <2> QED
    BY <1>n, <2>1, <2>2, <2>3, <2>4
<1>4. CASE TrapOnField
  <2>1. origin <= vstart' /\ (~TracksVstart => vstart' = vstart)
    BY <1>n, <1>4 DEF TrapOnField, Fault, Mark, Skipped
  <2> QED
    BY <1>n, <1>4, <2>1 DEF TrapOnField
<1>5. CASE ShortenVector
  BY <1>n, <1>5 DEF ShortenVector, Fault
<1>6. CASE EndLoop
  BY <1>n, <1>6 DEF EndLoop
<1>7. CASE CopyArray
  BY <1>n, <1>7 DEF CopyArray
<1>8. CASE HandlePageFault
  BY <1>n, <1>8 DEF HandlePageFault
<1> QED
  BY <1>1, <1>2, <1>3, <1>4, <1>5, <1>6, <1>7, <1>8 DEF VectorNext

(* A slot is a pair of an element and a field.                             *)
LEMMA SlotFacts ==
  /\ \A p \in Slots : /\ p[1] \in Elements /\ p[2] \in FieldNumbers /\ p = <<p[1], p[2]>>
                      /\ p[1] \in Nat /\ p[2] \in Nat
  /\ \A e \in Elements : e \in Nat /\ <<e, 0>> \in Slots
BY VectorAssumption DEF Slots, Elements, FieldNumbers

(* What was accessed stays right when the instruction begins again.        *)
LEMMA VectorStepData ==
  ASSUME VectorTypeOK, VectorPlace, VectorData, VectorNext PROVE VectorData'
<1>n. VectorNumbers
  BY VectorNumbersHold
<1>f. Front \in Nat /\ (phase # "handler" => vstart <= Front /\ i <= Front)
  BY <1>n DEF VectorNumbers, Front
<1> USE DEF VectorNumbers
<1>1. CASE Attempt
  <2>1. phase = "handler" /\ phase' = "loop" /\ fn' = 0
        /\ UNCHANGED <<instruction, standard, nf, active, origin, vstart, reg, dataArray>>
        /\ (i' = vstart \/ i' = 0)
    BY <1>1 DEF Attempt
  <2>2. Front' = vstart /\ Front = vstart
    BY <1>n, <2>1 DEF Front
  <2>3. \A p \in Slots : (Meant(p)' <=> Meant(p)) /\ (Reached(p)' => Reached(p))
    BY <1>n, <2>1, <2>2, SlotFacts DEF Meant, Reached
  <2>4. \A e \in Elements : e >= Front => e \in index'
    BY <1>1, <2>1 DEF Attempt, VectorData
  <2> QED
    BY <2>1, <2>2, <2>3, <2>4 DEF VectorData, LoadsByWay, Overlaps
<1>2. CASE SkipElement
  <2>1. phase = "loop" /\ i' = i + 1 /\ Skipped(i)
        /\ UNCHANGED <<instruction, standard, nf, active, origin, vstart, phase, fn, index,
                       reg, dataArray>>
    BY <1>2 DEF SkipElement
  <2>2. fn = 0
    BY <1>n, <2>1 DEF VectorPlace
  <2>3. (Front' = Front \/ (i \notin active /\ Front = i /\ Front' = i + 1)) /\ Front' \in Nat
    BY <1>n, <2>1 DEF Front, Skipped
  <2>4. \A p \in Slots : (Meant(p)' <=> Meant(p)) /\ (Meant(p) /\ Reached(p)' => Reached(p))
    BY <1>n, <2>1, <2>2, <2>3, SlotFacts DEF Meant, Reached
  <2>5. ASSUME NEW e \in Elements PROVE e >= Front' => e >= Front
    <3>1. e \in Nat
      BY SlotFacts
    <3> QED
      BY <1>n, <1>f, <2>3, <3>1
  <2> QED
    BY <2>1, <2>4, <2>5 DEF VectorData, LoadsByWay, Overlaps
<1>3. CASE AccessField
  <2>1. /\ phase = "loop" /\ i \in Elements /\ <<i, fn>> \in Slots /\ i < vl
        /\ vstart <= i /\ i \in active /\ origin <= i
        /\ UNCHANGED <<instruction, standard, nf, active, origin, phase, index>>
    BY <1>n, <1>3 DEF AccessField, Skipped, VectorPlace
  <2>2. Front = i /\ i \in index
    BY <1>n, <2>1 DEF Front, VectorData
  <2>3. /\ dataArray' = [dataArray EXCEPT ![<<i, fn>>] = "right"]
        /\ reg' = IF LoadsByWay THEN reg ELSE [reg EXCEPT ![<<i, fn>>] = "right"]
    BY <1>3, <2>2 DEF AccessField
  <2>4. vstart' \in {vstart, i}
    BY <1>3 DEF AccessField, Mark
  <2>5. \/ fn = nf - 1 /\ fn' = 0 /\ i' = i + 1 /\ Front' = i + 1
        \/ fn # nf - 1 /\ fn' = fn + 1 /\ i' = i /\ Front' = i
    <3>1. (fn = nf - 1 /\ fn' = 0 /\ i' = i + 1) \/ (fn # nf - 1 /\ fn' = fn + 1 /\ i' = i)
      BY <1>3 DEF AccessField
    <3>2. vstart' \in Nat /\ vstart' <= i /\ phase' = "loop"
      BY <1>n, <2>1, <2>4
    <3>3. i' >= vstart'
      BY <1>n, <3>1, <3>2
    <3>4. Front' = i'
      BY <1>n, <3>1, <3>2, <3>3 DEF Front
    <3> QED
      BY <3>1, <3>4
  <2>6. ASSUME NEW p \in Slots
        PROVE  /\ Meant(p)' <=> Meant(p)
               /\ Meant(p) /\ Reached(p)' => Reached(p) \/ p = <<i, fn>>
    <3>1. p[1] \in Nat /\ p[2] \in Nat /\ p = <<p[1], p[2]>>
      BY SlotFacts
    <3>2. Meant(p)' <=> Meant(p)
      BY <2>1 DEF Meant
    <3>3. Meant(p) /\ Reached(p)' => p[1] < i \/ (p[1] = i /\ p[2] < fn) \/ (p[1] = i /\ p[2] = fn)
      BY <1>n, <2>1, <2>5, <3>1 DEF Meant, Reached, VectorPlace
    <3> QED
      BY <2>1, <2>2, <3>1, <3>2, <3>3 DEF Reached
  <2>7. ASSUME NEW p \in Slots
        PROVE  /\ dataArray'[p] = IF p = <<i, fn>> THEN "right" ELSE dataArray[p]
               /\ reg'[p] = IF p = <<i, fn>> /\ ~LoadsByWay THEN "right" ELSE reg[p]
    BY <2>1, <2>3 DEF VectorTypeOK
  <2>8. Meant(<<i, fn>>)
    BY <2>1 DEF Meant, VectorPlace
  <2>9. \A p \in Slots : reg'[p] # "old" => Meant(p)'
    BY <2>6, <2>7, <2>8 DEF VectorData
  <2>10. LoadsByWay' <=> LoadsByWay
    BY <2>1 DEF LoadsByWay
  <2>11. LoadsByWay => \A p \in Slots : reg'[p] = "old"
    BY <2>1, <2>7 DEF VectorData
  <2>12. \A p \in Slots : Meant(p)' /\ Reached(p)' =>
           dataArray'[p] = "right" /\ (LoadsByWay \/ reg'[p] = "right")
    BY <2>1, <2>6, <2>7 DEF VectorData
  <2>13. ASSUME NEW e \in Elements PROVE e >= Front' => e >= Front
    <3>1. e \in Nat
      BY SlotFacts
    <3> QED
      BY <1>n, <2>2, <2>5, <3>1
  <2>14. Overlaps => \A e \in Elements : e >= Front' => reg'[<<e, 0>>] = "old"
    <3>1. Overlaps => Front' = i + 1
      BY <1>n, <2>5 DEF VectorPlace
    <3>2. ASSUME NEW e \in Elements, e >= i + 1 PROVE <<e, 0>> # <<i, fn>> /\ e >= Front
      <4>1. e \in Nat
        BY SlotFacts
      <4>2. e # i /\ e >= Front
        BY <1>n, <2>2, <3>2, <4>1
      <4> QED
        BY <4>2
    <3> QED
      BY <2>1, <2>7, <3>1, <3>2, SlotFacts DEF VectorData
  <2>15. \A e \in Elements : e >= Front' => e \in index
    BY <2>1, <2>13 DEF VectorData
  <2> QED
    BY <2>1, <2>9, <2>10, <2>11, <2>12, <2>14, <2>15 DEF VectorData, Overlaps
<1>4. CASE TrapOnField
  <2>1. /\ phase = "loop" /\ phase' = "handler" /\ vstart <= i /\ origin <= i
        /\ UNCHANGED <<instruction, standard, nf, active, origin, i, fn, reg, dataArray>>
    BY <1>n, <1>4 DEF TrapOnField, Fault, Skipped, VectorPlace
  <2>2. vstart' = (IF TracksVstart THEN i ELSE vstart) /\ Front' = vstart' /\ Front = i
    BY <1>n, <1>4, <2>1 DEF TrapOnField, Mark, Front
  <2>3. \A p \in Slots : (Meant(p)' <=> Meant(p)) /\ (Reached(p)' => Reached(p))
    BY <1>n, <2>1, <2>2, SlotFacts DEF Meant, Reached
  <2>4. Overlaps => \A e \in Elements : e >= Front' => reg[<<e, 0>>] = "old"
    <3>1. CASE TracksVstart
      BY <2>1, <2>2, <3>1 DEF VectorData
    <3>2. CASE ~TracksVstart
      BY <2>1, <3>2, SlotFacts DEF VectorData, LoadsByWay, Overlaps, TracksVstart
    <3> QED
      BY <3>1, <3>2
  <2> QED
    BY <2>1, <2>3, <2>4 DEF VectorData, LoadsByWay, Overlaps
<1>5. CASE ShortenVector
  <2>1. /\ phase = "loop" /\ fn' = 0
        /\ UNCHANGED <<instruction, standard, nf, active, origin, vstart, phase, i, index,
                       reg, dataArray>>
    BY <1>5 DEF ShortenVector, Fault
  <2>2. Front' = Front
    BY <2>1 DEF Front
  <2>3. \A p \in Slots : (Meant(p)' <=> Meant(p)) /\ (Reached(p)' => Reached(p))
    BY <1>n, <2>1, <2>2, SlotFacts DEF Meant, Reached
  <2> QED
    BY <2>1, <2>2, <2>3 DEF VectorData, LoadsByWay, Overlaps
<1>6. CASE EndLoop
  <2>1. /\ phase = "loop" /\ i >= vl /\ phase' = IF LoadsByWay THEN "copy" ELSE "done"
        /\ UNCHANGED <<instruction, standard, nf, active, origin, vl, i, fn, reg, dataArray>>
        /\ (LoadsByWay => vstart' = vstart)
    BY <1>6 DEF EndLoop
  <2>2. \A p \in Slots : (Meant(p)' <=> Meant(p)) /\ (p[1] < vl => Reached(p))
    BY <1>n, <1>f, <2>1, SlotFacts DEF Meant, Reached
  <2>3. LoadsByWay => Front' = Front /\ \A p \in Slots : Reached(p)' <=> Reached(p)
    BY <2>1 DEF Front, Reached
  <2> QED
    BY <2>1, <2>2, <2>3 DEF VectorData, LoadsByWay, Overlaps
<1>7. CASE CopyArray
  <2>1. /\ phase = "copy" /\ phase' = "done" /\ i >= vl /\ LoadsByWay /\ vstart = origin
        /\ UNCHANGED <<instruction, standard, nf, active, origin, vl, dataArray>>
    BY <1>7 DEF CopyArray, VectorPlace, LoadsByWay, TracksVstart
  <2>2. ASSUME NEW p \in Slots
        PROVE  /\ Meant(p)' <=> Meant(p)
               /\ reg[p] = "old"
               /\ Meant(p) /\ p[1] < vl => dataArray[p] = "right"
    BY <1>n, <1>f, <2>1, SlotFacts DEF Meant, Reached, VectorData
  <2>3. ASSUME NEW p \in Slots
        PROVE  reg'[p] = IF Meant(p) /\ p[1] < vl THEN dataArray[p] ELSE reg[p]
    <3>1. reg'[p] = IF p[1] < vl /\ p[2] < nf /\ ~Skipped(p[1]) THEN dataArray[p] ELSE reg[p]
      BY <1>7 DEF CopyArray
    <3>2. p[1] \in Nat
      BY SlotFacts
    <3>3. ~Skipped(p[1]) <=> p[1] \in active /\ origin <= p[1]
      BY <1>n, <2>1, <3>2 DEF Skipped
    <3> QED
      BY <3>1, <3>3 DEF Meant
  <2> QED
    BY <2>1, <2>2, <2>3 DEF VectorData
<1>8. CASE HandlePageFault
  BY <1>8 DEF HandlePageFault, VectorData, Meant, Reached, Front, LoadsByWay, Overlaps
<1> QED
  BY <1>1, <1>2, <1>3, <1>4, <1>5, <1>6, <1>7, <1>8 DEF VectorNext

(* Beginning again at vstart begins after the complete elements.           *)
LEMMA VectorStepOnce ==
  ASSUME VectorTypeOK, VectorPlace, VectorOnce, VectorNext PROVE VectorOnce'
<1>n. VectorNumbers
  BY VectorNumbersHold
<1>e. \A e \in Elements : e \in Nat
  BY SlotFacts
<1> USE DEF VectorNumbers
<1>1. CASE Attempt
  <2>1. phase = "handler" /\ phase' = "loop" /\ UNCHANGED <<standard, vstart, finished>>
        /\ (i' = vstart \/ i' = 0)
    BY <1>1 DEF Attempt
  <2>2. Front' = vstart /\ Front = vstart
    BY <1>n, <2>1 DEF Front
  <2> QED
    BY <2>1, <2>2 DEF VectorOnce
<1>2. CASE SkipElement
  <2>1. phase = "loop" /\ i' = i + 1 /\ UNCHANGED <<standard, vstart, phase, finished>>
    BY <1>2 DEF SkipElement
  <2>2. Front \in Nat /\ Front' \in Nat /\ Front <= Front'
    BY <1>n, <2>1 DEF Front
  <2>3. \A e \in Elements : e >= Front' => e >= Front
    BY <1>e, <2>2
  <2> QED
    BY <2>1, <2>3 DEF VectorOnce
<1>3. CASE AccessField
  <2>1. phase = "loop" /\ i \in Elements /\ vstart <= i /\ Front = i /\ UNCHANGED <<standard, phase>>
    BY <1>n, <1>3 DEF AccessField, Skipped, Front
  <2>2. vstart' \in {vstart, i}
    BY <1>3 DEF AccessField, Mark
  <2>3. CASE fn = nf - 1
    <3>1. i' = i + 1 /\ finished' = [finished EXCEPT ![i] = IF finished[i] < 2 THEN finished[i] + 1 ELSE 2]
      BY <1>3, <2>3 DEF AccessField
    <3>2. Front' = i + 1
      BY <1>n, <2>1, <2>2, <3>1 DEF Front
    <3>3. SUFFICES ASSUME standard, NEW e \in Elements
                   PROVE  finished'[e] <= 1 /\ (e >= i + 1 => finished'[e] = 0)
      BY <2>1, <3>2 DEF VectorOnce
    <3>4. CASE e = i
      <4>1. finished[i] = 0
        BY <1>n, <2>1, <3>3 DEF VectorOnce
      <4>2. finished'[e] = 1
        BY <2>1, <3>1, <3>4, <4>1 DEF VectorTypeOK
      <4> QED
        BY <1>n, <3>4, <4>2
    <3>5. CASE e # i
      <4>1. finished'[e] = finished[e]
        BY <3>1, <3>5 DEF VectorTypeOK
      <4>2. e >= i + 1 => e >= Front
        BY <1>n, <1>e, <2>1
      <4> QED
        BY <2>1, <3>3, <4>1, <4>2 DEF VectorOnce
    <3> QED
      BY <3>4, <3>5
  <2>4. CASE fn # nf - 1
    <3>1. UNCHANGED <<i, finished>>
      BY <1>3, <2>4 DEF AccessField
    <3>2. Front' = Front
      BY <1>n, <2>1, <2>2, <3>1 DEF Front
    <3> QED
      BY <2>1, <3>1, <3>2 DEF VectorOnce
  <2> QED
    BY <2>3, <2>4
<1>4. CASE TrapOnField
  <2>1. /\ phase = "loop" /\ phase' = "handler" /\ vstart <= i /\ Front = i
        /\ UNCHANGED <<standard, finished>>
        /\ (instruction = "faultfirst" => i = 0)
    BY <1>n, <1>4 DEF TrapOnField, Fault, Skipped, Front
  <2>2. vstart' = (IF TracksVstart THEN i ELSE vstart) /\ Front' = vstart'
    BY <1>4, <2>1 DEF TrapOnField, Mark, Front
  <2>3. standard => Front' = Front
    BY <1>n, <2>1, <2>2 DEF TracksVstart
  <2> QED
    BY <2>1, <2>3 DEF VectorOnce
<1>5. CASE ShortenVector
  <2>1. phase = "loop" /\ UNCHANGED <<standard, vstart, phase, i, finished>>
    BY <1>5 DEF ShortenVector, Fault
  <2> QED
    BY <2>1 DEF VectorOnce, Front
<1>6. CASE EndLoop
  <2>1. phase' \in {"copy", "done"} /\ UNCHANGED <<standard, finished>>
    BY <1>6 DEF EndLoop
  <2> QED
    BY <2>1 DEF VectorOnce
<1>7. CASE CopyArray
  <2>1. phase' = "done" /\ UNCHANGED <<standard, finished>>
    BY <1>7 DEF CopyArray
  <2> QED
    BY <2>1 DEF VectorOnce
<1>8. CASE HandlePageFault
  BY <1>8 DEF HandlePageFault, VectorOnce, Front
<1> QED
  BY <1>1, <1>2, <1>3, <1>4, <1>5, <1>6, <1>7, <1>8 DEF VectorNext

(* The inductive invariant of a vector load or store.                      *)
VectorInv == VectorTypeOK /\ VectorPlace /\ VectorData /\ VectorOnce

(* The invariant is about every moment, the property mostly about the end. *)
LEMMA VectorInvExact == ASSUME VectorInv PROVE RestartsExactly
<1>n. VectorNumbers
  BY VectorNumbersHold DEF VectorInv
<1>1. ASSUME phase = "done", NEW p \in Slots, ~(Meant(p) /\ p[1] < vl), reg[p] # "old"
      PROVE  instruction = "faultfirst" /\ vl <= p[1]
  <2>1. Meant(p)
    BY <1>1 DEF VectorInv, VectorData
  <2>2. p[1] \in Nat /\ p[1] < VectorLength
    BY <1>n, <1>1, SlotFacts DEF Elements, VectorNumbers
  <2>3. vl <= p[1]
    BY <1>n, <1>1, <2>1, <2>2 DEF VectorNumbers
  <2> QED
    BY <1>n, <2>2, <2>3 DEF VectorInv, VectorPlace, VectorNumbers
<1>2. phase = "done" => vstart = 0
  BY DEF VectorInv, VectorPlace
<1>3. ASSUME phase = "done", NEW p \in Slots, Meant(p), p[1] < vl
      PROVE  reg[p] = "right" /\ dataArray[p] = "right"
  BY <1>3 DEF VectorInv, VectorData
<1>4. standard => \A e \in Elements : finished[e] <= 1
  BY DEF VectorInv, VectorOnce
<1>5. LoadsByWay /\ phase # "done" => \A p \in Slots : reg[p] = "old"
  BY DEF VectorInv, VectorData
<1> QED
  BY <1>1, <1>2, <1>3, <1>4, <1>5 DEF RestartsExactly, Meant

LEMMA VectorInitInv == VectorInit => VectorInv
<1> SUFFICES ASSUME VectorInit PROVE VectorInv
  OBVIOUS
<1>1. VectorTypeOK
  <2>1. 0 \in FieldNumbers /\ VectorLength \in 0 .. VectorLength /\ 0 \in 0 .. VectorLength
    BY VectorAssumption DEF FieldNumbers
  <2>2. reg \in [Slots -> Datum] /\ dataArray \in [Slots -> Datum] /\ finished \in [Elements -> 0 .. 2]
    BY DEF VectorInit, Datum
  <2> QED
    BY <2>1, <2>2 DEF VectorInit, VectorTypeOK
<1>n. VectorNumbers
  BY <1>1, VectorNumbersHold
<1>2. VectorPlace
  BY <1>n DEF VectorInit, VectorPlace, VectorNumbers
<1>3. Front = origin
  BY DEF VectorInit, Front
<1>4. \A p \in Slots : Meant(p) => ~Reached(p)
  BY <1>n, <1>3, SlotFacts DEF VectorInit, VectorNumbers, Meant, Reached
<1>5. VectorData
  BY <1>4, SlotFacts DEF VectorInit, VectorData
<1>6. VectorOnce
  BY DEF VectorInit, VectorOnce
<1> QED
  BY <1>1, <1>2, <1>5, <1>6 DEF VectorInv

LEMMA VectorStepInv == VectorInv /\ [VectorNext]_vectorVars => VectorInv'
<1>1. ASSUME VectorInv, VectorNext PROVE VectorInv'
  BY <1>1, VectorStepType, VectorStepPlace, VectorStepData, VectorStepOnce DEF VectorInv
<1>2. ASSUME VectorInv, UNCHANGED vectorVars PROVE VectorInv'
  <2> USE DEF vectorVars
  <2>1. VectorTypeOK'
    BY <1>2 DEF VectorInv, VectorTypeOK
  <2>2. VectorPlace'
    BY <1>2 DEF VectorInv, VectorPlace, Overlaps, TracksVstart, Skipped, LoadsByWay
  <2>3. VectorData'
    BY <1>2 DEF VectorInv, VectorData, Meant, Reached, Front, Overlaps, LoadsByWay
  <2>4. VectorOnce'
    BY <1>2 DEF VectorInv, VectorOnce, Front
  <2> QED
    BY <2>1, <2>2, <2>3, <2>4 DEF VectorInv
<1> QED
  BY <1>1, <1>2

(* Restarted wherever the pages of its elements are missing, and however   *)
(* often, a vector load or store does what it would have done at once.     *)
THEOREM VectorRestarts == VectorSpec => []RestartsExactly
<1>1. VectorInv => RestartsExactly
  BY VectorInvExact
<1> QED
  BY <1>1, VectorInitInv, VectorStepInv, PTL DEF VectorSpec

(***************************************************************************)
(* All of them together.                                                   *)
(***************************************************************************)
DevicesInv ==
  /\ TypeOK /\ UartInv /\ VectorInv /\ CacheTyped /\ CosimInv /\ SystemBusInv
  /\ ReductionInv /\ MemoryImageInv /\ CountersInv
  /\ ArithmeticTypeOK /\ BitManipTypeOK

LEMMA DevicesInitInv == DevicesInit => DevicesInv
<1> SUFFICES ASSUME DevicesInit PROVE DevicesInv
  OBVIOUS
<1>1. /\ Init /\ UartInit /\ CacheInit /\ CosimInit /\ SystemBusInit /\ VectorInit
      /\ MemoryImageInit /\ CountersInit
  BY Zenon DEF DevicesInit
<1>2. /\ TypeOK /\ UartInv /\ VectorInv /\ CacheTyped /\ CosimInv /\ SystemBusInv
      /\ MemoryImageInv
  BY <1>1, PlicInitType, UartInitInv, VectorInitInv, CacheInitInv, CosimInitInv,
     SystemBusInitInv, MemoryImageInitInv, Zenon
<1>3. CountersInv
  <2>1. CountersRest
    BY <1>1 DEF CountersInit, CountersRest
  <2> QED
    BY <1>1, <2>1, CountersInitInv DEF CountersInv
<1>4. ReductionInv
  <2>1. CASE component = "reduction"
    BY <2>1, ReductionInitInv DEF DevicesInit
  <2>2. CASE component # "reduction"
    <3>1. arguments = FirstCall /\ result = <<>>
      BY <2>2 DEF DevicesInit
    <3> QED
      BY <3>1, DevicesAssumption DEF ReductionInv
  <2> QED
    BY <2>1, <2>2
<1>5. ArithmeticTypeOK
  <2>1. CASE component = "arithmetic"
    BY <2>1 DEF DevicesInit, ArithmeticInit, ArithmeticTypeOK
  <2>2. CASE component # "arithmetic"
    <3>1. operands = [x |-> 0, y |-> 0, z |-> 0]
      BY <2>2 DEF DevicesInit
    <3>2. Radix * Radix \in Nat /\ Radix * Radix > 0
      BY ArithmeticAssumption
    <3>3. 0 \in Words
      BY <3>2 DEF Words, Modulus
    <3> QED
      BY <3>1, <3>3 DEF ArithmeticTypeOK
  <2> QED
    BY <2>1, <2>2
<1>6. BitManipTypeOK
  <2>1. CASE component = "bits"
    BY <2>1 DEF DevicesInit, BitManipInit, BitManipTypeOK
  <2>2. CASE component # "bits"
    <3>1. data = {} /\ mask = {}
      BY <2>2 DEF DevicesInit
    <3> QED
      BY <3>1, DevicesAssumption DEF BitManipTypeOK
  <2> QED
    BY <2>1, <2>2
<1> QED
  BY <1>2, <1>3, <1>4, <1>5, <1>6 DEF DevicesInv

(* A step of one of them is no step of the others.                         *)
LEMMA DevicesSteps ==
  ASSUME [DevicesNext]_devicesVars
  PROVE  /\ [Next]_vars /\ [UartNext]_uartVars /\ [VectorNext]_vectorVars
         /\ [CacheNext]_cacheVars /\ [CosimNext]_cosimVars /\ [SystemBusNext]_systemBusVars
         /\ [DoReduction]_reductionVars /\ [MemoryImageNext]_memoryImageVars
         /\ [CountersNext]_countersVars /\ UNCHANGED computations
BY Zenon DEF DevicesNext, devicesVars, PlicStep, UartStep, VectorStep, CacheStep, CosimStep,
       SystemBusStep, ReductionStep, MemoryImageStep, CountersStep

LEMMA DevicesStepInv == DevicesInv /\ [DevicesNext]_devicesVars => DevicesInv'
<1> SUFFICES ASSUME DevicesInv, [DevicesNext]_devicesVars PROVE DevicesInv'
  OBVIOUS
<1>1. /\ [Next]_vars /\ [UartNext]_uartVars /\ [VectorNext]_vectorVars
      /\ [CacheNext]_cacheVars /\ [CosimNext]_cosimVars /\ [SystemBusNext]_systemBusVars
      /\ [DoReduction]_reductionVars /\ [MemoryImageNext]_memoryImageVars
      /\ [CountersNext]_countersVars /\ UNCHANGED computations
  BY DevicesSteps
<1>2. /\ TypeOK /\ UartInv /\ VectorInv /\ CacheTyped /\ CosimInv /\ SystemBusInv
      /\ ReductionInv /\ MemoryImageInv /\ CountersInv
      /\ ArithmeticTypeOK /\ BitManipTypeOK
  BY Zenon DEF DevicesInv
<1>3. TypeOK' /\ UartInv' /\ VectorInv' /\ CacheTyped'
  BY <1>1, <1>2, PlicStepType, UartStepInv, VectorStepInv, CacheStepTyped, Zenon
<1>4. CosimInv' /\ SystemBusInv' /\ MemoryImageInv' /\ CountersInv'
  BY <1>1, <1>2, CosimStepInv, SystemBusStepInv, MemoryImageStepInv, CountersStepInv, Zenon
<1>5. ReductionInv'
  BY <1>1, <1>2, ReductionStepInv, Zenon
<1>6. ArithmeticTypeOK' /\ BitManipTypeOK'
  BY <1>1, <1>2 DEF computations, bitManipVars, ArithmeticTypeOK, BitManipTypeOK
<1> QED
  BY <1>3, <1>4, <1>5, <1>6, Zenon DEF DevicesInv

(* Each component keeps its types, for all values of the constants, while  *)
(* the others stay as they begin.                                          *)
THEOREM DevicesTypeCorrect == DevicesSpec => []DevicesTypeOK
<1>1. DevicesInv => DevicesTypeOK
  BY ReductionInvTypes, CountersInvTypes, Zenon
     DEF DevicesInv, DevicesTypeOK, UartInv, VectorInv, CacheTyped, CosimInv, SystemBusInv,
         MemoryImageInv
<1> QED
  BY <1>1, DevicesInitInv, DevicesStepInv, PTL DEF DevicesSpec

(* The calculations of MCDevices are exact in every state: the arithmetic  *)
(* that instructions share and the bit manipulation have operands of their *)
(* types, and for those they compute what they are defined to compute.     *)
THEOREM ComputationsAlwaysExact == DevicesSpec => []ComputationsExact
<1>1. DevicesTypeOK => ComputationsExact
  BY ArithmeticIsExact, BitManipIsExact, Zenon DEF DevicesTypeOK, ComputationsExact
<1> QED
  BY <1>1, DevicesTypeCorrect, PTL
=============================================================================
