-------------------------------- MODULE Plic --------------------------------
(***************************************************************************)
(* The platform-level interrupt controller (riscv/plic.cc): the devices    *)
(* raise and lower their interrupt lines, the contexts enable sources,     *)
(* claim and complete interrupts through memory-mapped registers, and the  *)
(* controller drives the external interrupt bits of the harts' mip.        *)
(*                                                                         *)
(* Sets stand for the bit vectors.  The sources fit one enable word.       *)
(***************************************************************************)
EXTENDS Integers, FiniteSets

CONSTANTS
  NProcs,       \* number of harts
  Contexts,     \* the contexts that software uses
  NDev,         \* number of interrupt sources
  MaxPriority,  \* max_prio
  Exclusive,    \* whether software enables a source for one context at most
  OthersDrive   \* whether the controller is not alone in driving the pins

PLIC_MAX_CONTEXTS == 15872

Harts == 0 .. NProcs - 1
Sources == 1 .. NDev
Priorities == 0 .. MaxPriority
NoSource == 0

(* The bits of mip that the controller drives: one for each mode of a hart *)
Pins == Harts \X {"MEIP", "SEIP"}

ASSUME PlicAssumption ==
  /\ NProcs \in Nat \ {0} /\ NDev \in Nat /\ MaxPriority \in Nat
  /\ Contexts \subseteq 0 .. 2 * PLIC_MAX_CONTEXTS - 1
  /\ Exclusive \in BOOLEAN /\ OthersDrive \in BOOLEAN

VARIABLES
  priority,         \* of each source
  level,            \* the sources whose line is high
  threshold,        \* of each context: priority_threshold
  enable,           \* of each context: the sources it enables
  pending,          \* of each context: the sources that wait for it
  pendingPriority,  \* of each context: the priority of each such source
  claimed,          \* of each context: the sources claimed and not completed
  mip,              \* the pins that are set
  settled           \* history: the contexts that have driven their pin, and
                    \* that nothing has disturbed since

contextVars == <<threshold, enable, pending, pendingPriority, claimed>>
vars == <<priority, level, contextVars, mip, settled>>

TypeOK ==
  /\ priority \in [Sources -> Priorities]
  /\ level \in SUBSET Sources
  /\ threshold \in [Contexts -> Priorities]
  /\ enable \in [Contexts -> SUBSET Sources]
  /\ pending \in [Contexts -> SUBSET Sources]
  /\ pendingPriority \in [Contexts -> [Sources -> Priorities]]
  /\ claimed \in [Contexts -> SUBSET Sources]
  /\ mip \in SUBSET Pins
  /\ settled \in SUBSET Contexts

Init ==
  /\ priority = [i \in Sources |-> 0]
  /\ level = {}
  /\ threshold = [c \in Contexts |-> 0]
  /\ enable = [c \in Contexts |-> {}]
  /\ pending = [c \in Contexts |-> {}]
  /\ pendingPriority = [c \in Contexts |-> [i \in Sources |-> 0]]
  /\ claimed = [c \in Contexts |-> {}]
  /\ mip = {}
  /\ settled = {}

-----------------------------------------------------------------------------
(* Which pin a context drives.                                             *)

(* The constructor multiplies by the number of contexts once per hart, so  *)
(* that all contexts come to belong to hart 0, and only one of them is for *)
(* machine mode.  (A size_t wraps around from five harts on.)              *)
ContextsPerHart == 2 * PLIC_MAX_CONTEXTS ^ NProcs

Pin(c) ==
  <<c \div ContextsPerHart, IF c % ContextsPerHart = 0 THEN "MEIP" ELSE "SEIP">>

(* The pin that the device tree gives a context (riscv/dts.cc): two        *)
(* contexts for each hart, for machine mode and for supervisor mode.       *)
DeviceTreePin(c) == <<c \div 2, IF c % 2 = 0 THEN "MEIP" ELSE "SEIP">>

(* procs is indexed within its bounds.                                     *)
ASSUME PinsAssumption == \A c \in Contexts : Pin(c) \in Pins

-----------------------------------------------------------------------------
(* Mutation: a later source wins a tie.                                    *)
BeatsOnTie(prio, i, best) == best = NoSource \/ prio[best] <= prio[i]

(* Whether source i is preferred to the best source found so far.          *)
Beats(prio, i, best) == best = NoSource \/ prio[best] < prio[i]

(* The scan of the sources, in the order of their numbers.                 *)
Best(waiting, prio) ==
  LET scan[i \in 0 .. NDev] ==
        IF i = 0 THEN NoSource
        ELSE IF i \in waiting /\ Beats(prio, i, scan[i - 1]) THEN i
        ELSE scan[i - 1]
  IN scan[NDev]

(* context_best_pending.  The threshold plays no part.                     *)
BestPending(c) == Best(pending[c] \ claimed[c], pendingPriority[c])

(* context_update: the context drives its pin, of which it is not certain  *)
(* that no other context drives it.                                        *)
Update(c) ==
  /\ mip' = IF BestPending(c)' # NoSource THEN mip \cup {Pin(c)} ELSE mip \ {Pin(c)}
  /\ settled' = settled \cup {c}

(* Mutation: the value is not masked.                                      *)
WritePriorityUnmasked(i, x) ==
  /\ priority' = [priority EXCEPT ![i] = x + 1]
  /\ UNCHANGED <<level, contextVars, mip, settled>>

WritePriority(i, x) ==
  /\ priority' = [priority EXCEPT ![i] = x]
  /\ UNCHANGED <<level, contextVars, mip, settled>>

WriteThreshold(c, x) ==
  /\ threshold' = [threshold EXCEPT ![c] = x]
  /\ UNCHANGED <<priority, level, enable, pending, pendingPriority, claimed,
                 mip, settled>>

(* Mutation: a source that is already high is forgotten.                   *)
PendingOnceEnabledLate(c, on, off) == pending[c] \ off

(* The sources that wait for c after it enables some and disables others.  *)
PendingOnceEnabled(c, on, off) == (pending[c] \cup (on \cap level)) \ off

(* Context c enables the sources S and no others.  The call that would     *)
(* drive the pin is commented out.                                         *)
WriteEnable(c, S) ==
  LET on == S \ enable[c]
      off == enable[c] \ S
  IN /\ Exclusive => \A d \in Contexts \ {c} : S \cap enable[d] = {}
     /\ enable' = [enable EXCEPT ![c] = S]
     /\ pending' = [pending EXCEPT ![c] = PendingOnceEnabled(c, on, off)]
     /\ pendingPriority' =
          [pendingPriority EXCEPT ![c] =
             [i \in Sources |-> IF i \in on \cap level THEN priority[i]
                                ELSE IF i \in off THEN 0 ELSE @[i]]]
     /\ claimed' = [claimed EXCEPT ![c] = @ \ off]
     /\ settled' = settled \ {c}
     /\ UNCHANGED <<priority, level, threshold, mip>>

(* Context c reads its claim register.                                     *)
Claim(c) ==
  /\ claimed' = [claimed EXCEPT ![c] = @ \cup ({BestPending(c)} \cap Sources)]
  /\ UNCHANGED <<priority, level, threshold, enable, pending, pendingPriority>>
  /\ Update(c)

(* Context c writes source i to its claim register, claimed or not.        *)
Complete(c, i) ==
  /\ i \in enable[c]
  /\ claimed' = [claimed EXCEPT ![c] = @ \ {i}]
  /\ UNCHANGED <<priority, level, threshold, enable, pending, pendingPriority>>
  /\ Update(c)

(* Context c writes to no register that it has: the write fails, but not   *)
(* without driving the pin.  (The same would happen to a threshold above   *)
(* max_prio, which the mask makes impossible.)                             *)
WriteElsewhere(c) ==
  /\ UNCHANGED <<priority, level, contextVars>>
  /\ Update(c)

(* The only context that a change of a line reaches: the loop over the     *)
(* contexts ends with the first that enables the source.                   *)
FirstEnabling(i) ==
  {c \in Contexts : i \in enable[c] /\ \A d \in Contexts : i \in enable[d] => c <= d}

(* Mutation: a claim outlives the interrupt.                               *)
ClaimedOnceLoweredKept(c, i) == claimed[c]

ClaimedOnceLowered(c, i) == claimed[c] \ {i}

(* set_interrupt_level, which devices call, or the test bench that the     *)
(* simulator is a reference model for.  Here too no pin is driven.         *)
Raise(i) ==
  LET first == FirstEnabling(i)
  IN /\ level' = level \cup {i}
     /\ pending' = [c \in Contexts |->
                      IF c \in first THEN pending[c] \cup {i} ELSE pending[c]]
     /\ pendingPriority' =
          [c \in Contexts |->
             IF c \in first THEN [pendingPriority[c] EXCEPT ![i] = priority[i]]
             ELSE pendingPriority[c]]
     /\ settled' = settled \ first
     /\ UNCHANGED <<priority, threshold, enable, claimed, mip>>

Lower(i) ==
  LET first == FirstEnabling(i)
  IN /\ level' = level \ {i}
     /\ pending' = [c \in Contexts |->
                      IF c \in first THEN pending[c] \ {i} ELSE pending[c]]
     /\ pendingPriority' =
          [c \in Contexts |->
             IF c \in first THEN [pendingPriority[c] EXCEPT ![i] = 0]
             ELSE pendingPriority[c]]
     /\ claimed' = [c \in Contexts |->
                      IF c \in first THEN ClaimedOnceLowered(c, i) ELSE claimed[c]]
     /\ settled' = settled \ first
     /\ UNCHANGED <<priority, threshold, enable, mip>>

(* The external interrupt bits of hart h are also written without the      *)
(* controller: by the test bench (set_mip_ei), by a reset of the hart, and *)
(* SEIP by software.                                                       *)
WriteMip(h, bits) ==
  /\ OthersDrive
  /\ mip' = {pin \in mip : pin[1] # h} \cup ({h} \X bits)
  /\ settled' = {c \in settled : Pin(c)[1] # h /\ DeviceTreePin(c)[1] # h}
  /\ UNCHANGED <<priority, level, contextVars>>

Next ==
  \/ \E i \in Sources, x \in Priorities : WritePriority(i, x)
  \/ \E c \in Contexts, x \in Priorities : WriteThreshold(c, x)
  \/ \E c \in Contexts, S \in SUBSET Sources : WriteEnable(c, S)
  \/ \E c \in Contexts : Claim(c)
  \/ \E c \in Contexts, i \in Sources : Complete(c, i)
  \/ \E c \in Contexts : WriteElsewhere(c)
  \/ \E i \in Sources : Raise(i) \/ Lower(i)
  \/ \E h \in Harts, bits \in SUBSET {"MEIP", "SEIP"} : WriteMip(h, bits)

Spec == Init /\ [][Next]_vars

-----------------------------------------------------------------------------
(* What drivers rely on.                                                   *)

(* Interrupts are level-triggered, as set_interrupt_level comments: if no  *)
(* two contexts enable the same source, then exactly the sources a context *)
(* enables and whose line is high wait for it, in whichever order the line *)
(* and the enable bit changed.                                             *)
PendingIsLevelAndEnabled ==
  Exclusive => \A c \in Contexts : pending[c] = enable[c] \cap level

(* And a source in service is one that its device still asserts, and       *)
(* nobody else has it in service: lowering the line or disabling the       *)
(* source ends the service, so that its next interrupt can be claimed      *)
(* again.                                                                  *)
ServiceIsCurrent ==
  /\ PendingIsLevelAndEnabled
  /\ Exclusive =>
       \A c \in Contexts : \A i \in claimed[c] :
         i \in pending[c] /\ \A d \in Contexts \ {c} : i \notin claimed[d]

(* What the scan finds is nothing if and only if nothing waits unclaimed,  *)
(* and is otherwise the waiting source of the highest priority, of several *)
(* the one with the lowest number.                                         *)
ScanFindsTheBest ==
  \A c \in Contexts :
    LET waiting == pending[c] \ claimed[c]
        best == BestPending(c)
    IN IF waiting = {} THEN best = NoSource
       ELSE /\ best \in waiting
            /\ \A i \in waiting :
                 \/ pendingPriority[c][i] < pendingPriority[c][best]
                 \/ pendingPriority[c][i] = pendingPriority[c][best] /\ best <= i

(* Routing, of the pins as the code drives them: a context that nothing    *)
(* has disturbed since it last drove its pin has set it in the hart and    *)
(* for the mode that the device tree announces, if and only if there is    *)
(* something left to claim.  The threshold plays no part in the code,      *)
(* although the comment at CONTEXT_THRESHOLD has the hart take interrupts  *)
(* above it only; that disagreement is not what this property is about.    *)
RoutedByDeviceTree ==
  \A c \in settled : DeviceTreePin(c) \in mip <=> BestPending(c) # NoSource
=============================================================================
