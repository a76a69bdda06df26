--------------------------- MODULE HookEventProofs ---------------------------
(***************************************************************************)
(* Proofs about HookEvent for every holder capacity and every set of       *)
(* events: the array and the count tell what may be called, and one        *)
(* dispatch asks every prefix and completes every postfix, although        *)
(* callbacks register events while the loops run.                          *)
(***************************************************************************)
EXTENDS HookEvent, TLAPS

LEMMA InitTypeOK == Init => TypeOK
<1> SUFFICES ASSUME Init PROVE TypeOK
  OBVIOUS
<1> USE HolderAssumption DEF HolderAssumption, Init
<1>1. i \in 0 .. Capacity /\ eventCount \in 0 .. Capacity /\ known \in 0 .. Capacity
  OBVIOUS
<1>2. live \subseteq Events /\ consulted \subseteq Slots /\ completed \subseteq Slots
  OBVIOUS
<1>3. events \in [Slots -> Events \cup {NoEvent}]
  OBVIOUS
<1> QED
  BY <1>1, <1>2, <1>3 DEF TypeOK

(* Every variable keeps its type: the loops' index and the count never      *)
(* leave the array.                                                         *)
THEOREM TypeCorrect == Spec => []TypeOK
<1>1. Init => TypeOK
  BY InitTypeOK
<1>2. TypeOK /\ [Next]_vars => TypeOK'
  <2> SUFFICES ASSUME TypeOK, [Next]_vars
               PROVE  TypeOK'
    OBVIOUS
  <2> USE HolderAssumption DEF HolderAssumption, TypeOK
  <2>1. CASE EnterCallback
    <3>1. consulted' \subseteq Slots /\ completed' \subseteq Slots /\ live' \subseteq Events
      BY <2>1 DEF EnterCallback, holder
    <3>2. events' \in [Slots -> Events \cup {NoEvent}] /\ cleared' \in BOOLEAN
      BY <2>1 DEF EnterCallback, holder
    <3> QED
      BY <2>1, <3>1, <3>2 DEF EnterCallback, holder
  <2> USE DEF Slots
  <2>2. CASE SkipPrefix
    BY <2>2 DEF SkipPrefix, holder
  <2>3. CASE CallPrefix
    BY <2>3 DEF CallPrefix, holder
  <2>4. CASE CallOrig
    BY <2>4 DEF CallOrig, holder
  <2>5. CASE SkipPostfix
    BY <2>5 DEF SkipPostfix, holder
  <2>6. CASE CallPostfix
    BY <2>6 DEF CallPostfix, holder
  <2>7. CASE LeaveCallback
    BY <2>7 DEF LeaveCallback, holder
  <2>8. ASSUME NEW e \in Events, AddEvent(e)
        PROVE  TypeOK'
    BY <2>8 DEF AddEvent, dispatch
  <2>9. CASE AddEventFails
    BY <2>9 DEF AddEventFails, vars, holder, dispatch
  <2>10. CASE RemoveEvents
    BY <2>10 DEF RemoveEvents, dispatch
  <2>11. CASE UNCHANGED vars
    BY <2>11 DEF vars, holder, dispatch
  <2> QED
    BY <2>1, <2>2, <2>3, <2>4, <2>5, <2>6, <2>7, <2>8, <2>9, <2>10, <2>11
       DEF Next, Dispatch
<1> QED
  BY <1>1, <1>2, PTL DEF Spec

-----------------------------------------------------------------------------
(* What the loops have done at any moment.  An index that has passed a slot *)
(* is never overtaken by the count, unless RemoveEvents intervened.         *)
LoopInv ==
  /\ pc # "idle" /\ ~cleared => i <= eventCount
  /\ pc = "prefix" /\ ~cleared =>
       consulted = {k \in Slots : k < i /\ events[k] \in Prefixed}
  /\ pc = "prefix" => completed = {}
  /\ pc = "postfix" /\ ~cleared => known <= eventCount

IInv ==
  /\ TypeOK
  /\ OnlyLiveEventsAreReachable
  /\ PrefixResultNeedsVeto
  /\ LoopInv
  /\ PostfixesAreComplete
  /\ OrigHasEveryConsent

LEMMA IInvHolds == Spec => []IInv
<1>1. Init => IInv
  <2> SUFFICES ASSUME Init, TypeOK PROVE IInv
    BY InitTypeOK
  <2>1. OnlyLiveEventsAreReachable
    BY HolderAssumption DEF HolderAssumption, Init, OnlyLiveEventsAreReachable, Registered, Slots
  <2>2. PrefixResultNeedsVeto /\ LoopInv /\ PostfixesAreComplete /\ OrigHasEveryConsent
    BY DEF Init, PrefixResultNeedsVeto, LoopInv, PostfixesAreComplete, OrigHasEveryConsent
  <2> QED
    BY <2>1, <2>2 DEF IInv
<1>2. TypeOK /\ TypeOK' /\ IInv /\ [Next]_vars => IInv'
  <2> SUFFICES ASSUME TypeOK, TypeOK', IInv, [Next]_vars
               PROVE  IInv'
    OBVIOUS
  <2> USE HolderAssumption
      DEF HolderAssumption, IInv, TypeOK, OnlyLiveEventsAreReachable, PrefixResultNeedsVeto,
          LoopInv, PostfixesAreComplete, OrigHasEveryConsent, Slots, Registered
  <2>1. CASE EnterCallback
    BY <2>1 DEF EnterCallback, holder
  <2>2. CASE SkipPrefix
    BY <2>2 DEF SkipPrefix, holder
  <2>3. CASE CallPrefix
    BY <2>3 DEF CallPrefix, holder
  <2>4. CASE CallOrig
    <3>1. OnlyLiveEventsAreReachable' /\ PrefixResultNeedsVeto'
      BY <2>4 DEF CallOrig, holder
    <3>2. LoopInv'
      BY <2>4 DEF CallOrig, holder
    <3>3. PostfixesAreComplete'
      <4>1. completed' = {} /\ i' = 0
        BY <2>4 DEF CallOrig
      <4>2. {k \in Slots : k < i' /\ events'[k] \in Postfixed} = {}
        BY <4>1
      <4> QED
        BY <4>1, <4>2
    <3>4. OrigHasEveryConsent'
      <4>1. ~cleared => i = eventCount
        BY <2>4 DEF CallOrig
      <4> QED
        BY <2>4, <4>1 DEF CallOrig, holder
    <3> QED
      BY <3>1, <3>2, <3>3, <3>4
  <2>5. CASE SkipPostfix
    BY <2>5 DEF SkipPostfix, holder
  <2>6. CASE CallPostfix
    BY <2>6 DEF CallPostfix, holder
  <2>7. CASE LeaveCallback
    BY <2>7 DEF LeaveCallback, holder
  <2>8. ASSUME NEW e \in Events, AddEvent(e)
        PROVE  IInv'
    BY <2>8 DEF AddEvent, dispatch
  <2>9. CASE AddEventFails
    BY <2>9 DEF AddEventFails, vars, holder, dispatch
  <2>10. CASE RemoveEvents
    BY <2>10 DEF RemoveEvents, dispatch
  <2>11. CASE UNCHANGED vars
    BY <2>11 DEF vars, holder, dispatch
  <2> QED
    BY <2>1, <2>2, <2>3, <2>4, <2>5, <2>6, <2>7, <2>8, <2>9, <2>10, <2>11
       DEF Next, Dispatch
<1> QED
  BY <1>1, <1>2, TypeCorrect, PTL DEF Spec

(* However often the holder is filled, emptied and refilled, the slots below *)
(* the count are the events accepted since: no stale pointer is called.      *)
THEOREM ReachableEvents == Spec => []OnlyLiveEventsAreReachable
BY IInvHolds, PTL DEF IInv

(* A dispatch nobody clears under its feet runs every postfix up to its      *)
(* index, those registered meanwhile included, and no other.                 *)
THEOREM EveryPostfixRuns == Spec => []PostfixesAreComplete
BY IInvHolds, PTL DEF IInv

(* The original function runs with the consent of every prefix registered by *)
(* the time it is called.                                                    *)
THEOREM EveryPrefixConsents == Spec => []OrigHasEveryConsent
BY IInvHolds, PTL DEF IInv

(* A postfix without its prefix belongs to an event registered too late to   *)
(* be asked.                                                                 *)
THEOREM OnlyLateEventsAreUnpaired == Spec => []UnpairedPostfixIsLate
<1>1. IInv => UnpairedPostfixIsLate
  BY HolderAssumption
     DEF HolderAssumption, IInv, TypeOK, Slots, OrigHasEveryConsent, UnpairedPostfixIsLate
<1> QED
  BY <1>1, IInvHolds, PTL

(* A result written by a prefix never survives the original function.        *)
THEOREM PrefixResults == Spec => []PrefixResultNeedsVeto
BY IInvHolds, PTL DEF IInv

(* Registration only appends: a step that leaves events registered leaves    *)
(* every earlier one in its slot.                                            *)
THEOREM EventsStay == Spec => AcceptedEventsStay
<1> DEFINE Stay == eventCount' # 0 =>
             \A k \in Slots : k < eventCount => k < eventCount' /\ events'[k] = events[k]
<1>1. TypeOK /\ [Next]_vars => Stay
  <2> SUFFICES ASSUME TypeOK, Next
               PROVE  Stay
    BY DEF vars, holder
  <2>1. ASSUME NEW e \in Events, AddEvent(e)
        PROVE  Stay
    BY <2>1, HolderAssumption DEF HolderAssumption, AddEvent, TypeOK, Slots
  <2>2. ASSUME UNCHANGED holder
        PROVE  Stay
    BY <2>2 DEF holder
  <2>3. CASE RemoveEvents
    BY <2>3 DEF RemoveEvents
  <2> QED
    BY <2>1, <2>2, <2>3
       DEF Next, Dispatch, EnterCallback, SkipPrefix, CallPrefix, CallOrig,
           SkipPostfix, CallPostfix, LeaveCallback, AddEventFails, vars
<1> QED
  BY <1>1, TypeCorrect, PTL DEF Spec, AcceptedEventsStay
=============================================================================
