------------------------- MODULE EventThreadsProofs -------------------------
(***************************************************************************)
(* Proofs about EventThreads for any threads, plugins, capacity and number *)
(* of loads.                                                               *)
(***************************************************************************)
EXTENDS EventThreads, TLAPS

Active(t) == adding[t] # Idle
Current(t) == Active(t) /\ adding[t].since = clears
Covered(k) == k \in written \/ Fillers(k) # {}

(* What an AddEvent in progress carries, and what it may have seen cleared. *)
Adders ==
  \A t \in Threads : Active(t) =>
    /\ adding[t].left # {} /\ adding[t].event \in Modules
    /\ adding[t].since <= clears

(* There is a clear for every load, after everything has been unmapped.    *)
Epochs ==
  /\ clears <= loads
  /\ loading # "idle" \/ mapped # {} => clears < loads
  /\ loading = "clearing" => mapped = {}
  /\ loading = "unmapping" => mapped # {}

Safe == TypeOK /\ Adders /\ Epochs

-----------------------------------------------------------------------------
LEMMA InitSafe == Init => Safe
<1> SUFFICES ASSUME Init PROVE Safe
  OBVIOUS
<1>1. TypeOK
  <2>1. Idle \in [event : Modules \cup {NoEvent}, slot : Slots,
                  left : SUBSET {"count", "slot"}, since : 0 .. MaxLoads]
    BY ThreadsAssumption DEF Idle, Slots
  <2>2. /\ met \in [GameThreads -> BOOLEAN] /\ torn \in [GameThreads -> BOOLEAN]
        /\ overlapped \in BOOLEAN /\ revived \in BOOLEAN
    BY DEF Init
  <2> QED
    BY <2>1, <2>2, ThreadsAssumption DEF Init, TypeOK, Slots
<1>2. Adders /\ Epochs
  BY DEF Init, Adders, Epochs, Active
<1> QED
  BY <1>1, <1>2 DEF Safe

(* AddEvent, begun by any thread for a mapped module.                      *)
LEMMA BeginAddSafe ==
  ASSUME Safe, NEW t \in Threads, NEW e \in mapped, BeginAdd(t, e),
         UNCHANGED <<dispatches, loader>>
  PROVE  Safe'
<1>1. /\ e \in Modules /\ eventCount \in Slots /\ clears \in 0 .. MaxLoads
  BY ThreadsAssumption DEF Safe, TypeOK, BeginAdd, Slots
<1>2. TypeOK'
  BY <1>1 DEF Safe, TypeOK, BeginAdd, dispatches, loader
<1>3. Adders'
  <2>1. /\ adding'[t] = [event |-> e, slot |-> eventCount, left |-> {"count", "slot"},
                         since |-> clears]
        /\ \A u \in Threads \ {t} : adding'[u] = adding[u]
        /\ clears' = clears
    BY DEF Safe, TypeOK, BeginAdd, loader
  <2>2. ASSUME NEW u \in Threads, u # t, Active(u)'
        PROVE  /\ adding'[u].left # {} /\ adding'[u].event \in Modules
               /\ adding'[u].since <= clears'
    BY <2>1, <2>2 DEF Safe, Adders, Active
  <2>3. /\ adding'[t].left # {} /\ adding'[t].event \in Modules
        /\ adding'[t].since <= clears'
    BY <1>1, <2>1
  <2> QED
    BY <2>2, <2>3 DEF Adders
<1>4. Epochs'
  BY DEF Safe, Epochs, BeginAdd, loader
<1> QED
  BY <1>2, <1>3, <1>4 DEF Safe

LEMMA StoreSafe ==
  ASSUME Safe, NEW t \in Threads, StoreCount(t) \/ StoreSlot(t)
  PROVE  Safe'
<1> DEFINE a == adding[t]
<1>1. /\ a \in [event : Modules \cup {NoEvent}, slot : Slots,
                left : SUBSET {"count", "slot"}, since : 0 .. MaxLoads]
      /\ a.left # {}
  BY DEF Safe, TypeOK, StoreCount, StoreSlot
<1>2. Active(t) /\ a.event \in Modules
  BY <1>1 DEF Safe, Adders, Active, Idle
<1>3. /\ adding' \in [Threads -> [event : Modules \cup {NoEvent}, slot : Slots,
                                  left : SUBSET {"count", "slot"}, since : 0 .. MaxLoads]]
      /\ Adders'
  <2>1. PICK store \in {"count", "slot"} : store \in a.left /\ Done(t, store) /\ clears' = clears
    BY DEF StoreCount, StoreSlot, loader
  <2>2. Idle \in [event : Modules \cup {NoEvent}, slot : Slots,
                  left : SUBSET {"count", "slot"}, since : 0 .. MaxLoads]
    BY ThreadsAssumption DEF Idle, Slots
  <2>3. CASE a.left = {store}
    <3>1. adding' = [adding EXCEPT ![t] = Idle]
      BY <2>1, <2>3 DEF Done
    <3> QED
      BY <2>1, <2>2, <3>1 DEF Safe, TypeOK, Adders, Active
  <2>4. CASE a.left # {store}
    <3>1. adding' = [adding EXCEPT ![t] = [a EXCEPT !.left = @ \ {store}]]
      BY <2>1, <2>4 DEF Done
    <3> QED
      BY <1>1, <1>2, <2>1, <2>4, <3>1 DEF Safe, TypeOK, Adders, Active
  <2> QED
    BY <2>3, <2>4
<1>4. accepted' \subseteq Slots \X Modules /\ revived' \in BOOLEAN
  <2>1. /\ accepted' \in {accepted, accepted \cup {<<a.slot, a.event>>}}
        /\ revived' = (revived \/ a.since # clears)
    BY DEF StoreCount, StoreSlot, Done
  <2>2. a.slot \in Slots /\ accepted \subseteq Slots \X Modules
    BY <1>1 DEF Safe, TypeOK
  <2> QED
    BY <1>2, <2>1, <2>2
<1>5. /\ events' \in [Slots -> Modules \cup {NoEvent}]
      /\ eventCount' \in 0 .. Capacity /\ written' \subseteq Slots
  <2> /\ events \in [Slots -> Modules \cup {NoEvent}] /\ eventCount \in 0 .. Capacity
      /\ written \subseteq Slots /\ a.slot \in Slots /\ a.event \in Modules
    BY <1>1, <1>2 DEF Safe, TypeOK
  <2>1. CASE StoreCount(t)
    BY <2>1, ThreadsAssumption DEF StoreCount, Slots
  <2>2. CASE StoreSlot(t)
    BY <2>2 DEF StoreSlot
  <2> QED
    BY <2>1, <2>2
<1>6. TypeOK'
  BY <1>3, <1>4, <1>5 DEF Safe, TypeOK, StoreCount, StoreSlot, dispatches, loader
<1>7. Epochs'
  BY DEF Safe, Epochs, StoreCount, StoreSlot, loader
<1> QED
  BY <1>3, <1>6, <1>7 DEF Safe

(* The dispatch changes nothing but its own variables.                     *)
Dispatching(d) ==
  EnterCallback(d) \/ CompareIndex(d) \/ ReadSlot(d) \/ CallEvent(d) \/ CallbackReturns(d)

LEMMA DispatchSafe ==
  ASSUME Safe, NEW d \in GameThreads, Dispatching(d)
  PROVE  Safe'
<1>1. UNCHANGED <<holder, adding, loader>>
  BY DEF Dispatching, EnterCallback, CompareIndex, ReadSlot, CallEvent, CallbackReturns
<1>2. /\ at' \in [GameThreads -> {"out", "loop", "read", "call", "inside", "faulted"}]
      /\ index' \in [GameThreads -> 0 .. Capacity]
      /\ target' \in [GameThreads -> Modules \cup {NoEvent}]
      /\ met' \in [GameThreads -> BOOLEAN] /\ torn' \in [GameThreads -> BOOLEAN]
      /\ \A u \in GameThreads : at'[u] \in {"read", "call", "inside"} => index'[u] \in Slots
  <2>1. CASE EnterCallback(d)
    <3>1. /\ met' \in [GameThreads -> BOOLEAN] /\ torn' \in [GameThreads -> BOOLEAN]
      <4>1. Unloading \in BOOLEAN
        BY DEF Unloading
      <4>2. /\ met' = [met EXCEPT ![d] = Unloading] /\ torn' = [torn EXCEPT ![d] = FALSE]
            /\ met \in [GameThreads -> BOOLEAN] /\ torn \in [GameThreads -> BOOLEAN]
        BY <2>1 DEF Safe, TypeOK, EnterCallback
      <4> QED
        BY <4>1, <4>2
    <3>2. /\ at' = [at EXCEPT ![d] = "loop"] /\ index' = [index EXCEPT ![d] = 0]
          /\ UNCHANGED target
      BY <2>1 DEF EnterCallback
    <3> QED
      BY <3>1, <3>2, ThreadsAssumption DEF Safe, TypeOK
  <2>2. CASE CompareIndex(d)
    BY <2>2, ThreadsAssumption DEF Safe, TypeOK, CompareIndex, Slots
  <2>3. CASE ReadSlot(d)
    <3>1. torn' \in [GameThreads -> BOOLEAN] /\ UNCHANGED met
      BY <2>3, Zenon DEF Safe, TypeOK, ReadSlot
    <3>2. /\ index[d] \in Slots /\ events[index[d]] \in Modules \cup {NoEvent}
          /\ index[d] + 1 \in 0 .. Capacity
      BY <2>3, ThreadsAssumption DEF Safe, TypeOK, ReadSlot, Slots
    <3>3. /\ at' \in {[at EXCEPT ![d] = "loop"], [at EXCEPT ![d] = "call"]}
          /\ index' \in {index, [index EXCEPT ![d] = @ + 1]}
          /\ at'[d] = "call" => UNCHANGED index
          /\ target' = [target EXCEPT ![d] = events[index[d]]]
      BY <2>3 DEF Safe, TypeOK, ReadSlot
    <3> QED
      BY <3>1, <3>2, <3>3, ThreadsAssumption DEF Safe, TypeOK
  <2>4. CASE CallEvent(d)
    BY <2>4 DEF Safe, TypeOK, CallEvent, RunsOrFaults
  <2>5. CASE CallbackReturns(d)
    BY <2>5, ThreadsAssumption DEF Safe, TypeOK, CallbackReturns, RunsOrFaults, Slots
  <2> QED
    BY <2>1, <2>2, <2>3, <2>4, <2>5 DEF Dispatching
<1>3. TypeOK'
  BY <1>1, <1>2 DEF Safe, TypeOK, holder, loader
<1>4. Adders' /\ Epochs'
  BY <1>1 DEF Safe, Adders, Epochs, Active, loader
<1> QED
  BY <1>3, <1>4 DEF Safe

Loading == LoadModules \/ FinishLoad \/ ClearEvents \/ \E m \in mapped : UnloadModule(m)

LEMMA LoadingSafe ==
  ASSUME Safe, Loading
  PROVE  Safe'
<1>1. /\ UNCHANGED <<adding, at, index, target, torn, events, revived>>
      /\ clears' \in {clears, clears + 1}
      /\ accepted' \in {accepted, {}} /\ written' \in {written, {}}
      /\ eventCount' \in {eventCount, 0} /\ overlapped' \in {overlapped, FALSE}
  BY DEF Loading, LoadModules, FinishLoad, ClearEvents, UnloadModule, dispatches, holder
<1>2. Epochs' /\ loads' \in 0 .. MaxLoads /\ mapped' \subseteq Modules
  BY ThreadsAssumption
  DEF Safe, TypeOK, Epochs, Loading, LoadModules, FinishLoad, ClearEvents, UnloadModule, Modules
<1>3. clears' \in 0 .. MaxLoads
  <2>1. clears \in Nat /\ clears' \in Nat
    BY <1>1, ThreadsAssumption DEF Safe, TypeOK
  <2>2. clears' <= loads' /\ loads' \in 0 .. MaxLoads
    BY <1>2 DEF Epochs
  <2> QED
    BY <2>1, <2>2, ThreadsAssumption
<1>4. /\ loading' \in {"idle", "mains", "unmapping", "clearing"}
      /\ met' \in [GameThreads -> BOOLEAN]
  BY DEF Safe, TypeOK, Loading, LoadModules, FinishLoad, ClearEvents, UnloadModule, dispatches
<1>5. TypeOK'
  <2>1. /\ events' \in [Slots -> Modules \cup {NoEvent}] /\ eventCount' \in 0 .. Capacity
        /\ written' \subseteq Slots /\ accepted' \subseteq Slots \X Modules
    BY <1>1, ThreadsAssumption DEF Safe, TypeOK
  <2>2. overlapped' \in BOOLEAN /\ revived' \in BOOLEAN /\ torn' \in [GameThreads -> BOOLEAN]
    BY <1>1 DEF Safe, TypeOK
  <2> QED
    BY <1>1, <1>2, <1>3, <1>4, <2>1, <2>2 DEF Safe, TypeOK
<1>6. Adders'
  BY <1>1, <1>3 DEF Safe, TypeOK, Adders, Active
<1> QED
  BY <1>2, <1>5, <1>6 DEF Safe

(* Every step is one of four kinds.                                        *)
LEMMA StepKinds ==
  ASSUME TypeOK, Next
  PROVE  \/ \E t \in Threads : StoreCount(t) \/ StoreSlot(t)
         \/ \E d \in GameThreads : Dispatching(d)
         \/ Loading
         \/ \E t \in Threads, e \in mapped : BeginAdd(t, e) /\ UNCHANGED <<dispatches, loader>>
  BY DEF Next, Dispatching, Loading, CallbackAdds, PluginMainAdds, Threads

LEMMA SafeHolds == Spec => []Safe
<1>1. Safe /\ [Next]_vars => Safe'
  <2> SUFFICES ASSUME Safe, [Next]_vars PROVE Safe'
    OBVIOUS
  <2>1. CASE UNCHANGED vars
    BY <2>1 DEF Safe, TypeOK, Adders, Epochs, Active, vars, holder, dispatches, loader
  <2>2. CASE Next
    BY <2>2, StepKinds, BeginAddSafe, StoreSafe, DispatchSafe, LoadingSafe DEF Safe
  <2> QED
    BY <2>1, <2>2
<1> QED
  BY <1>1, InitSafe, PTL DEF Spec

(* Types, and a dispatch that reads inside the array, whatever other       *)
(* threads register or clear meanwhile (HookEvent.h 86-112).               *)
THEOREM TypeCorrect == Spec => []TypeOK
BY SafeHolds, PTL DEF Safe

-----------------------------------------------------------------------------
(* What counts and slots owe each other.  An AddEvent that began before the  *)
(* last clear owes nothing; once it has stored, nothing is claimed.          *)
Counted ==
  revived \/
    /\ \A k \in Slots : k < eventCount => Covered(k)
    /\ \A t \in Threads : Current(t) =>
         /\ \A k \in Slots : k < adding[t].slot => Covered(k)
         /\ "slot" \notin adding[t].left => adding[t].slot \in written

(* A store of thread t moves t on and no other thread.                       *)
LEMMA StoreEffect ==
  ASSUME Safe, NEW t \in Threads, NEW store \in {"count", "slot"},
         \/ store = "count" /\ StoreCount(t)
         \/ store = "slot" /\ StoreSlot(t)
  PROVE  /\ Active(t) /\ store \in adding[t].left
         /\ adding[t].slot \in Slots /\ adding[t].event \in Modules
         /\ \A u \in Threads \ {t} : adding'[u] = adding[u]
         /\ \/ adding'[t] = Idle /\ adding[t].left = {store}
            \/ adding'[t] = [adding[t] EXCEPT !.left = @ \ {store}] /\ adding[t].left # {store}
         /\ adding'[t].left = adding[t].left \ {store}
         /\ Active(t)' => /\ adding'[t].slot = adding[t].slot
                          /\ adding'[t].event = adding[t].event
                          /\ adding'[t].since = adding[t].since
         /\ revived' = (revived \/ adding[t].since # clears)
         /\ accepted' = IF adding[t].left = {store} /\ adding[t].since = clears
                        THEN accepted \cup {<<adding[t].slot, adding[t].event>>} ELSE accepted
         /\ clears' = clears /\ UNCHANGED loader /\ UNCHANGED dispatches /\ UNCHANGED overlapped
<1> DEFINE a == adding[t]
<1>1. /\ adding \in [Threads -> [event : Modules \cup {NoEvent}, slot : Slots,
                                 left : SUBSET {"count", "slot"}, since : 0 .. MaxLoads]]
      /\ store \in a.left /\ Done(t, store) /\ UNCHANGED <<loader, dispatches, overlapped>>
  BY DEF Safe, TypeOK, StoreCount, StoreSlot
<1>2. Active(t) /\ a.event \in Modules /\ a.slot \in Slots
  BY <1>1 DEF Safe, Adders, Active, Idle
<1>3. /\ \A u \in Threads \ {t} : adding'[u] = adding[u]
      /\ \/ adding'[t] = Idle /\ a.left = {store}
         \/ adding'[t] = [a EXCEPT !.left = @ \ {store}] /\ a.left # {store}
  BY <1>1 DEF Done
<1>4. adding'[t].left = a.left \ {store}
  BY <1>1, <1>3 DEF Idle
<1>5. Active(t)' => /\ adding'[t].slot = a.slot /\ adding'[t].event = a.event
                    /\ adding'[t].since = a.since
  BY <1>1, <1>3 DEF Active
<1> QED
  BY <1>1, <1>2, <1>3, <1>4, <1>5 DEF Done, loader

(* Once written or being written, a slot stays so until the clear.           *)
LEMMA CoveredByStore ==
  ASSUME Safe, NEW t \in Threads, NEW k \in Slots, Covered(k), StoreCount(t) \/ StoreSlot(t)
  PROVE  Covered(k)'
<1>1. CASE StoreCount(t)
  <2>1. written' = written
    BY <1>1 DEF StoreCount
  <2>2. ASSUME NEW u \in Fillers(k) PROVE u \in Fillers(k)'
    <3>1. CASE u = t
      <4>1. adding'[t].left = adding[t].left \ {"count"} /\ "slot" \in adding[t].left
            /\ adding[t].slot = k
        BY <1>1, <2>2, <3>1, StoreEffect DEF Fillers
      <4>2. adding'[t] = [adding[t] EXCEPT !.left = @ \ {"count"}]
        BY <1>1, <4>1, StoreEffect
      <4>3. "slot" \in adding'[t].left
        BY <4>1
      <4>4. adding'[t].slot = k
        BY <4>1, <4>2
      <4> QED
        BY <3>1, <4>3, <4>4 DEF Fillers
    <3>2. CASE u # t
      BY <1>1, <2>2, <3>2, StoreEffect DEF Fillers
    <3> QED
      BY <3>1, <3>2
  <2> QED
    BY <2>1, <2>2 DEF Covered
<1>2. CASE StoreSlot(t)
  <2>1. written' = written \cup {adding[t].slot}
    BY <1>2 DEF StoreSlot
  <2>2. ASSUME NEW u \in Fillers(k), u # t PROVE u \in Fillers(k)'
    BY <1>2, <2>2, StoreEffect DEF Fillers
  <2>3. t \in Fillers(k) => k \in written'
    BY <2>1 DEF Fillers
  <2> QED
    BY <2>1, <2>2, <2>3 DEF Covered
<1> QED
  BY <1>1, <1>2

LEMMA CoveredByBegin ==
  ASSUME Safe, NEW t \in Threads, NEW e, NEW k \in Slots, Covered(k), BeginAdd(t, e)
  PROVE  Covered(k)'
<1>1. ASSUME NEW u \in Fillers(k) PROVE u \in Fillers(k)'
  <2>1. u \in Threads /\ u # t
    BY <1>1 DEF Fillers, BeginAdd, Idle
  <2>2. adding'[u] = adding[u]
    BY <2>1 DEF BeginAdd, Safe, TypeOK
  <2> QED
    BY <1>1, <2>1, <2>2 DEF Fillers
<1> QED
  BY <1>1 DEF Covered, BeginAdd

LEMMA CountedByStore ==
  ASSUME Safe, Counted, NEW t \in Threads, StoreCount(t) \/ StoreSlot(t)
  PROVE  Counted'
<1> SUFFICES ASSUME ~revived' PROVE Counted'
  BY DEF Counted
<1> DEFINE a == adding[t]
<1>1. ~revived /\ Current(t) /\ a.slot \in Slots
  BY StoreEffect DEF Current
<1>2. /\ \A k \in Slots : Covered(k) => Covered(k)'
      /\ \A k \in Slots : k < eventCount => Covered(k)
      /\ \A u \in Threads : Current(u) =>
           /\ \A k \in Slots : k < adding[u].slot => Covered(k)
           /\ "slot" \notin adding[u].left => adding[u].slot \in written
  BY <1>1, CoveredByStore DEF Counted
<1> PICK n \in Slots : n = a.slot
  BY <1>1
<1>3. Covered(n)'
  <2>1. "slot" \in a.left => Covered(n)
    BY DEF Covered, Fillers
  <2>2. "slot" \notin a.left => Covered(n)
    BY <1>1, <1>2 DEF Covered
  <2> QED
    BY <1>2, <2>1, <2>2
<1>4. ASSUME NEW k \in Slots, k < eventCount' PROVE Covered(k)'
  <2>1. CASE StoreCount(t)
    <3>1. k < n \/ k = n
      BY <1>1, <1>4, <2>1, ThreadsAssumption DEF StoreCount, Slots
    <3> QED
      BY <1>1, <1>2, <1>3, <3>1
  <2>2. CASE StoreSlot(t)
    BY <1>2, <1>4, <2>2 DEF StoreSlot
  <2> QED
    BY <2>1, <2>2
<1>5. ASSUME NEW u \in Threads, Current(u)'
      PROVE  /\ \A k \in Slots : k < adding'[u].slot => Covered(k)'
             /\ "slot" \notin adding'[u].left => adding'[u].slot \in written'
  <2>1. CASE u # t
    <3>1. adding'[u] = adding[u] /\ clears' = clears /\ Current(u)
      BY <1>5, <2>1, StoreEffect DEF Current, Active
    <3> QED
      BY <1>2, <3>1 DEF StoreCount, StoreSlot
  <2>2. CASE u = t
    <3>1. adding'[t].slot = a.slot
      BY <1>5, <2>2, StoreEffect DEF Current, Active
    <3>2. "slot" \notin adding'[t].left => a.slot \in written'
      <4>1. CASE StoreCount(t)
        <5>1. adding'[t].left = a.left \ {"count"} /\ written' = written
          BY <4>1, StoreEffect DEF StoreCount
        <5> QED
          BY <1>1, <1>2, <5>1
      <4>2. CASE StoreSlot(t)
        BY <4>2 DEF StoreSlot
      <4> QED
        BY <4>1, <4>2
    <3> QED
      BY <1>1, <1>2, <2>2, <3>1, <3>2
  <2> QED
    BY <2>1, <2>2
<1> QED
  BY <1>4, <1>5 DEF Counted

LEMMA CountedByBegin ==
  ASSUME Safe, Counted, NEW t \in Threads, NEW e, BeginAdd(t, e), UNCHANGED loader
  PROVE  Counted'
<1> SUFFICES ASSUME ~revived' PROVE Counted'
  BY DEF Counted
<1>1. ~revived /\ UNCHANGED <<eventCount, written, clears>>
  BY DEF BeginAdd, loader
<1>2. \A k \in Slots : Covered(k) => Covered(k)'
  BY CoveredByBegin
<1>3. ASSUME NEW u \in Threads, Current(u)'
      PROVE  /\ \A k \in Slots : k < adding'[u].slot => Covered(k)'
             /\ "slot" \notin adding'[u].left => adding'[u].slot \in written'
  <2>1. CASE u # t
    <3>1. adding'[u] = adding[u] /\ Current(u)
      BY <1>1, <1>3, <2>1 DEF Current, Active, BeginAdd, Safe, TypeOK
    <3> QED
      BY <1>1, <1>2, <3>1 DEF Counted
  <2>2. CASE u = t
    <3>1. adding'[t].slot = eventCount /\ "slot" \in adding'[t].left
      BY DEF BeginAdd, Safe, TypeOK
    <3> QED
      BY <1>1, <1>2, <2>2, <3>1 DEF Counted
  <2> QED
    BY <2>1, <2>2
<1> QED
  BY <1>1, <1>2, <1>3 DEF Counted

(* Nobody who has begun to add is current after a clear.                     *)
LEMMA ClearEndsAdding ==
  ASSUME Safe, ClearEvents, NEW t \in Threads
  PROVE  ~Current(t)'
<1>1. Active(t) => adding[t].since <= clears /\ adding[t].since \in Nat /\ clears \in Nat
  BY DEF Safe, Adders, TypeOK
<1> QED
  BY <1>1 DEF ClearEvents, Current, Active

LEMMA CountedByLoading ==
  ASSUME Safe, Counted, Loading
  PROVE  Counted'
<1>1. CASE ClearEvents
  <2>1. \A k \in Slots : ~(k < eventCount')
    BY <1>1 DEF ClearEvents, Slots
  <2> QED
    BY <1>1, <2>1, ClearEndsAdding DEF Counted
<1>2. CASE ~ClearEvents
  <2>1. UNCHANGED <<holder, adding, clears>>
    BY <1>2 DEF Loading, LoadModules, FinishLoad, UnloadModule
  <2> QED
    BY <2>1 DEF Counted, Covered, Current, Active, Fillers, holder
<1> QED
  BY <1>1, <1>2

LEMMA CountedByDispatch ==
  ASSUME Counted, UNCHANGED <<holder, adding, loader>>
  PROVE  Counted'
BY DEF Counted, Covered, Current, Active, Fillers, holder, loader

LEMMA CountedHolds == Spec => []Counted
<1>1. Init => Counted
  BY DEF Init, Counted, Current, Active, Slots
<1>2. Safe /\ Counted /\ [Next]_vars => Counted'
  <2> SUFFICES ASSUME Safe, Counted, [Next]_vars PROVE Counted'
    OBVIOUS
  <2>1. CASE UNCHANGED vars
    BY <2>1, CountedByDispatch DEF vars
  <2>2. ASSUME NEW d \in GameThreads, Dispatching(d) PROVE Counted'
    BY <2>2, CountedByDispatch
    DEF Dispatching, EnterCallback, CompareIndex, ReadSlot, CallEvent, CallbackReturns
  <2>3. CASE Next
    BY <2>2, <2>3, StepKinds, CountedByBegin, CountedByStore, CountedByLoading DEF Safe
  <2> QED
    BY <2>1, <2>3
<1> QED
  BY <1>1, <1>2, SafeHolds, PTL DEF Spec

(* No counted slot is older than the AddEvent that counted it: what a        *)
(* dispatch finds below the count was stored since the last clear, or is     *)
(* about to be (HookEvent.h 107-112).                                        *)
THEOREM CountedSlotsWritten == Spec => []CountedSlotsAreWritten
<1>1. Counted => CountedSlotsAreWritten
  BY DEF Counted, CountedSlotsAreWritten, Covered
<1> QED
  BY <1>1, CountedHolds, PTL

-----------------------------------------------------------------------------
(* While registrations do not overlap, the one AddEvent that is current      *)
(* works behind everything accepted, and count and slot follow its stores.   *)
Accepted == \A r \in accepted : r[1] < eventCount /\ events[r[1]] = r[2]

Alone(t) ==
  /\ \A u \in Threads \ {t} : ~Active(u)
  /\ eventCount = IF "count" \in adding[t].left THEN adding[t].slot ELSE adding[t].slot + 1
  /\ "slot" \notin adding[t].left => events[adding[t].slot] = adding[t].event
  /\ \A r \in accepted : r[1] < adding[t].slot

Kept == revived \/ overlapped \/ (Accepted /\ \A t \in Threads : Current(t) => Alone(t))

LEMMA KeptByStore ==
  ASSUME Safe, Kept, NEW t \in Threads, StoreCount(t) \/ StoreSlot(t)
  PROVE  Kept'
<1> SUFFICES ASSUME ~revived', ~overlapped' PROVE Kept'
  BY DEF Kept
<1>1. /\ ~revived /\ ~overlapped /\ Current(t) /\ adding[t].since = clears /\ clears' = clears
      /\ adding[t].slot \in Slots
  BY StoreEffect DEF Current
<1>2. Accepted /\ Alone(t)
  BY <1>1 DEF Kept
<1> PICK n \in Slots : n = adding[t].slot
  BY <1>1
<1>3. accepted \subseteq Slots \X Modules /\ events \in [Slots -> Modules \cup {NoEvent}]
      /\ eventCount \in Nat /\ adding[t].left \subseteq {"count", "slot"}
  BY DEF Safe, TypeOK
<1>4. /\ \A r \in accepted : r[1] \in Slots /\ r[1] < n /\ r[1] < eventCount'
                             /\ events'[r[1]] = r[2]
      /\ \A u \in Threads \ {t} : ~Active(u)'
  <2>1. ASSUME NEW r \in accepted
        PROVE  r[1] \in Slots /\ r[1] < n /\ r[1] < eventCount' /\ events'[r[1]] = r[2]
    <3>1. r[1] \in Slots /\ r[1] < n /\ r[1] < eventCount /\ events[r[1]] = r[2]
      BY <1>2, <1>3, <2>1 DEF Accepted, Alone
    <3>2. CASE StoreCount(t)
      BY <3>1, <3>2 DEF StoreCount, Slots
    <3>3. CASE StoreSlot(t)
      <4>1. events' = [events EXCEPT ![n] = adding[t].event] /\ eventCount' = eventCount
        BY <3>3 DEF StoreSlot
      <4>2. r[1] # n
        BY <3>1 DEF Slots
      <4> QED
        BY <1>3, <3>1, <4>1, <4>2
    <3> QED
      BY <3>2, <3>3
  <2>2. \A u \in Threads \ {t} : adding'[u] = adding[u]
    BY StoreEffect
  <2>3. \A u \in Threads \ {t} : ~Active(u)
    BY <1>2 DEF Alone
  <2>4. \A u \in Threads \ {t} : ~Active(u)'
    BY <2>2, <2>3 DEF Active
  <2> QED
    BY <2>1, <2>4
<1>5. /\ "count" \notin adding'[t].left => eventCount' = n + 1
      /\ "count" \in adding'[t].left => eventCount' = n
      /\ "slot" \notin adding'[t].left => events'[n] = adding[t].event
  <2>1. CASE StoreCount(t)
    <3>1. /\ adding'[t].left = adding[t].left \ {"count"} /\ eventCount' = n + 1
          /\ events' = events
      BY <2>1, StoreEffect DEF StoreCount
    <3> QED
      BY <1>2, <3>1 DEF Alone
  <2>2. CASE StoreSlot(t)
    <3>1. /\ adding'[t].left = adding[t].left \ {"slot"} /\ eventCount' = eventCount
          /\ events' = [events EXCEPT ![n] = adding[t].event]
      BY <2>2, StoreEffect DEF StoreSlot
    <3> QED
      BY <1>2, <1>3, <3>1 DEF Alone
  <2> QED
    BY <2>1, <2>2
<1>6. CASE adding'[t] = Idle
  <2>1. accepted' \subseteq accepted \cup {<<n, adding[t].event>>}
    BY StoreEffect
  <2>2. eventCount' = n + 1 /\ events'[n] = adding[t].event
    BY <1>5, <1>6 DEF Idle
  <2>3. n < n + 1
    BY DEF Slots
  <2>4. Accepted'
    BY <1>4, <2>1, <2>2, <2>3 DEF Accepted
  <2>5. \A u \in Threads : ~Current(u)'
    BY <1>4, <1>6 DEF Current, Active
  <2> QED
    BY <2>4, <2>5 DEF Kept
<1>7. CASE adding'[t] # Idle
  <2>1. Active(t)'
    BY <1>7 DEF Active
  <2>2. accepted' = accepted
    BY <1>7, StoreEffect
  <2>3. adding'[t].slot = n /\ adding'[t].event = adding[t].event
    BY <2>1, StoreEffect
  <2>4. Alone(t)'
    BY <1>4, <1>5, <2>2, <2>3 DEF Alone
  <2>5. Accepted'
    BY <1>4, <2>2 DEF Accepted
  <2>6. \A u \in Threads : Current(u)' => u = t
    BY <1>4 DEF Current
  <2> QED
    BY <2>4, <2>5, <2>6 DEF Kept
<1> QED
  BY <1>6, <1>7

LEMMA KeptByBegin ==
  ASSUME Safe, Kept, NEW t \in Threads, NEW e, BeginAdd(t, e), UNCHANGED loader
  PROVE  Kept'
<1> SUFFICES ASSUME ~revived', ~overlapped' PROVE Kept'
  BY DEF Kept
<1>1. /\ ~revived /\ ~overlapped /\ \A u \in Threads \ {t} : ~Active(u)
      /\ UNCHANGED <<events, eventCount, accepted, clears>>
      /\ Accepted
  BY DEF BeginAdd, loader, Active, Kept
<1>2. /\ adding'[t] = [event |-> e, slot |-> eventCount, left |-> {"count", "slot"},
                       since |-> clears]
      /\ \A u \in Threads \ {t} : adding'[u] = adding[u]
  BY DEF BeginAdd, Safe, TypeOK
<1>3. Accepted' /\ \A u \in Threads \ {t} : ~Active(u)'
  BY <1>1, <1>2 DEF Accepted, Active
<1>4. Alone(t)'
  BY <1>1, <1>2, <1>3 DEF Alone, Accepted
<1> QED
  BY <1>3, <1>4 DEF Kept, Current

LEMMA KeptByLoading ==
  ASSUME Safe, Kept, Loading
  PROVE  Kept'
<1>1. CASE ClearEvents
  <2>1. accepted' = {}
    BY <1>1 DEF ClearEvents
  <2> QED
    BY <1>1, <2>1, ClearEndsAdding DEF Kept, Accepted
<1>2. CASE ~ClearEvents
  <2>1. UNCHANGED <<holder, adding, clears>>
    BY <1>2 DEF Loading, LoadModules, FinishLoad, UnloadModule
  <2> QED
    BY <2>1 DEF Kept, Accepted, Alone, Current, Active, holder
<1> QED
  BY <1>1, <1>2

LEMMA KeptByDispatch ==
  ASSUME Kept, UNCHANGED <<holder, adding, loader>>
  PROVE  Kept'
BY DEF Kept, Accepted, Alone, Current, Active, holder, loader

(* What addEvent accepted keeps its place until the clear, unless two        *)
(* registrations ran at once (EventHolders.h 9-16, HookEvent.h 107-112).     *)
THEOREM RegistrationsKept == Spec => []RegistrationsAreKept
<1>1. Init => Kept
  BY DEF Init, Kept, Accepted, Current, Active
<1>2. Safe /\ Kept /\ [Next]_vars => Kept'
  <2> SUFFICES ASSUME Safe, Kept, [Next]_vars PROVE Kept'
    OBVIOUS
  <2>1. CASE UNCHANGED vars
    BY <2>1, KeptByDispatch DEF vars
  <2>2. ASSUME NEW d \in GameThreads, Dispatching(d) PROVE Kept'
    BY <2>2, KeptByDispatch
    DEF Dispatching, EnterCallback, CompareIndex, ReadSlot, CallEvent, CallbackReturns
  <2>3. CASE Next
    BY <2>2, <2>3, StepKinds, KeptByBegin, KeptByStore, KeptByLoading DEF Safe
  <2> QED
    BY <2>1, <2>3
<1>3. Kept => RegistrationsAreKept
  BY DEF Kept, Accepted, RegistrationsAreKept
<1> QED
  BY <1>1, <1>2, <1>3, SafeHolds, PTL DEF Spec

-----------------------------------------------------------------------------
(* Slots written since the last clear belong to modules that are mapped, and *)
(* before the first clear the others are empty.                              *)
Fresh ==
  /\ ~Unloading => \A t \in Threads : Current(t) => adding[t].event \in mapped
  /\ ~Unloading /\ ~revived => \A k \in written : events[k] \in mapped
  /\ clears = 0 => ~revived /\ \A k \in Slots \ written : events[k] = NoEvent

LEMMA FreshByStore ==
  ASSUME Safe, Fresh, NEW t \in Threads, StoreCount(t) \/ StoreSlot(t)
  PROVE  Fresh'
<1>1. /\ clears' = clears /\ UNCHANGED <<loading, mapped>> /\ Unloading' = Unloading
      /\ adding[t].slot \in Slots /\ Active(t)
      /\ revived' = (revived \/ adding[t].since # clears)
  <2>1. /\ clears' = clears /\ UNCHANGED loader /\ adding[t].slot \in Slots /\ Active(t)
        /\ revived' = (revived \/ adding[t].since # clears)
    BY StoreEffect
  <2> QED
    BY <2>1 DEF loader, Unloading
<1>2. ASSUME NEW u \in Threads, Current(u)'
      PROVE  Current(u) /\ adding'[u].event = adding[u].event
  BY <1>1, <1>2, StoreEffect DEF Current, Active
<1>3. ASSUME ~Unloading, ~revived' PROVE \A k \in written' : events'[k] \in mapped
  <2>1. Current(t) /\ adding[t].event \in mapped
    BY <1>1, <1>3 DEF Current, Fresh
  <2>2. CASE StoreCount(t)
    BY <1>1, <1>3, <2>2 DEF StoreCount, Fresh
  <2>3. CASE StoreSlot(t)
    BY <1>1, <1>3, <2>1, <2>3 DEF StoreSlot, Fresh, Safe, TypeOK
  <2> QED
    BY <2>2, <2>3
<1>4. ASSUME clears = 0
      PROVE  ~revived' /\ \A k \in Slots \ written' : events'[k] = NoEvent
  <2>1. adding[t].since = clears
    BY <1>1, <1>4 DEF Safe, Adders, TypeOK
  <2> ~revived'
    BY <1>1, <1>4, <2>1 DEF Fresh
  <2>2. CASE StoreCount(t)
    BY <1>4, <2>1, <2>2 DEF StoreCount, Fresh
  <2>3. CASE StoreSlot(t)
    BY <1>4, <2>1, <2>3 DEF StoreSlot, Fresh, Safe, TypeOK
  <2> QED
    BY <2>2, <2>3
<1> QED
  BY <1>1, <1>2, <1>3, <1>4 DEF Fresh

LEMMA FreshByBegin ==
  ASSUME Safe, Fresh, NEW t \in Threads, NEW e \in mapped, BeginAdd(t, e), UNCHANGED loader
  PROVE  Fresh'
<1>1. /\ UNCHANGED <<clears, loading, mapped, events, written, revived>> /\ Unloading' = Unloading
  BY DEF BeginAdd, loader, Unloading
<1>2. ASSUME NEW u \in Threads, Current(u)', ~Unloading
      PROVE  adding'[u].event \in mapped
  <2>1. CASE u = t
    BY <2>1 DEF BeginAdd, Safe, TypeOK
  <2>2. CASE u # t
    BY <1>1, <1>2, <2>2 DEF BeginAdd, Safe, TypeOK, Fresh, Current, Active
  <2> QED
    BY <2>1, <2>2
<1> QED
  BY <1>1, <1>2 DEF Fresh

LEMMA FreshByLoading ==
  ASSUME Safe, Fresh, Loading
  PROVE  Fresh'
<1>1. CASE LoadModules
  <2>1. /\ mapped = {} /\ ~Unloading /\ UNCHANGED <<holder, adding, clears>>
    BY <1>1 DEF LoadModules, Unloading
  <2>2. (\A t \in Threads : ~Current(t)) /\ (~revived => written = {})
    BY <2>1 DEF Fresh
  <2> QED
    BY <2>1, <2>2 DEF Fresh, Current, Active, holder
<1>2. CASE FinishLoad
  <2>1. ~Unloading /\ UNCHANGED <<holder, adding, clears, mapped>>
    BY <1>2 DEF FinishLoad, Unloading
  <2> QED
    BY <2>1 DEF Fresh, Current, Active, holder
<1>3. CASE ClearEvents
  <2>1. clears' # 0 /\ written' = {}
    BY <1>3 DEF ClearEvents, Safe, TypeOK
  <2> QED
    BY <1>3, <2>1, ClearEndsAdding DEF Fresh
<1>4. ASSUME NEW m \in mapped, UnloadModule(m) PROVE Fresh'
  <2>1. Unloading' /\ UNCHANGED <<holder, adding, clears>>
    BY <1>4 DEF UnloadModule, Unloading
  <2> QED
    BY <2>1 DEF Fresh, holder
<1> QED
  BY <1>1, <1>2, <1>3, <1>4 DEF Loading

(* A dispatch that no unload met stands on slots and callbacks of modules    *)
(* that are there.                                                           *)
Excused(d) == met[d] \/ (torn[d] /\ clears > 0) \/ revived

Reached ==
  \A d \in GameThreads :
    /\ at[d] # "out" /\ ~met[d] => ~Unloading
    /\ ~Excused(d) =>
         /\ at[d] = "read" => Covered(index[d])
         /\ at[d] \in {"call", "inside"} => target[d] \in mapped
         /\ at[d] # "faulted"

LEMMA ReachedByAdding ==
  ASSUME Safe, Reached, UNCHANGED <<dispatches, loader>>, NEW t \in Threads,
         \/ StoreCount(t) \/ StoreSlot(t)
         \/ \E e \in mapped : BeginAdd(t, e)
  PROVE  Reached'
<1>1. /\ UNCHANGED <<at, index, target, met, torn, loading, mapped, clears>>
      /\ Unloading' = Unloading
  BY DEF dispatches, loader, Unloading
<1>2. revived => revived'
  BY DEF StoreCount, StoreSlot, Done, BeginAdd
<1>3. \A d \in GameThreads : at[d] = "read" => index[d] \in Slots
  BY DEF Safe, TypeOK
<1>4. ASSUME NEW k \in Slots, Covered(k) PROVE Covered(k)'
  BY <1>4, CoveredByStore, CoveredByBegin
<1>5. ASSUME NEW d \in GameThreads, Covered(index[d]), at[d] = "read" PROVE Covered(index[d])'
  <2>1. PICK k \in Slots : k = index[d]
    BY <1>3, <1>5
  <2>2. Covered(k)'
    BY <1>4, <1>5, <2>1
  <2> QED
    BY <1>1, <2>1, <2>2
<1> QED
  BY <1>1, <1>2, <1>5 DEF Reached, Excused

LEMMA ReachedByLoading ==
  ASSUME Safe, Reached, Loading
  PROVE  Reached'
<1>1. UNCHANGED <<adding, at, index, target, torn, revived>>
  BY DEF Loading, LoadModules, FinishLoad, ClearEvents, UnloadModule, holder, dispatches
<1>2. CASE LoadModules
  <2>1. mapped = {} /\ ~Unloading' /\ UNCHANGED <<met, clears, written>>
    BY <1>2 DEF LoadModules, Unloading, dispatches, holder
  <2> QED
    BY <1>1, <2>1 DEF Reached, Excused, Covered, Fillers
<1>3. CASE FinishLoad
  <2>1. ~Unloading' /\ UNCHANGED <<met, clears, written, mapped>>
    BY <1>3 DEF FinishLoad, Unloading, dispatches, holder
  <2> QED
    BY <1>1, <2>1 DEF Reached, Excused, Covered, Fillers
<1>4. CASE ClearEvents
  <2>1. Unloading /\ ~Unloading' /\ met' = met /\ at' = at
    BY <1>4 DEF ClearEvents, Unloading, dispatches
  <2>2. \A d \in GameThreads : at[d] = "out" \/ met[d]
    BY <2>1 DEF Reached
  <2> QED
    BY <1>1, <2>1, <2>2 DEF Reached, Excused
<1>5. ASSUME NEW m \in mapped, UnloadModule(m) PROVE Reached'
  <2>1. /\ Unloading' /\ at' = at
        /\ met' = [d \in GameThreads |-> met[d] \/ at[d] # "out"]
    BY <1>5 DEF UnloadModule, Unloading
  <2>2. \A d \in GameThreads : at'[d] = "out" \/ met'[d]
    BY <2>1
  <2> QED
    BY <2>2 DEF Reached, Excused
<1> QED
  BY <1>2, <1>3, <1>4, <1>5 DEF Loading

LEMMA ReachedByDispatch ==
  ASSUME Safe, Counted, Fresh, Reached, NEW d \in GameThreads, Dispatching(d)
  PROVE  Reached'
<1>1. /\ UNCHANGED <<holder, adding, loader>> /\ Unloading' = Unloading
      /\ \A k \in Slots : Covered(k)' <=> Covered(k)
  BY DEF Dispatching, EnterCallback, CompareIndex, ReadSlot, CallEvent, CallbackReturns,
         Unloading, loader, Covered, Fillers, holder
<1>2. ASSUME NEW u \in GameThreads, u # d
      PROVE  /\ at'[u] = at[u] /\ index'[u] = index[u] /\ target'[u] = target[u]
             /\ met'[u] = met[u] /\ torn'[u] = torn[u]
  BY <1>2 DEF Dispatching, EnterCallback, CompareIndex, ReadSlot, CallEvent, CallbackReturns,
         RunsOrFaults, Safe, TypeOK
<1>3. /\ at'[d] # "out" /\ ~met'[d] => ~Unloading
      /\ ~Excused(d)' =>
           /\ at'[d] = "read" => Covered(index[d]) /\ index'[d] = index[d] /\ index[d] \in Slots
           /\ at'[d] \in {"call", "inside"} => target'[d] \in mapped
           /\ at'[d] # "faulted"
  <2>1. CASE EnterCallback(d)
    BY <2>1 DEF EnterCallback, Safe, TypeOK
  <2>2. CASE CompareIndex(d)
    <3>1. /\ met' = met /\ torn' = torn /\ at[d] = "loop" /\ index' = index
          /\ at'[d] = "read" => index[d] < eventCount
          /\ at'[d] \in {"read", "out"}
      BY <2>2 DEF CompareIndex, Safe, TypeOK
    <3>2. at'[d] = "read" => index[d] \in Slots
      BY <2>2, <3>1, ThreadsAssumption DEF Safe, TypeOK, Slots
    <3>3. ~revived /\ at'[d] = "read" => Covered(index[d])
      BY <3>1, <3>2 DEF Counted
    <3> QED
      BY <1>1, <3>1, <3>2, <3>3 DEF Reached, Excused, holder
  <2>3. CASE ReadSlot(d)
    <3>1. /\ met' = met /\ at[d] = "read" /\ index[d] \in Slots
          /\ torn'[d] = (torn[d] \/ Fillers(index[d]) # {})
          /\ target'[d] = events[index[d]]
          /\ at'[d] \in {"loop", "call"}
          /\ at'[d] = "call" => events[index[d]] # NoEvent
      BY <2>3 DEF ReadSlot, Safe, TypeOK
    <3>2. clears' = clears /\ clears \in Nat
      BY <1>1 DEF loader, Safe, TypeOK
    <3>3. ASSUME ~Excused(d)', at'[d] = "call" PROVE events[index[d]] \in mapped
      <4>1. ~Excused(d) /\ ~Unloading /\ Covered(index[d]) /\ ~revived
        BY <1>1, <3>1, <3>2, <3>3 DEF Excused, Reached, holder
      <4>2. CASE index[d] \in written
        BY <4>1, <4>2 DEF Fresh
      <4>3. CASE index[d] \notin written
        <5>1. torn'[d]
          BY <3>1, <4>1, <4>3 DEF Covered
        <5>2. clears = 0
          BY <3>2, <3>3, <5>1 DEF Excused
        <5> QED
          BY <3>1, <3>3, <4>3, <5>2 DEF Fresh
      <4> QED
        BY <4>2, <4>3
    <3>4. ~met'[d] => ~Unloading
      BY <3>1 DEF Reached
    <3> QED
      BY <3>1, <3>3, <3>4
  <2>4. CASE CallEvent(d)
    <3>1. /\ at[d] = "call" /\ UNCHANGED <<met, torn, target>>
          /\ at'[d] = IF target[d] \in mapped THEN "inside" ELSE "faulted"
      BY <2>4 DEF CallEvent, RunsOrFaults, Safe, TypeOK
    <3> QED
      BY <1>1, <3>1 DEF Reached, Excused, holder, loader
  <2>5. CASE CallbackReturns(d)
    <3>1. /\ at[d] = "inside" /\ UNCHANGED <<met, torn, target>>
          /\ at'[d] \in {"loop", "out", "faulted"}
          /\ at'[d] = "faulted" => target[d] \notin mapped
      BY <2>5 DEF CallbackReturns, RunsOrFaults, Safe, TypeOK
    <3> QED
      BY <1>1, <3>1 DEF Reached, Excused, holder, loader
  <2> QED
    BY <2>1, <2>2, <2>3, <2>4, <2>5 DEF Dispatching
<1>4. ASSUME NEW u \in GameThreads, u # d
      PROVE  /\ at'[u] # "out" /\ ~met'[u] => ~Unloading
             /\ ~Excused(u)' =>
                  /\ at'[u] = "read" => Covered(index[u]) /\ index'[u] = index[u] /\ index[u] \in Slots
                  /\ at'[u] \in {"call", "inside"} => target'[u] \in mapped
                  /\ at'[u] # "faulted"
  <2>1. Excused(u)' <=> Excused(u)
    BY <1>1, <1>2, <1>4 DEF Excused, holder, loader
  <2>2. at[u] = "read" => index[u] \in Slots
    BY DEF Safe, TypeOK
  <2> QED
    BY <1>2, <1>4, <2>1, <2>2 DEF Reached
<1>5. \A u \in GameThreads :
        /\ at'[u] # "out" /\ ~met'[u] => ~Unloading
        /\ ~Excused(u)' =>
             /\ at'[u] = "read" => Covered(index[u]) /\ index'[u] = index[u] /\ index[u] \in Slots
             /\ at'[u] \in {"call", "inside"} => target'[u] \in mapped
             /\ at'[u] # "faulted"
  BY <1>3, <1>4
<1>6. ASSUME NEW u \in GameThreads, at'[u] = "read", ~Excused(u)' PROVE Covered(index[u])'
  <2>1. PICK k \in Slots : k = index[u] /\ k = index'[u]
    BY <1>5, <1>6
  <2> QED
    BY <1>1, <1>5, <1>6, <2>1
<1> QED
  BY <1>1, <1>5, <1>6 DEF Reached, loader

(* A game thread loses its footing only where an unload runs beside it, where*)
(* it meets a slot between count and store after an earlier clear, or where  *)
(* an AddEvent was carried across a clear (PluginLoader.cpp 214-229).        *)
THEOREM FaultsAreUnloads == Spec => []FaultsTraceToAnUnload
<1>1. Init => Fresh /\ Reached
  BY DEF Init, Fresh, Reached, Excused, Current, Active, Slots
<1>2. Safe /\ Counted /\ Fresh /\ Reached /\ [Next]_vars => Fresh' /\ Reached'
  <2> SUFFICES ASSUME Safe, Counted, Fresh, Reached, [Next]_vars PROVE Fresh' /\ Reached'
    OBVIOUS
  <2>1. CASE UNCHANGED vars
    BY <2>1 DEF vars, Fresh, Reached, Excused, Current, Active, Covered, Fillers, Unloading,
                holder, dispatches, loader
  <2>2. ASSUME NEW d \in GameThreads, Dispatching(d) PROVE Fresh' /\ Reached'
    <3>1. UNCHANGED <<holder, adding, loader>>
      BY <2>2
      DEF Dispatching, EnterCallback, CompareIndex, ReadSlot, CallEvent, CallbackReturns
    <3>2. Fresh'
      BY <3>1 DEF Fresh, Current, Active, Unloading, holder, loader
    <3> QED
      BY <2>2, <3>2, ReachedByDispatch
  <2>3. ASSUME NEW t \in Threads, StoreCount(t) \/ StoreSlot(t) PROVE Fresh' /\ Reached'
    <3>1. UNCHANGED <<dispatches, loader>>
      BY <2>3 DEF StoreCount, StoreSlot
    <3> QED
      BY <2>3, <3>1, FreshByStore, ReachedByAdding
  <2>4. ASSUME NEW t \in Threads, NEW e \in mapped, BeginAdd(t, e), UNCHANGED <<dispatches, loader>>
        PROVE  Fresh' /\ Reached'
    BY <2>4, FreshByBegin, ReachedByAdding
  <2>5. CASE Loading
    BY <2>5, FreshByLoading, ReachedByLoading
  <2>6. CASE Next
    BY <2>2, <2>3, <2>4, <2>5, <2>6, StepKinds DEF Safe
  <2> QED
    BY <2>1, <2>6
<1>3. Reached => FaultsTraceToAnUnload
  BY DEF Reached, Excused, FaultsTraceToAnUnload
<1> QED
  BY <1>1, <1>2, <1>3, SafeHolds, CountedHolds, PTL DEF Spec
=============================================================================
