--------------------------- MODULE ModEventProofs ---------------------------
(***************************************************************************)
(* Proofs about ModEvent for any set of module paths, any capacity of the  *)
(* map and any number of callbacks: one run of the events calls what was   *)
(* registered when it began, although callbacks register more meanwhile.   *)
(***************************************************************************)
EXTENDS ModEvent, FiniteSetTheorems, SequenceTheorems, TLAPS

(* The count is exact, and a key outside the map has no callbacks. *)
Mapped ==
  /\ IsFiniteSet(nodes) /\ NodesAreCounted
  /\ \A k \in Modules \ nodes : vec[k] = <<>>

(* The modules ahead of the walk are as they were when it began; those      *)
(* behind it have been served.                                              *)
Walked ==
  pc \in {"walk", "iterate"} =>
    /\ \A k \in Modules : k > key =>
         called[k] = 0 /\ Len(vec[k]) = due[k] /\ k \notin grown
    /\ \A k \in Modules : k < key /\ k \notin grown => called[k] = due[k]

(* The module the walk is at: served once its loop is over, and up to pos   *)
(* before, unless its vector has moved.                                     *)
AtKey ==
  /\ pc = "walk" /\ key \in Modules \ grown => called[key] = due[key]
  /\ pc = "iterate" =>
       /\ key \in nodes /\ last = due[key]
       /\ pos <= last + 1 /\ called[key] <= pos - 1
       /\ key \notin grown => ~moved /\ called[key] = pos - 1

IInv == TypeOK /\ Mapped /\ Walked /\ AtKey /\ LateEventsWait /\ DueEventsAreCalled

LEMMA InitInv == Init => IInv
<1> SUFFICES ASSUME Init PROVE IInv
  OBVIOUS
<1> USE HolderAssumption DEF HolderAssumption, Init, NoEvents
<1>1. TypeOK
  <2>1. <<>> \in Seq(Callbacks) /\ Len(<<>>) = 0
    BY EmptySeq
  <2>2. vec \in [Modules -> Seq(Callbacks)] /\ \A k \in Modules : Len(vec[k]) = 0
    BY <2>1
  <2>3. pos \in 1 .. MaxEvents + 1 /\ last \in 0 .. MaxEvents /\ mSize \in 0 .. NodeMax
    OBVIOUS
  <2>4. nodes \subseteq Modules /\ grown \subseteq Modules /\ moved \in BOOLEAN
    OBVIOUS
  <2>5. due \in [Modules -> Nat] /\ called \in [Modules -> Nat] /\ room \in [Modules -> Nat]
    OBVIOUS
  <2>6. \A k \in Modules : Len(vec[k]) <= MaxEvents
    BY <2>2
  <2>7. pc \in {"idle", "walk", "iterate", "crashed"} /\ key \in Modules \cup {0}
    OBVIOUS
  <2> HIDE DEF Init, NoEvents, HolderAssumption
  <2> QED
    BY <2>2, <2>3, <2>4, <2>5, <2>6, <2>7 DEF TypeOK
<1>2. Mapped
  BY FS_EmptySet DEF Mapped, NodesAreCounted
<1>3. LateEventsWait /\ DueEventsAreCalled
  BY DEF LateEventsWait, DueEventsAreCalled
<1> QED
  BY <1>1, <1>2, <1>3 DEF IInv, Walked, AtKey

(* The steps of RunEvents touch the map nowhere. *)
LEMMA WalkInv == IInv /\ (EnterRunEvents \/ RunStep) => IInv'
<1> SUFFICES ASSUME IInv, EnterRunEvents \/ RunStep
             PROVE  IInv'
  OBVIOUS
<1> USE HolderAssumption DEF HolderAssumption
<1>1. UNCHANGED map
  BY DEF EnterRunEvents, RunStep, NextModule, CallEvent, StaleEvent, FinishModule,
         LeaveRunEvents
<1>2. Mapped'
  BY <1>1 DEF IInv, Mapped, NodesAreCounted, map
<1> USE DEF IInv, map, range, history, NoEvents
<1>3. \A k \in Modules : Len(vec[k]) \in Nat
  BY LenProperties DEF TypeOK
<1>4. CASE EnterRunEvents
  <2>1. TypeOK'
    BY <1>3, <1>4 DEF EnterRunEvents, TypeOK
  <2>2. LateEventsWait' /\ DueEventsAreCalled'
    BY <1>3, <1>4 DEF EnterRunEvents, LateEventsWait, DueEventsAreCalled, TypeOK
  <2> QED
    BY <2>1, <2>2, <1>2, <1>4 DEF EnterRunEvents, Walked, AtKey, TypeOK
<1>5. CASE NextModule
  <2>1. PICK k \in Ahead : /\ \A j \in Ahead : k <= j
                          /\ key' = k /\ last' = Len(vec[k])
    BY <1>5 DEF NextModule
  <2>2. k \in Modules /\ k \in nodes /\ k > key /\ key \in Nat
    BY <2>1 DEF Ahead, TypeOK
  <2>3. last' = due[k] /\ called[k] = 0 /\ k \notin grown
    BY <1>5, <2>1, <2>2 DEF NextModule, Walked
  <2>4. TypeOK'
    <3>1. Len(vec[k]) \in 0 .. MaxEvents
      BY <1>3, <2>2 DEF TypeOK
    <3>2. last' \in 0 .. MaxEvents /\ key' \in Modules /\ pos' = 1 /\ moved' = FALSE
      BY <1>5, <2>1, <2>2, <3>1 DEF NextModule
    <3>3. pos' \in 1 .. MaxEvents + 1
      BY <3>2
    <3>5. moved' \in BOOLEAN
      BY <3>2, Zenon
    <3>4. pc' = "iterate" /\ UNCHANGED <<nodes, mSize, vec, room, due, called, grown>>
      BY <1>5 DEF NextModule
    <3> QED
      BY <3>2, <3>3, <3>4, <3>5 DEF TypeOK
  <2>5. LateEventsWait' /\ DueEventsAreCalled'
    BY <1>5 DEF NextModule, LateEventsWait, DueEventsAreCalled
  <2>6. ASSUME NEW j \in Modules, j < k, j \notin grown
        PROVE  called[j] = due[j]
    <3>1. CASE j < key
      BY <3>1, <2>6, <1>5 DEF NextModule, Walked
    <3>2. CASE j = key
      BY <3>2, <2>6, <1>5 DEF NextModule, AtKey
    <3>3. CASE j > key
      <4>1. vec[j] = <<>>
        BY <3>3, <2>1, <2>6 DEF Ahead, Mapped, TypeOK
      <4>2. called[j] = 0 /\ Len(vec[j]) = due[j]
        BY <3>3, <1>5 DEF NextModule, Walked
      <4> QED
        BY <4>1, <4>2
    <3> QED
      BY <3>1, <3>2, <3>3, <2>2
  <2>7. Walked'
    <3>1. \A j \in Modules : j > k => j > key
      BY <2>2
    <3> QED
      BY <3>1, <2>1, <2>6, <1>5 DEF NextModule, Walked
  <2>8. AtKey'
    <3>1. ~moved' /\ pc' = "iterate"
      BY <1>5, Zenon DEF NextModule
    <3>2. /\ key' \in nodes' /\ last' = due'[key'] /\ called'[key'] = 0
          /\ pos' = 1 /\ last' \in Nat
      BY <1>3, <1>5, <2>1, <2>2, <2>3 DEF NextModule
    <3> QED
      BY <3>1, <3>2 DEF AtKey
  <2> QED
    BY <1>2, <2>4, <2>5, <2>7, <2>8
<1>6. CASE CallEvent
  <2>1. key \in Modules /\ called[key] \in Nat /\ called[key] + 1 <= due[key]
    BY <1>6 DEF CallEvent, AtKey, TypeOK
  <2>2. TypeOK'
    BY <1>6, <2>1 DEF CallEvent, TypeOK
  <2>3. LateEventsWait' /\ DueEventsAreCalled'
    BY <1>6, <2>1 DEF CallEvent, LateEventsWait, DueEventsAreCalled, TypeOK
  <2>4. Walked'
    <3>1. \A k \in Modules : k > key \/ k < key => called'[k] = called[k]
      BY <1>6, <2>1 DEF CallEvent, TypeOK
    <3>2. pc = "iterate" /\ pc' = "iterate" /\ UNCHANGED <<vec, key, due, grown>>
      BY <1>6 DEF CallEvent
    <3> QED
      BY <3>1, <3>2 DEF Walked
  <2>5. AtKey'
    BY <1>6, <2>1 DEF CallEvent, AtKey, TypeOK
  <2> QED
    BY <1>2, <2>2, <2>3, <2>4, <2>5
<1>7. CASE StaleEvent
  <2>1. /\ key \in Modules /\ key \in nodes /\ key \in grown
        /\ last = due[key] /\ called[key] <= pos - 1
        /\ pc = "iterate" /\ pc' \in {"iterate", "crashed"}
    BY <1>7 DEF StaleEvent, AtKey, TypeOK
  <2>2. UNCHANGED <<nodes, vec, key, last, moved, due, grown>> /\ pos' = pos + 1 /\ pos <= last
    BY <1>7 DEF StaleEvent
  <2>3. /\ called' \in [Modules -> Nat]
        /\ called'[key] \in {called[key], called[key] + 1}
        /\ \A k \in Modules : k # key => called'[k] = called[k]
    <3>1. called' \in {called, [called EXCEPT ![key] = @ + 1]}
      BY <1>7 DEF StaleEvent
    <3> QED
      BY <2>1, <3>1 DEF TypeOK
  <2>4. TypeOK'
    <3>1. pos' \in 1 .. MaxEvents + 1
      BY <2>2 DEF TypeOK
    <3>2. UNCHANGED <<mSize, room>>
      BY <1>7 DEF StaleEvent
    <3> QED
      BY <2>1, <2>2, <2>3, <3>1, <3>2 DEF TypeOK
  <2>5. pos \in Nat /\ last \in Nat /\ called[key] \in Nat
    BY <2>1 DEF TypeOK
  <2>6. pos' <= last + 1 /\ called'[key] <= pos' - 1 /\ called'[key] <= due[key]
    BY <2>1, <2>2, <2>3, <2>5
  <2>7. LateEventsWait' /\ DueEventsAreCalled'
    BY <2>1, <2>2, <2>3, <2>6 DEF LateEventsWait, DueEventsAreCalled
  <2>8. Walked'
    <3>1. \A k \in Modules : k > key \/ k < key => called'[k] = called[k]
      BY <2>1, <2>3 DEF TypeOK
    <3> QED
      BY <2>1, <2>2, <3>1 DEF Walked
  <2>9. AtKey'
    BY <2>1, <2>2, <2>6 DEF AtKey
  <2> QED
    BY <1>2, <2>4, <2>7, <2>8, <2>9
<1>8. CASE FinishModule
  <2>1. TypeOK' /\ LateEventsWait' /\ DueEventsAreCalled' /\ Walked'
    BY <1>8 DEF FinishModule, TypeOK, LateEventsWait, DueEventsAreCalled, Walked
  <2>2. key \notin grown => called[key] = due[key]
    BY <1>8 DEF FinishModule, AtKey, TypeOK
  <2>3. AtKey'
    BY <1>8, <2>2 DEF FinishModule, AtKey
  <2> QED
    BY <1>2, <2>1, <2>3
<1>9. CASE LeaveRunEvents
  <2>1. ASSUME NEW k \in Modules \ grown
        PROVE  called[k] = due[k]
    <3>1. CASE k < key
      BY <3>1, <2>1, <1>9 DEF LeaveRunEvents, Walked
    <3>2. CASE k = key
      BY <3>2, <2>1, <1>9 DEF LeaveRunEvents, AtKey
    <3>3. CASE k > key
      <4>1. vec[k] = <<>>
        BY <3>3, <1>9 DEF LeaveRunEvents, Ahead, Mapped
      <4>2. called[k] = 0 /\ Len(vec[k]) = due[k]
        BY <3>3, <1>9 DEF LeaveRunEvents, Walked
      <4> QED
        BY <4>1, <4>2
    <3> QED
      BY <3>1, <3>2, <3>3 DEF TypeOK
  <2>2. TypeOK' /\ LateEventsWait'
    BY <1>9 DEF LeaveRunEvents, TypeOK, LateEventsWait
  <2>3. DueEventsAreCalled' /\ Walked' /\ AtKey'
    BY <1>9, <2>1 DEF LeaveRunEvents, DueEventsAreCalled, Walked, AtKey
  <2> QED
    BY <1>2, <2>2, <2>3
<1> QED
  BY <1>4, <1>5, <1>6, <1>7, <1>8, <1>9 DEF RunStep

(* A registration lengthens one vector, that of the module the walk is at   *)
(* if there is a walk.                                                      *)
LEMMA AddEventInv ==
  ASSUME IInv, NEW k \in Modules, NEW c \in Callbacks, AddEvent(k, c)
  PROVE  IInv'
<1> USE HolderAssumption DEF HolderAssumption, IInv
<1>1. /\ vec'[k] \in Seq(Callbacks) /\ Len(vec[k]) \in Nat
      /\ Len(vec'[k]) = Len(vec[k]) + 1
      /\ \A j \in Modules : j # k => vec'[j] = vec[j]
  BY AppendProperties, LenProperties DEF AddEvent, Append1, TypeOK
<1>2. /\ room' \in [Modules -> Nat] /\ grown' \subseteq Modules
      /\ \A j \in Modules : j # k => (j \in grown' <=> j \in grown)
      /\ grown \subseteq grown' /\ (pc # "iterate" => grown' = grown)
  <2>1. room' \in [Modules -> Nat]
    <3>1. room' \in {room, [room EXCEPT ![k] = 1], [room EXCEPT ![k] = 2 * @]}
      BY DEF AddEvent, Append1
    <3>2. room \in [Modules -> Nat] /\ 2 * room[k] \in Nat
      BY DEF TypeOK
    <3> QED
      BY <3>1, <3>2
  <2>2. grown' = grown \/ (grown' = grown \cup {k} /\ pc = "iterate")
    BY DEF AddEvent, Append1
  <2> QED
    BY <2>1, <2>2 DEF TypeOK
<1>3. moved' \in BOOLEAN
  BY Zenon DEF AddEvent, Append1, TypeOK
<1>4. k \notin grown' => UNCHANGED <<moved, grown>> \/ pc # "iterate"
  BY DEF AddEvent, Append1
<1>5. Mapped'
  <2>1. IsFiniteSet(nodes') /\ NodesAreCounted'
    BY FS_AddElement DEF AddEvent, Mapped, NodesAreCounted
  <2> QED
    BY <2>1, <1>1 DEF AddEvent, Mapped
<1>6. TypeOK'
  <2>1. vec' \in [Modules -> Seq(Callbacks)] /\ \A j \in Modules : Len(vec'[j]) <= MaxEvents
    <3>1. vec' = [vec EXCEPT ![k] = Append(@, c)] /\ Len(vec[k]) < MaxEvents
      BY DEF AddEvent, Append1
    <3>2. Len(vec'[k]) <= MaxEvents
      BY <3>1, <1>1
    <3> QED
      BY <3>1, <3>2, <1>1 DEF TypeOK
  <2>2. mSize' \in 0 .. NodeMax /\ nodes' \subseteq Modules
    BY DEF AddEvent, TypeOK
  <2> QED
    BY <2>1, <2>2, <1>2, <1>3 DEF AddEvent, TypeOK
<1>7. UNCHANGED <<pc, key, pos, last, due, called>>
  BY DEF AddEvent
<1>8. LateEventsWait' /\ DueEventsAreCalled'
  BY <1>2, <1>7 DEF LateEventsWait, DueEventsAreCalled
<1>9. pc = "idle" \/ (pc = "iterate" /\ key = k)
  BY DEF AddEvent, MayRegister
<1>10. CASE pc = "idle"
  BY <1>5, <1>6, <1>7, <1>8, <1>10 DEF Walked, AtKey
<1>11. CASE pc = "iterate" /\ key = k
  <2>1. k \in nodes' /\ k \in nodes
    BY <1>11 DEF AtKey, AddEvent
  <2>2. Walked'
    <3>1. \A j \in Modules : j > key \/ j < key => j # k
      BY <1>11
    <3> QED
      BY <3>1, <1>1, <1>2, <1>7, <1>11 DEF Walked
  <2>3. key \notin grown' => ~moved' /\ called[key] = pos - 1
    <3>1. key \notin grown' => UNCHANGED <<moved, grown>>
      BY <1>4, <1>11
    <3>2. key \notin grown => ~moved /\ called[key] = pos - 1
      BY <1>11 DEF AtKey
    <3> QED
      BY <3>1, <3>2, <1>2
  <2>4. AtKey'
    BY <2>1, <2>3, <1>7, <1>11 DEF AtKey
  <2> QED
    BY <2>2, <2>4, <1>5, <1>6, <1>8
<1> QED
  BY <1>9, <1>10, <1>11

(* Removals happen between dispatches and touch the map alone. *)
LEMMA RemovalInv ==
  ASSUME IInv,
         \/ RemoveAllEvents
         \/ \E k \in Modules : RemoveEvents(k)
         \/ \E k \in Modules, idx \in 0 .. MaxEvents - 1 : RemoveEvent(k, idx)
  PROVE  IInv'
<1> USE HolderAssumption DEF HolderAssumption, IInv
<1>1. pc = "idle" /\ UNCHANGED <<pc, range, history>>
  BY DEF RemoveAllEvents, RemoveEvents, RemoveEvent
<1>2. LateEventsWait' /\ DueEventsAreCalled' /\ Walked' /\ AtKey'
  BY <1>1 DEF LateEventsWait, DueEventsAreCalled, Walked, AtKey, range, history
<1>3. SUFFICES /\ Mapped' /\ nodes' \subseteq Modules /\ mSize' \in 0 .. NodeMax
               /\ vec' \in [Modules -> Seq(Callbacks)] /\ room' \in [Modules -> Nat]
               /\ \A k \in Modules : Len(vec'[k]) <= MaxEvents
  BY <1>1, <1>2 DEF TypeOK, range, history
<1>4. <<>> \in Seq(Callbacks) /\ Len(<<>>) = 0
  BY EmptySeq
<1>5. CASE RemoveAllEvents
  <2>1. Mapped'
    BY <1>5, FS_EmptySet DEF RemoveAllEvents, Mapped, NodesAreCounted
  <2>2. room' \in [Modules -> Nat] /\ nodes' \subseteq Modules /\ mSize' \in 0 .. NodeMax
    BY <1>5 DEF RemoveAllEvents, NoEvents
  <2>3. vec' \in [Modules -> Seq(Callbacks)] /\ \A k \in Modules : Len(vec'[k]) = 0
    BY <1>4, <1>5 DEF RemoveAllEvents
  <2> QED
    BY <2>1, <2>2, <2>3
<1>6. ASSUME NEW k \in Modules, RemoveEvents(k)
      PROVE  /\ Mapped' /\ nodes' \subseteq Modules /\ mSize' \in 0 .. NodeMax
             /\ vec' \in [Modules -> Seq(Callbacks)] /\ room' \in [Modules -> Nat]
             /\ \A j \in Modules : Len(vec'[j]) <= MaxEvents
  <2>1. IsFiniteSet(nodes') /\ NodesAreCounted' /\ mSize' \in Nat
    <3>1. IsFiniteSet(nodes) /\ Cardinality(nodes \ {k}) = Cardinality(nodes) - 1
      BY <1>6, FS_RemoveElement DEF RemoveEvents, Mapped
    <3>2. IsFiniteSet(nodes \ {k}) /\ Cardinality(nodes \ {k}) \in Nat
      BY <3>1, FS_RemoveElement, FS_CardinalityType
    <3> QED
      BY <3>1, <3>2, <1>6 DEF RemoveEvents, Mapped, NodesAreCounted
  <2>2. /\ vec' \in [Modules -> Seq(Callbacks)] /\ vec'[k] = <<>>
        /\ \A j \in Modules : j # k => vec'[j] = vec[j]
    BY <1>4, <1>6 DEF RemoveEvents, TypeOK
  <2>3. \A j \in Modules : Len(vec'[j]) <= MaxEvents
    <3>1. ASSUME NEW j \in Modules PROVE Len(vec'[j]) <= MaxEvents
      <4>1. CASE j = k
        BY <4>1, <2>2, <1>4
      <4>2. CASE j # k
        BY <4>2, <2>2 DEF TypeOK
      <4> QED
        BY <4>1, <4>2
    <3> QED
      BY <3>1
  <2>4. Mapped'
    BY <2>1, <2>2, <1>6 DEF RemoveEvents, Mapped
  <2>5. nodes' \subseteq Modules /\ mSize' \in 0 .. NodeMax
    BY <2>1, <1>6 DEF RemoveEvents, TypeOK
  <2>6. room' \in [Modules -> Nat]
    BY <1>6 DEF RemoveEvents, TypeOK
  <2> QED
    BY <2>2, <2>3, <2>4, <2>5, <2>6
<1>7. ASSUME NEW k \in Modules, NEW idx \in 0 .. MaxEvents - 1, RemoveEvent(k, idx)
      PROVE  /\ Mapped' /\ nodes' \subseteq Modules /\ mSize' \in 0 .. NodeMax
             /\ vec' \in [Modules -> Seq(Callbacks)] /\ room' \in [Modules -> Nat]
             /\ \A j \in Modules : Len(vec'[j]) <= MaxEvents
  <2> DEFINE before == SubSeq(vec[k], 1, idx)
             after == SubSeq(vec[k], idx + 2, Len(vec[k]))
  <2>1. /\ vec[k] \in Seq(Callbacks) /\ Len(vec[k]) \in Nat
        /\ k \in nodes /\ idx \in 0 .. Len(vec[k]) - 1
        /\ \A n \in 1 .. Len(vec[k]) : vec[k][n] \in Callbacks
    BY <1>7, LenProperties, ElementOfSeq DEF RemoveEvent, TypeOK
  <2>2. before \in Seq(Callbacks) /\ Len(before) = idx
    BY <2>1, SubSeqProperties
  <2>3. /\ after \in Seq(Callbacks)
        /\ Len(after) = IF idx + 2 <= Len(vec[k]) THEN Len(vec[k]) - idx - 1 ELSE 0
    <3>1. \A n \in idx + 2 .. Len(vec[k]) : vec[k][n] \in Callbacks
      BY <2>1
    <3> QED
      BY <2>1, <3>1, SubSeqProperties
  <2> HIDE DEF before, after
  <2>4. before \o after \in Seq(Callbacks) /\ Len(before \o after) <= Len(vec[k])
    <3>1. /\ before \o after \in Seq(Callbacks)
          /\ Len(before \o after) = Len(before) + Len(after)
      BY <2>2, <2>3, ConcatProperties
    <3> QED
      BY <2>1, <2>2, <2>3, <3>1
  <2>5. /\ vec' = [vec EXCEPT ![k] = before \o after]
        /\ UNCHANGED <<nodes, mSize, room>>
    BY <1>7 DEF RemoveEvent, before, after
  <2>6. vec' \in [Modules -> Seq(Callbacks)] /\ \A j \in Modules : j # k => vec'[j] = vec[j]
    BY <2>4, <2>5 DEF TypeOK
  <2>7. vec'[k] = before \o after
    BY <2>5 DEF TypeOK
  <2>8. \A j \in Modules : Len(vec'[j]) <= MaxEvents
    <3>1. Len(vec'[k]) <= MaxEvents
      <4>1. Len(vec'[k]) \in Nat /\ Len(vec'[k]) <= Len(vec[k])
        BY <2>4, <2>7, LenProperties
      <4>2. Len(vec[k]) <= MaxEvents
        BY DEF TypeOK
      <4> QED
        BY <4>1, <4>2, <2>1
    <3> QED
      BY <3>1, <2>6 DEF TypeOK
  <2>9. Mapped'
    BY <2>1, <2>5, <2>6 DEF Mapped, NodesAreCounted
  <2> QED
    BY <2>5, <2>6, <2>8, <2>9 DEF TypeOK
<1> QED
  BY <1>5, <1>6, <1>7

(* A fault may leave an empty node behind, between dispatches. *)
LEMMA FaultInv ==
  ASSUME IInv, NEW k \in Modules, AddEventFaults(k)
  PROVE  IInv'
<1> USE HolderAssumption DEF HolderAssumption, IInv
<1>1. /\ pc = "idle" /\ pc' \in {"idle", "crashed"}
      /\ UNCHANGED <<vec, room, key, pos, last, moved, due, called, grown>>
  BY DEF AddEventFaults, range, history
<1>2. \/ UNCHANGED <<nodes, mSize>>
      \/ /\ k \notin nodes /\ mSize < NodeMax
         /\ nodes' = nodes \cup {k} /\ mSize' = mSize + 1
  BY DEF AddEventFaults
<1>3. nodes' \subseteq Modules /\ mSize' \in 0 .. NodeMax /\ nodes \subseteq nodes'
  <2>1. nodes \subseteq Modules /\ mSize \in 0 .. NodeMax
    BY DEF TypeOK
  <2>2. nodes' = nodes \/ nodes' = nodes \cup {k}
    BY <1>2
  <2>3. mSize' = mSize \/ (mSize < NodeMax /\ mSize' = mSize + 1)
    BY <1>2
  <2>4. mSize' \in 0 .. NodeMax
    BY <2>1, <2>3
  <2> QED
    BY <2>1, <2>2, <2>4
<1>4. TypeOK'
  BY <1>1, <1>3 DEF TypeOK
<1>5. IsFiniteSet(nodes') /\ NodesAreCounted'
  BY <1>2, FS_AddElement DEF Mapped, NodesAreCounted
<1>6. Mapped'
  BY <1>1, <1>3, <1>5 DEF Mapped
<1>7. LateEventsWait' /\ DueEventsAreCalled' /\ Walked' /\ AtKey'
  BY <1>1 DEF LateEventsWait, DueEventsAreCalled, Walked, AtKey
<1> QED
  BY <1>4, <1>6, <1>7

LEMMA Invariance == Spec => []IInv
<1>1. IInv /\ [Next]_vars => IInv'
  <2> SUFFICES ASSUME IInv, [Next]_vars PROVE IInv'
    OBVIOUS
  <2>1. CASE UNCHANGED vars
    BY <2>1 DEF vars, map, range, history, IInv, TypeOK, Mapped, NodesAreCounted, Walked,
                AtKey, LateEventsWait, DueEventsAreCalled
  <2> QED
    BY <2>1, FaultInv, WalkInv, AddEventInv, RemovalInv DEF Next, AddEventFails, Stopped
<1> QED
  BY InitInv, <1>1, PTL DEF Spec

(* Every variable keeps its type; the loop's position never leaves the      *)
(* range that was fixed when the loop began.                                *)
THEOREM TypeCorrect == Spec => []TypeOK
BY Invariance, PTL DEF IInv

(* One RunEvents calls every callback registered before it, for every map,  *)
(* except those of modules that outgrew their vector during the loop.       *)
THEOREM RunsAreComplete == Spec => []DueEventsAreCalled
BY Invariance, PTL DEF IInv

(* One RunEvents makes no more calls than there were callbacks before it.   *)
THEOREM LateEventsAreDeferred == Spec => []LateEventsWait
BY Invariance, PTL DEF IInv

(* The map's count is the number of its nodes, so that a registration fails *)
(* for want of a node only when all of them hold a module.                  *)
THEOREM CountIsExact == Spec => []NodesAreCounted
<1>1. IInv => NodesAreCounted
  BY DEF IInv, Mapped
<1> QED
  BY Invariance, <1>1, PTL

(* A registration from inside a callback leaves all vectors as they were up *)
(* to the new callback at the end of one of them.                           *)
THEOREM CallbacksOnlyAppend == Spec => RegistrationsAppend
<1> DEFINE Appends ==
      pc # "idle" =>
        \A k \in Modules :
          /\ Len(vec[k]) <= Len(vec'[k])
          /\ \A n \in 1 .. Len(vec[k]) : vec'[k][n] = vec[k][n]
<1>1. IInv /\ [Next]_vars => [Appends]_vars
  <2> SUFFICES ASSUME IInv, Next, pc # "idle" PROVE Appends
    OBVIOUS
  <2>1. \A k \in Modules : vec[k] \in Seq(Callbacks) /\ Len(vec[k]) \in Nat
    BY LenProperties DEF IInv, TypeOK
  <2>2. CASE UNCHANGED vec
    BY <2>1, <2>2
  <2>3. ASSUME NEW k \in Modules, NEW c \in Callbacks, AddEvent(k, c)
        PROVE  Appends
    <3>1. vec' = [vec EXCEPT ![k] = Append(@, c)]
      BY <2>3 DEF AddEvent, Append1
    <3>2. /\ Len(vec'[k]) = Len(vec[k]) + 1
          /\ \A n \in 1 .. Len(vec[k]) : vec'[k][n] = vec[k][n]
      BY <2>1, <3>1, AppendProperties DEF IInv, TypeOK
    <3>3. \A j \in Modules : j # k => vec'[j] = vec[j]
      BY <3>1 DEF IInv, TypeOK
    <3> QED
      BY <2>1, <3>2, <3>3
  <2>4. \/ UNCHANGED vec
        \/ \E k \in Modules, c \in Callbacks : AddEvent(k, c)
    BY DEF Next, EnterRunEvents, RunStep, NextModule, CallEvent, StaleEvent, FinishModule,
           LeaveRunEvents, AddEventFails, AddEventFaults, RemoveAllEvents, RemoveEvents,
           RemoveEvent, Stopped, vars, map
  <2> QED
    BY <2>2, <2>3, <2>4
<1> QED
  BY Invariance, <1>1, PTL DEF Spec, RegistrationsAppend
=============================================================================
