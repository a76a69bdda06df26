------------------------------ MODULE ModEvent ------------------------------
(***************************************************************************)
(* One event holder of src/src/plugin/events/ModEvent.h (EventHolderMod,   *)
(* the template both ModEvents are made of): a tree map from the path of a *)
(* module to the vector of its callbacks, and RunEvents, which walks both. *)
(* A running callback may register more callbacks of its own module, and   *)
(* then the vector being iterated grows under the loop.                    *)
(***************************************************************************)
EXTENDS Integers, Sequences, FiniteSets

CONSTANTS Modules,    \* module paths, in the order SafeString compares them
          LongPaths,  \* those longer than the 64 characters a node stores
          Callbacks,
          NodeMax,    \* nodes in the map's buffer, 100 in the code
          MaxEvents   \* bound: callbacks of one module

ASSUME HolderAssumption ==
  /\ Modules \subseteq Nat \ {0} /\ LongPaths \subseteq Modules
  /\ NodeMax \in Nat \ {0} /\ MaxEvents \in Nat

VARIABLES
  nodes,     \* the keys in the map
  mSize,     \* the map's own count of them
  vec,       \* the vector of each node; empty for a key without one
  room,      \* the capacity of its storage
  pc,        \* idle, walking the map, iterating a vector, or crashed
  key,       \* the node RunEvents is at, 0 before the first
  pos, last, \* begin and end of the range-based for over its vector
  moved,     \* the vector has left the storage that range points into
  due,       \* history: the vectors' lengths when RunEvents was entered
  called,    \* history: calls made since, by module
  grown      \* history: modules whose vector moved under their loop

map == <<nodes, mSize, vec, room>>
range == <<key, pos, last, moved>>
history == <<due, called, grown>>
vars == <<map, pc, range, history>>

NoEvents == [k \in Modules |-> 0]

Init ==
  /\ nodes = {} /\ mSize = 0
  /\ vec = [k \in Modules |-> <<>>] /\ room = NoEvents
  /\ pc = "idle" /\ key = 0 /\ pos = 1 /\ last = 0 /\ moved = FALSE
  /\ due = NoEvents /\ called = NoEvents /\ grown = {}

-----------------------------------------------------------------------------
(* RunEvents.                                                              *)

EnterRunEvents ==
  /\ pc = "idle"
  /\ pc' = "walk" /\ key' = 0
  /\ due' = [k \in Modules |-> Len(vec[k])]
  /\ called' = NoEvents /\ grown' = {}
  /\ UNCHANGED <<map, pos, last, moved>>

(* Mutant: the walk does not step on to the right. *)
AheadMutant == {k \in nodes : k >= key}

Ahead == {k \in nodes : k > key}

(* Mutant: the walk may pass over a node. *)
NextModuleMutant ==
  /\ pc = "walk"
  /\ \E k \in Ahead : key' = k /\ last' = Len(vec[k])
  /\ pc' = "iterate" /\ pos' = 1 /\ moved' = FALSE
  /\ UNCHANGED <<map, history>>

(* forEach is an in-order walk; the range is fixed when the loop begins. *)
NextModule ==
  /\ pc = "walk"
  /\ \E k \in Ahead :
       /\ \A j \in Ahead : k <= j
       /\ key' = k /\ last' = Len(vec[k])
  /\ pc' = "iterate" /\ pos' = 1 /\ moved' = FALSE
  /\ UNCHANGED <<map, history>>

CallEvent ==
  /\ pc = "iterate" /\ pos <= last /\ ~moved
  /\ called' = [called EXCEPT ![key] = @ + 1]
  /\ pos' = pos + 1
  /\ UNCHANGED <<map, pc, key, last, moved, due, grown>>

(* The range points into freed storage.  The function that was moved out of *)
(* it reads as empty and is skipped; what the heap has put there since is   *)
(* called, if it is a function, or faults.                                  *)
StaleEvent ==
  /\ pc = "iterate" /\ pos <= last /\ moved
  /\ \/ UNCHANGED <<pc, called>>
     \/ called' = [called EXCEPT ![key] = @ + 1] /\ UNCHANGED pc
     \/ pc' = "crashed" /\ UNCHANGED called
  /\ pos' = pos + 1
  /\ UNCHANGED <<map, key, last, moved, due, grown>>

FinishModule ==
  /\ pc = "iterate" /\ pos > last
  /\ pc' = "walk"
  /\ UNCHANGED <<map, range, history>>

LeaveRunEvents ==
  /\ pc = "walk" /\ Ahead = {}
  /\ pc' = "idle"
  /\ UNCHANGED <<map, range, history>>

-----------------------------------------------------------------------------
(* Registration and removal.                                               *)

(* Who can be calling: the loader or plugin_main between dispatches, or a   *)
(* callback of the module whose vector is being iterated.                   *)
MayRegister(k) ==
  \/ pc = "idle"
  \/ (pc = "iterate" /\ key = k /\ called[k] > 0)

(* emplace_back: full storage is replaced by one twice as large. *)
Append1(k, c) ==
  /\ vec' = [vec EXCEPT ![k] = Append(@, c)]
  /\ IF Len(vec[k]) < room[k]
     THEN UNCHANGED <<room, moved, grown>>
     ELSE /\ room' = [room EXCEPT ![k] = IF @ = 0 THEN 1 ELSE 2 * @]
          /\ moved' = (moved \/ pc = "iterate")
          /\ grown' = IF pc = "iterate" THEN grown \cup {k} ELSE grown

AddEvent(k, c) ==
  /\ MayRegister(k) /\ Len(vec[k]) < MaxEvents
  /\ k \notin LongPaths /\ (k \in nodes \/ mSize < NodeMax)
  /\ nodes' = nodes \cup {k}
  /\ mSize' = IF k \in nodes THEN mSize ELSE mSize + 1
  /\ Append1(k, c)
  /\ UNCHANGED <<pc, key, pos, last, due, called>>

(* The function belongs to no module: false is returned. *)
AddEventFails == UNCHANGED vars

(* The full map inserts nothing, and a long path is inserted cut short:     *)
(* either way find returns null and line 56 faults through it.  The boot's  *)
(* catch frame goes on with the node it left; later the process ends.       *)
AddEventFaults(k) ==
  /\ pc = "idle" /\ pc' \in {"idle", "crashed"}
  /\ k \in LongPaths \/ (k \notin nodes /\ mSize >= NodeMax)
  /\ IF mSize < NodeMax
     THEN nodes' = nodes \cup {k} /\ mSize' = (IF k \in nodes THEN mSize ELSE mSize + 1)
     ELSE UNCHANGED <<nodes, mSize>>
  /\ UNCHANGED <<vec, room, range, history>>

RemoveAllEvents ==
  /\ pc = "idle"
  /\ nodes' = {} /\ mSize' = 0
  /\ vec' = [k \in Modules |-> <<>>] /\ room' = NoEvents
  /\ UNCHANGED <<pc, range, history>>

RemoveEvents(k) ==
  /\ pc = "idle"
  /\ k \in nodes \ LongPaths
  /\ nodes' = nodes \ {k} /\ mSize' = mSize - 1
  /\ vec' = [vec EXCEPT ![k] = <<>>] /\ room' = [room EXCEPT ![k] = 0]
  /\ UNCHANGED <<pc, range, history>>

(* vector::erase; an index from size() on returns false and a negative one  *)
(* compares as a huge unsigned number, so it does too.  The node stays.     *)
RemoveEvent(k, idx) ==
  /\ pc = "idle"
  /\ k \in nodes /\ idx \in 0 .. Len(vec[k]) - 1
  /\ vec' = [vec EXCEPT ![k] = SubSeq(@, 1, idx) \o SubSeq(@, idx + 2, Len(@))]
  /\ UNCHANGED <<nodes, mSize, room, pc, range, history>>

-----------------------------------------------------------------------------
RunStep ==
  NextModule \/ CallEvent \/ StaleEvent \/ FinishModule \/ LeaveRunEvents

Stopped == pc = "crashed" /\ UNCHANGED vars

Next ==
  \/ EnterRunEvents \/ RunStep
  \/ \E k \in Modules, c \in Callbacks : AddEvent(k, c)
  \/ \E k \in Modules : AddEventFaults(k)
  \/ AddEventFails
  \/ RemoveAllEvents
  \/ \E k \in Modules : RemoveEvents(k)
  \/ \E k \in Modules, idx \in 0 .. MaxEvents - 1 : RemoveEvent(k, idx)
  \/ Stopped

(* RunEvents is straight-line code around callbacks that return. *)
Spec == Init /\ [][Next]_vars /\ WF_vars(RunStep)

-----------------------------------------------------------------------------
(* Properties.                                                             *)

TypeOK ==
  /\ nodes \subseteq Modules /\ mSize \in 0 .. NodeMax
  /\ vec \in [Modules -> Seq(Callbacks)] /\ room \in [Modules -> Nat]
  /\ \A k \in Modules : Len(vec[k]) <= MaxEvents
  /\ pc \in {"idle", "walk", "iterate", "crashed"}
  /\ key \in Modules \cup {0}
  /\ pos \in 1 .. MaxEvents + 1 /\ last \in 0 .. MaxEvents /\ moved \in BOOLEAN
  /\ due \in [Modules -> Nat] /\ called \in [Modules -> Nat]
  /\ grown \subseteq Modules

(* RunEvents has called every callback that was registered when it was      *)
(* entered, unless the callback's module outgrew its vector meanwhile.      *)
DueEventsAreCalled ==
  pc = "idle" => \A k \in Modules \ grown : called[k] = due[k]

(* Callbacks registered during RunEvents wait for the next run: no module   *)
(* gets more calls than it had callbacks at the start, stale ones included, *)
(* because its range was fixed before the first of them ran.                *)
LateEventsWait == \A k \in Modules : called[k] <= due[k]

(* The map refuses a new module when its buffer is really used up and not   *)
(* before: its count follows inserts, erasures and clearing.                *)
NodesAreCounted == mSize = Cardinality(nodes)

(* While callbacks run, a registration adds one callback behind the others  *)
(* of its module and disturbs no other module.                              *)
RegistrationsAppend ==
  [][pc # "idle" =>
       \A k \in Modules :
         /\ Len(vec[k]) <= Len(vec'[k])
         /\ \A n \in 1 .. Len(vec[k]) : vec'[k][n] = vec[k][n]]_vars

(* RunEvents comes to an end whatever its callbacks register: each module   *)
(* is visited once and its range does not follow the vector.                *)
RunEventsEnds == pc = "walk" ~> pc \in {"idle", "crashed"}
=============================================================================
