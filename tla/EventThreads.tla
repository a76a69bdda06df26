---------------------------- MODULE EventThreads ----------------------------
(***************************************************************************)
(* One hook event holder between the thread that loads and unloads plugins *)
(* and the game's threads.  Nothing is locked: AddEvent                    *)
(* (plugin/events/HookEvent.h) counts and fills a slot in two stores, a    *)
(* dispatch compares its index and reads the slot in two loads, and        *)
(* unloadPlugins (plugin/PluginLoader.cpp) unmaps the modules before it    *)
(* clears the holder.  HookEvent has the dispatch in detail on one thread, *)
(* PluginLoader the loader on one thread; here both are reduced to the     *)
(* accesses another thread can come between.                               *)
(***************************************************************************)
EXTENDS Naturals, FiniteSets

CONSTANTS GameThreads,  \* threads that run through the hooked function
          Loader,       \* the thread that draws the window and loads plugins
          Plugins,
          NoEvent,      \* a value-initialised array element, or nothing
          Capacity,     \* the array's size, 100 in the code
          MaxLoads      \* bound: how often the plugins are loaded

ASSUME ThreadsAssumption ==
  /\ Loader \notin GameThreads
  /\ Capacity \in Nat \ {0} /\ MaxLoads \in Nat \ {0}

VARIABLES
  events, eventCount,  \* the holder
  adding,      \* per thread: the AddEvent it is in the middle of
  at,          \* per game thread: where its dispatch is
  index,       \* per game thread: the loop's index
  target,      \* per game thread: the event whose callback it read
  loading,     \* what the loader is doing
  mapped,      \* the modules whose code is mapped
  loads,       \* how many loads there have been
  clears,      \* history: how often the holder has been cleared
  written,     \* history: slots stored since the last clear
  accepted,    \* history: slot and event of each AddEvent that returned true
  overlapped,  \* history: two AddEvents ran at once since the last clear
  revived,     \* history: an AddEvent stored after a clear it began before
  met,         \* history, per thread: its dispatch overlapped an unload
  torn         \* history, per thread: it read a slot that was being filled

holder == <<events, eventCount, written, accepted, overlapped, revived>>
dispatches == <<at, index, target, met, torn>>
loader == <<loading, mapped, loads, clears>>
vars == <<holder, adding, dispatches, loader>>

Threads == GameThreads \cup {Loader}
Slots == 0 .. Capacity - 1

(* A plugin's module in one of its loads; an event is known by its owner.  *)
Modules == (1 .. MaxLoads) \X Plugins

Idle == [event |-> NoEvent, slot |-> 0, left |-> {}, since |-> 0]

Init ==
  /\ events = [k \in Slots |-> NoEvent] /\ eventCount = 0
  /\ adding = [t \in Threads |-> Idle]
  /\ at = [d \in GameThreads |-> "out"]
  /\ index = [d \in GameThreads |-> 0]
  /\ target = [d \in GameThreads |-> NoEvent]
  /\ loading = "idle" /\ mapped = {} /\ loads = 0 /\ clears = 0
  /\ written = {} /\ accepted = {} /\ overlapped = FALSE /\ revived = FALSE
  /\ met = [d \in GameThreads |-> FALSE]
  /\ torn = [d \in GameThreads |-> FALSE]

Unloading == loading \in {"unmapping", "clearing"}

-----------------------------------------------------------------------------
(* AddEvent: the count is read once; counting and filling the slot are two *)
(* stores, in the order the compiler likes.                                *)

BeginAdd(t, e) ==
  /\ adding[t] = Idle
  /\ eventCount < Capacity
  /\ adding' = [adding EXCEPT ![t] =
                  [event |-> e, slot |-> eventCount,
                   left |-> {"count", "slot"}, since |-> clears]]
  /\ overlapped' = (overlapped \/ \E u \in Threads \ {t} : adding[u] # Idle)
  /\ UNCHANGED <<events, eventCount, written, accepted, revived>>

(* One of the stores is done; after the second, AddEvent returns true.     *)
Done(t, store) ==
  LET a == adding[t] IN
  /\ adding' = [adding EXCEPT ![t] =
                  IF a.left = {store} THEN Idle
                  ELSE [a EXCEPT !.left = @ \ {store}]]
  /\ accepted' = IF a.left = {store} /\ a.since = clears
                 THEN accepted \cup {<<a.slot, a.event>>} ELSE accepted
  /\ revived' = (revived \/ a.since # clears)

StoreCount(t) ==
  /\ "count" \in adding[t].left
  /\ eventCount' = adding[t].slot + 1
  /\ Done(t, "count")
  /\ UNCHANGED <<events, written, overlapped, dispatches, loader>>

(* Mutant: the slot is found by the counter when the store is made.        *)
StoreSlotMutant(t) ==
  /\ "slot" \in adding[t].left
  /\ events' = [events EXCEPT ![IF eventCount = 0 THEN 0 ELSE eventCount - 1] =
                                 adding[t].event]
  /\ written' = written \cup {IF eventCount = 0 THEN 0 ELSE eventCount - 1}
  /\ Done(t, "slot")
  /\ UNCHANGED <<eventCount, overlapped, dispatches, loader>>

StoreSlot(t) ==
  /\ "slot" \in adding[t].left
  /\ events' = [events EXCEPT ![adding[t].slot] = adding[t].event]
  /\ written' = written \cup {adding[t].slot}
  /\ Done(t, "slot")
  /\ UNCHANGED <<eventCount, overlapped, dispatches, loader>>

(* Threads about to store into slot k.                                     *)
Fillers(k) == {t \in Threads : "slot" \in adding[t].left /\ adding[t].slot = k}

-----------------------------------------------------------------------------
(* The dispatch.  The loops before and after the original function make    *)
(* the same accesses; one stands for both.                                 *)

EnterCallback(d) ==
  /\ at[d] = "out"
  /\ at' = [at EXCEPT ![d] = "loop"]
  /\ index' = [index EXCEPT ![d] = 0]
  /\ met' = [met EXCEPT ![d] = Unloading]
  /\ torn' = [torn EXCEPT ![d] = FALSE]
  /\ UNCHANGED <<target, holder, adding, loader>>

CompareIndex(d) ==
  /\ at[d] = "loop"
  /\ at' = [at EXCEPT ![d] = IF index[d] < eventCount THEN "read" ELSE "out"]
  /\ UNCHANGED <<index, target, met, torn, holder, adding, loader>>

(* A null pointer is passed over.                                          *)
ReadSlot(d) ==
  /\ at[d] = "read"
  /\ target' = [target EXCEPT ![d] = events[index[d]]]
  /\ torn' = [torn EXCEPT ![d] = @ \/ Fillers(index[d]) # {}]
  /\ IF events[index[d]] = NoEvent
       THEN /\ index' = [index EXCEPT ![d] = @ + 1]
            /\ at' = [at EXCEPT ![d] = "loop"]
       ELSE /\ at' = [at EXCEPT ![d] = "call"]
            /\ UNCHANGED index
  /\ UNCHANGED <<met, holder, adding, loader>>

(* The thread goes on in plugin code, or faults because it is not there.   *)
RunsOrFaults(d, next) ==
  at' = [at EXCEPT ![d] = IF target[d] \in mapped THEN next ELSE "faulted"]

CallEvent(d) ==
  /\ at[d] = "call"
  /\ RunsOrFaults(d, "inside")
  /\ UNCHANGED <<index, target, met, torn, holder, adding, loader>>

(* A callback may register events, and returns: to the loop, or, as a      *)
(* prefix that says no, out of the dispatch.                               *)
CallbackAdds(d) ==
  /\ at[d] = "inside" /\ target[d] \in mapped
  /\ BeginAdd(d, target[d])
  /\ UNCHANGED <<dispatches, loader>>

CallbackReturns(d) ==
  /\ at[d] = "inside" /\ adding[d] = Idle
  /\ \E next \in {"loop", "out"} : RunsOrFaults(d, next)
  /\ index' = [index EXCEPT ![d] = @ + 1]
  /\ UNCHANGED <<target, met, torn, holder, adding, loader>>

-----------------------------------------------------------------------------
(* The loader.                                                             *)

LoadModules ==
  /\ loading = "idle" /\ mapped = {} /\ loads < MaxLoads
  /\ loads' = loads + 1
  /\ mapped' = {loads + 1} \X Plugins
  /\ loading' = "mains"
  /\ UNCHANGED <<clears, holder, adding, dispatches>>

PluginMainAdds(m) ==
  /\ loading = "mains"
  /\ BeginAdd(Loader, m)
  /\ UNCHANGED <<dispatches, loader>>

FinishLoad ==
  /\ loading = "mains" /\ adding[Loader] = Idle
  /\ loading' = "idle"
  /\ UNCHANGED <<mapped, loads, clears, holder, adding, dispatches>>

UnloadModule(m) ==
  /\ loading \in {"idle", "unmapping"}
  /\ mapped' = mapped \ {m}
  /\ loading' = IF mapped = {m} THEN "clearing" ELSE "unmapping"
  /\ met' = [d \in GameThreads |-> met[d] \/ at[d] # "out"]
  /\ UNCHANGED <<loads, clears, at, index, target, torn, holder, adding>>

(* Mutant: the holder is left out of clearAllEvents.                       *)
ClearEventsMutant ==
  /\ loading = "clearing"
  /\ loading' = "idle" /\ clears' = clears + 1
  /\ written' = {} /\ accepted' = {} /\ overlapped' = FALSE
  /\ UNCHANGED <<mapped, loads, events, eventCount, revived, adding, dispatches>>

ClearEvents ==
  /\ loading = "clearing"
  /\ eventCount' = 0
  /\ loading' = "idle" /\ clears' = clears + 1
  /\ written' = {} /\ accepted' = {} /\ overlapped' = FALSE
  /\ UNCHANGED <<mapped, loads, events, revived, adding, dispatches>>

-----------------------------------------------------------------------------
Next ==
  \/ \E t \in Threads : StoreCount(t) \/ StoreSlot(t)
  \/ \E d \in GameThreads :
       \/ EnterCallback(d) \/ CompareIndex(d) \/ ReadSlot(d)
       \/ CallEvent(d) \/ CallbackAdds(d) \/ CallbackReturns(d)
  \/ LoadModules \/ FinishLoad \/ ClearEvents
  \/ \E m \in mapped : PluginMainAdds(m) \/ UnloadModule(m)

Spec == Init /\ [][Next]_vars

-----------------------------------------------------------------------------
(* Every variable has its type; a dispatch reads inside the array.         *)
TypeOK ==
  /\ events \in [Slots -> Modules \cup {NoEvent}]
  /\ eventCount \in 0 .. Capacity
  /\ adding \in [Threads -> [event : Modules \cup {NoEvent}, slot : Slots,
                             left : SUBSET {"count", "slot"}, since : 0 .. MaxLoads]]
  /\ at \in [GameThreads -> {"out", "loop", "read", "call", "inside", "faulted"}]
  /\ index \in [GameThreads -> 0 .. Capacity]
  /\ target \in [GameThreads -> Modules \cup {NoEvent}]
  /\ loading \in {"idle", "mains", "unmapping", "clearing"}
  /\ mapped \subseteq Modules /\ loads \in 0 .. MaxLoads /\ clears \in 0 .. MaxLoads
  /\ written \subseteq Slots /\ accepted \subseteq Slots \X Modules
  /\ overlapped \in BOOLEAN /\ revived \in BOOLEAN
  /\ met \in [GameThreads -> BOOLEAN] /\ torn \in [GameThreads -> BOOLEAN]
  /\ \A d \in GameThreads : at[d] \in {"read", "call", "inside"} => index[d] \in Slots

(* A game thread faults in plugin code only if its dispatch overlapped an  *)
(* unload, or read a slot between count and store after the array had been *)
(* used before, or if an AddEvent stored across a clear.  In particular a  *)
(* torn slot is harmless as long as nothing was ever unloaded, and a       *)
(* dispatch that begins after clearAllEvents never reaches old plugins     *)
(* (PluginLoader.cpp 214-229, HookEvent.h 87-94 and 107-111).              *)
FaultsTraceToAnUnload ==
  \A d \in GameThreads :
    at[d] = "faulted" => met[d] \/ (torn[d] /\ clears > 0) \/ revived

(* Every counted slot was stored since the last clear or is about to be:   *)
(* what the count shows is never older than the window of the AddEvent     *)
(* that counted it, however many registrations run at once.                *)
CountedSlotsAreWritten ==
  revived \/ \A k \in Slots : k < eventCount => k \in written \/ Fillers(k) # {}

(* What addEvent accepted stays where it was put, below the count, until   *)
(* clearAllEvents; unless two registrations ran at once, of which one then *)
(* may be lost.                                                            *)
RegistrationsAreKept ==
  revived \/ overlapped \/
    \A r \in accepted : r[1] < eventCount /\ events[r[1]] = r[2]
=============================================================================
