------------------------------ MODULE HookEvent ------------------------------
(***************************************************************************)
(* One event holder of src/src/plugin/events/HookEvent.h: the array of     *)
(* prefix/postfix pairs put around one game function, and the dispatch     *)
(* that replaces the function.  Callbacks are plugin code: while one runs  *)
(* it may register events with the very holder that is dispatching, or end *)
(* up in clearAllEvents, and the loops read the count and the array afresh *)
(* in every iteration.  The four holder templates differ in arguments and  *)
(* in the result; the result is modelled by who wrote it last.             *)
(***************************************************************************)
EXTENDS Naturals, FiniteSets

CONSTANTS Events,      \* the pairs of callbacks that may be registered
          Prefixed,    \* those with a prefix function
          Postfixed,   \* those with a postfix function
          NoEvent,     \* the value-initialised array element
          Capacity     \* the array's size, 100 in the code

ASSUME HolderAssumption ==
  /\ Prefixed \subseteq Events /\ Postfixed \subseteq Events
  /\ NoEvent \notin Events
  /\ Capacity \in Nat \ {0}

VARIABLES
  pc,          \* idle, in the prefix loop, or in the postfix loop
  i,           \* the index of the running loop
  events,      \* the array
  eventCount,
  result,      \* who wrote the value the dispatch will return
  live,        \* history: events accepted since the last RemoveEvents
  consulted,   \* history: slots whose prefix this dispatch called
  completed,   \* history: slots whose postfix this dispatch called
  known,       \* history: eventCount when the original function was called
  cleared      \* history: RemoveEvents ran during this dispatch

holder == <<events, eventCount, live>>
dispatch == <<pc, i, result, consulted, completed, known>>
vars == <<holder, dispatch, cleared>>

Slots == 0 .. Capacity - 1

Init ==
  /\ pc = "idle" /\ i = 0
  /\ events = [k \in Slots |-> NoEvent]
  /\ eventCount = 0
  /\ result = "default"
  /\ live = {} /\ consulted = {} /\ completed = {} /\ known = 0
  /\ cleared = FALSE

-----------------------------------------------------------------------------
(* Callback: the dispatch.                                                 *)

EnterCallback ==
  /\ pc = "idle"
  /\ pc' = "prefix" /\ i' = 0
  /\ result' = "default"
  /\ consulted' = {} /\ completed' = {} /\ known' = 0
  /\ cleared' = FALSE
  /\ UNCHANGED holder

(* Mutant: the index is not advanced past an event without a prefix. *)
SkipPrefixMutant ==
  /\ pc = "prefix" /\ i < eventCount
  /\ events[i] \notin Prefixed
  /\ UNCHANGED vars

SkipPrefix ==
  /\ pc = "prefix" /\ i < eventCount
  /\ events[i] \notin Prefixed
  /\ i' = i + 1
  /\ UNCHANGED <<pc, result, consulted, completed, known, cleared, holder>>

(* The prefix may write the result; true goes on, false ends the dispatch  *)
(* without the original function and without any postfix.                  *)
CallPrefix ==
  /\ pc = "prefix" /\ i < eventCount
  /\ events[i] \in Prefixed
  /\ consulted' = consulted \cup {i}
  /\ result' \in {result, "prefix"}
  /\ pc' \in {"prefix", "idle"}
  /\ i' = i + 1
  /\ UNCHANGED <<completed, known, cleared, holder>>

(* Mutant: the prefix loop stops one event early. *)
CallOrigMutant ==
  /\ pc = "prefix" /\ i + 1 >= eventCount
  /\ pc' = "postfix" /\ i' = 0
  /\ result' = "orig"
  /\ known' = eventCount
  /\ UNCHANGED <<consulted, completed, cleared, holder>>

CallOrig ==
  /\ pc = "prefix" /\ i >= eventCount
  /\ pc' = "postfix" /\ i' = 0
  /\ result' = "orig"
  /\ known' = eventCount
  /\ UNCHANGED <<consulted, completed, cleared, holder>>

(* Mutant: the postfix loop tests for a prefix. *)
SkipPostfixMutant ==
  /\ pc = "postfix" /\ i < eventCount
  /\ events[i] \notin Prefixed
  /\ i' = i + 1
  /\ UNCHANGED <<pc, result, consulted, completed, known, cleared, holder>>

SkipPostfix ==
  /\ pc = "postfix" /\ i < eventCount
  /\ events[i] \notin Postfixed
  /\ i' = i + 1
  /\ UNCHANGED <<pc, result, consulted, completed, known, cleared, holder>>

CallPostfix ==
  /\ pc = "postfix" /\ i < eventCount
  /\ events[i] \in Postfixed
  /\ completed' = completed \cup {i}
  /\ result' \in {result, "postfix"}
  /\ i' = i + 1
  /\ UNCHANGED <<pc, consulted, known, cleared, holder>>

LeaveCallback ==
  /\ pc = "postfix" /\ i >= eventCount
  /\ pc' = "idle"
  /\ UNCHANGED <<i, result, consulted, completed, known, cleared, holder>>

-----------------------------------------------------------------------------
(* Registration, between dispatches or from inside a callback.             *)

AddEvent(e) ==
  /\ eventCount < Capacity
  /\ events' = [events EXCEPT ![eventCount] = e]
  /\ eventCount' = eventCount + 1
  /\ live' = live \cup {e}
  /\ UNCHANGED <<dispatch, cleared>>

(* The holder is full: AddEvent returns false. *)
AddEventFails ==
  /\ eventCount >= Capacity
  /\ UNCHANGED vars

(* Mutant: only the last event is removed. *)
RemoveEventsMutant ==
  /\ eventCount' = IF eventCount = 0 THEN 0 ELSE eventCount - 1
  /\ live' = {}
  /\ cleared' = TRUE
  /\ UNCHANGED <<events, dispatch>>

(* The slots keep their contents; only the count is reset. *)
RemoveEvents ==
  /\ eventCount' = 0
  /\ live' = {}
  /\ cleared' = TRUE
  /\ UNCHANGED <<events, dispatch>>

-----------------------------------------------------------------------------
Dispatch ==
  \/ SkipPrefix \/ CallPrefix \/ CallOrig
  \/ SkipPostfix \/ CallPostfix \/ LeaveCallback

Next ==
  \/ EnterCallback \/ Dispatch
  \/ \E e \in Events : AddEvent(e)
  \/ AddEventFails \/ RemoveEvents

(* A dispatch is straight-line code around callbacks that return. *)
Spec == Init /\ [][Next]_vars /\ WF_vars(Dispatch)

-----------------------------------------------------------------------------
(* Properties.                                                             *)

TypeOK ==
  /\ pc \in {"idle", "prefix", "postfix"}
  /\ i \in 0 .. Capacity
  /\ events \in [Slots -> Events \cup {NoEvent}]
  /\ eventCount \in 0 .. Capacity
  /\ result \in {"default", "prefix", "orig", "postfix"}
  /\ live \subseteq Events
  /\ consulted \subseteq Slots /\ completed \subseteq Slots
  /\ known \in 0 .. Capacity
  /\ cleared \in BOOLEAN

Registered == {k \in Slots : k < eventCount}

(* RemoveEvents leaves old pointers in the array and dispatch goes by the   *)
(* count alone, so the slots below the count must hold exactly the events   *)
(* accepted since: a callback of an unloaded plugin is never reached.       *)
OnlyLiveEventsAreReachable == live = {events[k] : k \in Registered}

(* Undisturbed by RemoveEvents, the postfix loop has called every postfix   *)
(* up to its index, late registrations included, and nothing else.          *)
PostfixesAreComplete ==
  pc = "postfix" /\ ~cleared =>
    completed = {k \in Slots : k < i /\ events[k] \in Postfixed}

(* The same for the prefixes: once the original function runs, every prefix *)
(* registered by then has been asked, whoever registered during the loop.   *)
OrigHasEveryConsent ==
  pc = "postfix" /\ ~cleared =>
    consulted = {k \in Slots : k < known /\ events[k] \in Prefixed}

(* A postfix runs without its prefix only for an event registered after the *)
(* prefix loop was over, that is by the original function or by a postfix.  *)
UnpairedPostfixIsLate ==
  pc = "postfix" /\ ~cleared =>
    \A k \in completed : events[k] \in Prefixed /\ k \notin consulted => k >= known

(* What a prefix wrote to the result is returned only by the veto: once the *)
(* original function has been called its value replaces it.                 *)
PrefixResultNeedsVeto == pc = "postfix" => result \in {"orig", "postfix"}

(* A dispatch comes to an end whatever its callbacks register meanwhile:    *)
(* the holder's capacity bounds both loops.                                 *)
DispatchEnds == pc = "prefix" ~> pc = "idle"

(* An event that is accepted keeps its slot until RemoveEvents: no later    *)
(* registration or dispatch step moves or drops it.                         *)
AcceptedEventsStay ==
  [][eventCount' # 0 =>
       \A k \in Slots : k < eventCount => k < eventCount' /\ events'[k] = events[k]]_vars
=============================================================================
