-------------------------- MODULE PluginLifecycle ---------------------------
(***************************************************************************)
(* What the plugin loader promises the game and the plugins, without its   *)
(* buffers, its NRR or its slot array: modules are mapped before any of    *)
(* their code is started, only mapped modules gain listeners, and an       *)
(* unload removes first the modules, then the listeners, before a load is  *)
(* offered again.  A module that cannot be removed is lost: it stays where *)
(* it is, without listeners, and nobody asks for it again.                 *)
(***************************************************************************)
CONSTANTS Plugins

VARIABLES phase,      \* what the loader is doing
          loaded,     \* plugins are offered for unloading
          mapped,     \* plugins whose module is mapped and can be removed
          lost,       \* plugins with a module an unload could not remove
          listeners   \* plugins with registered events

lifecycle == <<phase, loaded, mapped, lost, listeners>>

Init ==
  /\ phase = "idle" /\ loaded = FALSE
  /\ mapped = {} /\ lost = {} /\ listeners = {}

StartLoad ==
  /\ phase = "idle" /\ ~loaded
  /\ phase' = "loading"
  /\ UNCHANGED <<loaded, mapped, lost, listeners>>

MapModule(p) ==
  /\ phase = "loading"
  /\ mapped' = mapped \cup {p}
  /\ UNCHANGED <<phase, loaded, lost, listeners>>

Announce ==
  /\ phase = "loading"
  /\ loaded' = TRUE
  /\ phase' = "starting"
  /\ UNCHANGED <<mapped, lost, listeners>>

(* A plugin that is being started may register events. *)
Start(p) ==
  /\ phase = "starting" /\ p \in mapped
  /\ listeners' = listeners \cup {p}
  /\ UNCHANGED <<phase, loaded, mapped, lost>>

(* ... and may fault, which at boot only ends the load. *)
StartAndStop(p, next) ==
  /\ phase = "starting" /\ p \in mapped
  /\ listeners' \in {listeners, listeners \cup {p}}
  /\ phase' = next
  /\ UNCHANGED <<loaded, mapped, lost>>

Return ==
  /\ phase = "starting"
  /\ phase' = "idle"
  /\ UNCHANGED <<loaded, mapped, lost, listeners>>

(* A load that fails before the announcement has mapped nothing. *)
GiveUp ==
  /\ phase = "loading" /\ mapped = {}
  /\ phase' = "idle"
  /\ UNCHANGED <<loaded, mapped, lost, listeners>>

Crash ==
  /\ phase \in {"loading", "starting", "unloading"}
  /\ phase' = "crashed"
  /\ UNCHANGED <<loaded, mapped, lost, listeners>>

StartUnload ==
  /\ phase = "idle" /\ loaded
  /\ phase' = "unloading"
  /\ UNCHANGED <<loaded, mapped, lost, listeners>>

Unmap(p) ==
  /\ phase = "unloading"
  /\ mapped' = mapped \ {p}
  /\ UNCHANGED <<phase, loaded, lost, listeners>>

(* ... or does not go, and is not asked again.  (The same plugin may be    *)
(* mapped twice.)                                                          *)
Lose(p) ==
  /\ phase = "unloading" /\ p \in mapped
  /\ mapped' \in {mapped, mapped \ {p}} /\ lost' = lost \cup {p}
  /\ UNCHANGED <<phase, loaded, listeners>>

Retire ==
  /\ phase = "unloading" /\ mapped = {}
  /\ loaded' = FALSE
  /\ UNCHANGED <<phase, mapped, lost, listeners>>

ForgetListeners ==
  /\ phase = "unloading" /\ mapped = {} /\ ~loaded
  /\ listeners' = {}
  /\ UNCHANGED <<phase, loaded, mapped, lost>>

EndUnload ==
  /\ phase = "unloading" /\ ~loaded /\ mapped = {} /\ listeners = {}
  /\ phase' = "idle"
  /\ UNCHANGED <<loaded, mapped, lost, listeners>>

(* One plugin's listeners may be dropped while nothing else happens. *)
DropListener(p) ==
  /\ phase = "idle"
  /\ listeners' = listeners \ {p}
  /\ UNCHANGED <<phase, loaded, mapped, lost>>

Next ==
  \/ StartLoad \/ Announce \/ Return \/ GiveUp \/ Crash
  \/ StartUnload \/ Retire \/ ForgetListeners \/ EndUnload
  \/ \E p \in Plugins :
       \/ MapModule(p) \/ Start(p) \/ Unmap(p) \/ Lose(p) \/ DropListener(p)
       \/ \E next \in {"idle", "crashed"} : StartAndStop(p, next)

Spec == Init /\ [][Next]_lifecycle

(* Listeners belong to mapped modules whenever the loader is at rest, so a *)
(* lost one has none (unless mapped again), and a load is offered only     *)
(* when all but the lost ones are gone.                                    *)
Consistent ==
  /\ phase \in {"idle", "starting"} => listeners \subseteq mapped
  /\ phase = "idle" /\ ~loaded => mapped = {}
=============================================================================
