---------------------------- MODULE PluginLoader ----------------------------
(***************************************************************************)
(* The loader of src/src/plugin/PluginLoader.cpp: one load (at boot inside *)
(* handler::tryCatch, or later from the debug window), one unload, and the *)
(* state they share.  Every numbered step of loadPlugins and unloadPlugins *)
(* is an action, so a fault or a failing call can stop the sequence        *)
(* between any two of them.                                                *)
(*                                                                         *)
(* A directory entry is the contents of an NRO file, named by its SHA-256  *)
(* hash, or BadNro for contents GetBufferSize refuses: two files with the  *)
(* same contents are the same hash.  A slot of mPlugins the loader never   *)
(* wrote holds Garbage, since the array is allocated and not constructed.  *)
(***************************************************************************)
EXTENDS Naturals, FiniteSets

CONSTANTS Hashes,    \* the hashes of well-formed NRO files
          BadNro,    \* contents that are not an NRO
          Garbage,   \* contents of memory nobody initialised
          Loader,    \* owner of the event the loader itself registers
          MaxFiles,  \* bound: files found by one directory scan
          MaxSlots   \* bound: slots of memory modelled from mPlugins on

ASSUME ConstantsOK ==
  /\ MaxFiles \in Nat /\ MaxSlots \in Nat /\ MaxFiles <= MaxSlots
  /\ IsFiniteSet(Hashes)
  /\ BadNro \notin Hashes /\ Garbage \notin Hashes /\ Loader \notin Hashes

VARIABLES
  pc,               \* the next step of the loader
  isReload,         \* loadPlugins' argument: no tryCatch around a reload
  nroCount,         \* files found, the capacity of mPlugins and of the set
  fileData,         \* the DirFileEntry array of the running load
  i,                \* the loop index of the running step
  mPlugins,         \* memory from mPlugins on, as an array of slots
  mPluginCount,
  mSortedHashes,    \* the OrderedSet of hashes
  nrr,              \* hashes and num_hashes of the NRR in mNrrBuffer
  registered,       \* the NRR is registered with ro
  mIsPluginsLoaded,
  ro,               \* nn::ro is initialised
  orphans,          \* hashes of modules ro refused to unmap: mapped for good
  heap,             \* loader buffers alive in the plugin heap
  hookEvents,       \* owners of events in the game-hook holders
  modEvents,        \* owners of events in the loader's own (mod) holders
  modBuffer,        \* node buffer of the mod event maps, in the plugin heap
  abandoned         \* history: a load gave up before finishing, no unload since

data == <<mPlugins, mPluginCount, mSortedHashes, nrr, nroCount, fileData>>
service == <<registered, ro, orphans>>
events == <<hookEvents, modEvents, modBuffer>>
vars == <<pc, isReload, i, mIsPluginsLoaded, heap, abandoned, data, service, events>>

Slots == 0 .. MaxSlots - 1
Entries == Hashes \cup {BadNro}

(* A PluginData: the hash of its file, mModuleLoaded, whether ro has mapped *)
(* its module, and whether mFileData and mBssData point to live memory.  A  *)
(* module that outlives unloadPlugins has no slot: it is an orphan.         *)
PluginData == [hash: Hashes \cup {Garbage}, mModuleLoaded: BOOLEAN,
               mapped: BOOLEAN, image: BOOLEAN]

FreshSlot == [hash |-> Garbage, mModuleLoaded |-> FALSE,
              mapped |-> FALSE, image |-> FALSE]

Init ==
  /\ pc = "boot"
  /\ isReload = FALSE
  /\ nroCount = 0 /\ fileData = [n \in 1..0 |-> BadNro] /\ i = 0
  /\ mPlugins = [k \in Slots |-> FreshSlot]
  /\ mPluginCount = 0 /\ mSortedHashes = {}
  /\ nrr = [hashes |-> {}, num |-> 0]
  /\ registered = FALSE /\ mIsPluginsLoaded = FALSE /\ ro = FALSE /\ orphans = {}
  /\ heap = {}
  /\ hookEvents = {Loader} /\ modEvents = {} /\ modBuffer = "none"
  /\ abandoned = FALSE

-----------------------------------------------------------------------------
(* Loading.                                                                *)

(* ro::Initialize, the directory scan, and the allocation of the slots and *)
(* of the hash set's buffer.  mPluginCount and mSortedHashes are not reset. *)
BeginLoad(reload) ==
  /\ \E n \in 0 .. MaxFiles :
       \E files \in [1 .. n -> Entries] : nroCount' = n /\ fileData' = files
  /\ mPlugins' = [k \in Slots |-> FreshSlot]
  /\ heap' = heap \cup {"plugins", "set"}
  /\ ro' = TRUE
  /\ isReload' = reload
  /\ i' = 0
  /\ pc' = "create"
  /\ UNCHANGED <<mPluginCount, mSortedHashes, nrr, registered, orphans,
                 mIsPluginsLoaded, events, abandoned>>

gameSystemInitPrefix == pc = "boot" /\ BeginLoad(FALSE)

(* Mutant: the button is offered while plugins are loaded. *)
PressLoadMutant ==
  /\ pc = "idle"
  /\ mPluginCount + MaxFiles <= MaxSlots
  /\ BeginLoad(TRUE)

(* "Load Plugins" is drawn only while no plugins are loaded. *)
PressLoad ==
  /\ pc = "idle" /\ ~mIsPluginsLoaded
  /\ mPluginCount + MaxFiles <= MaxSlots
  /\ BeginLoad(TRUE)

(* A CPU exception: tryCatch returns to the game at boot, and the installed *)
(* handler ends the process when a reload faults.  Nothing is rolled back.  *)
Throw ==
  /\ pc' = IF isReload THEN "crashed" ELSE "idle"
  /\ abandoned' = (abandoned \/ ~mIsPluginsLoaded)

Entry == fileData[i + 1]
IsRefused(entry) == entry = BadNro \/ entry \in mSortedHashes

(* Mutant: the set is full one node too early. *)
InsertHashMutant(hash) ==
  IF Cardinality(mSortedHashes) + 1 >= nroCount THEN mSortedHashes
  ELSE mSortedHashes \cup {hash}

(* OrderedSet::insert does nothing once the set holds nroCount nodes. *)
InsertHash(hash) ==
  IF Cardinality(mSortedHashes) >= nroCount THEN mSortedHashes
  ELSE mSortedHashes \cup {hash}

(* createPluginData returns false: the slot is used again by the next entry. *)
RefuseEntry ==
  /\ pc = "create" /\ i < nroCount
  /\ IsRefused(Entry)
  /\ i' = i + 1
  /\ UNCHANGED <<pc, isReload, mIsPluginsLoaded, heap, abandoned, data, service, events>>

(* createPluginData returns true.  mModuleLoaded is not written: it keeps   *)
(* what the allocation held.                                                *)
createPluginData ==
  /\ pc = "create" /\ i < nroCount
  /\ ~IsRefused(Entry)
  /\ \E stale \in BOOLEAN :
       mPlugins' = [mPlugins EXCEPT ![mPluginCount] =
                      [hash |-> Entry, mModuleLoaded |-> stale,
                       mapped |-> FALSE, image |-> TRUE]]
  /\ mSortedHashes' = InsertHash(Entry)
  /\ mPluginCount' = mPluginCount + 1
  /\ i' = i + 1
  /\ UNCHANGED <<pc, isReload, mIsPluginsLoaded, heap, abandoned,
                 nrr, nroCount, fileData, service, events>>

(* pluginAlloc returned null, and the copy of a file into it or, after the  *)
(* last file, the clearing of the NRR's buffer faults.                      *)
CreateFaults ==
  /\ pc = "create"
  /\ Throw
  /\ UNCHANGED <<isReload, i, mIsPluginsLoaded, heap, data, service, events>>

(* End of preparePluginsForLoad, then generatePluginNrr: the file buffers  *)
(* and the set's buffer are given back and the set is reset.               *)
generatePluginNrr ==
  /\ pc = "create" /\ i = nroCount
  /\ nrr' = [hashes |-> mSortedHashes, num |-> mPluginCount]
  /\ mSortedHashes' = {}
  /\ heap' = (heap \ {"set"}) \cup {"nrr"}
  /\ fileData' = [n \in 1..0 |-> BadNro]
  /\ pc' = "register"
  /\ UNCHANGED <<isReload, i, mIsPluginsLoaded, abandoned, mPlugins,
                 mPluginCount, nroCount, service, events>>

RegisterModuleInfo ==
  /\ pc = "register"
  /\ registered' = TRUE
  /\ i' = 0
  /\ pc' = "load"
  /\ UNCHANGED <<isReload, mIsPluginsLoaded, heap, abandoned, data, ro, orphans, events>>

(* loadPlugins returns false and leaves everything it built behind. *)
RegisterFails ==
  /\ pc = "register"
  /\ pc' = "idle"
  /\ abandoned' = TRUE
  /\ UNCHANGED <<isReload, i, mIsPluginsLoaded, heap, data, service, events>>

(* ro maps a module only when a registered NRR lists the hash of its file. *)
LoadModule ==
  /\ pc = "load" /\ i < mPluginCount
  /\ mPlugins[i].hash \in nrr.hashes
  /\ mPlugins' = [mPlugins EXCEPT ![i].mModuleLoaded = TRUE, ![i].mapped = TRUE]
  /\ i' = i + 1
  /\ UNCHANGED <<pc, isReload, mIsPluginsLoaded, heap, abandoned, mPluginCount,
                 mSortedHashes, nrr, nroCount, fileData, service, events>>

(* A failure is logged; mModuleLoaded is left alone. *)
LoadModuleFails ==
  /\ pc = "load" /\ i < mPluginCount
  /\ i' = i + 1
  /\ UNCHANGED <<pc, isReload, mIsPluginsLoaded, heap, abandoned, data, service, events>>

(* A slot that was never written hands wild pointers to ro. *)
LoadModuleFaults ==
  /\ pc = "load" /\ i < mPluginCount
  /\ mPlugins[i].hash = Garbage
  /\ Throw
  /\ UNCHANGED <<isReload, i, mIsPluginsLoaded, heap, data, service, events>>

FinishLoading ==
  /\ pc = "load" /\ i = mPluginCount
  /\ mIsPluginsLoaded' = TRUE
  /\ i' = 0
  /\ pc' = "main"
  /\ UNCHANGED <<isReload, heap, abandoned, data, service, events>>

-----------------------------------------------------------------------------
(* plugin_main.                                                            *)

ReadsLoaded(k) == mPlugins[k].mModuleLoaded \/ mPlugins[k].hash = Garbage

(* mModuleLoaded reads false, or the module has no plugin_main symbol: on  *)
(* to the next plugin.                                                     *)
SkipPlugin ==
  /\ pc = "main" /\ i < mPluginCount
  /\ i' = i + 1
  /\ UNCHANGED <<pc, isReload, mIsPluginsLoaded, heap, abandoned, data, service, events>>

(* What a running plugin may do through the exported functions: add events *)
(* to hook holders and to mod holders, whose map buffer is allocated on    *)
(* first use.                                                              *)
AddEvents(owner) ==
  \/ UNCHANGED events
  \/ hookEvents' = hookEvents \cup {owner} /\ UNCHANGED <<modEvents, modBuffer>>
  \/ /\ modEvents' = modEvents \cup {owner} /\ modBuffer' = "live"
     /\ hookEvents' \in {hookEvents, hookEvents \cup {owner}}

(* plugin_main returns, true or false: the loader keeps the module and its *)
(* events either way.                                                      *)
runPluginMain ==
  /\ pc = "main" /\ i < mPluginCount
  /\ ReadsLoaded(i) /\ mPlugins[i].mapped
  /\ AddEvents(mPlugins[i].hash)
  /\ i' = i + 1
  /\ UNCHANGED <<pc, isReload, mIsPluginsLoaded, heap, abandoned, data, service>>

(* plugin_main faults after adding some of its events. *)
PluginMainFaults ==
  /\ pc = "main" /\ i < mPluginCount
  /\ ReadsLoaded(i) /\ mPlugins[i].mapped
  /\ AddEvents(mPlugins[i].hash)
  /\ Throw
  /\ UNCHANGED <<isReload, i, mIsPluginsLoaded, heap, data, service>>

(* The symbol lookup in a Module ro never filled in faults. *)
LookupFaults ==
  /\ pc = "main" /\ i < mPluginCount
  /\ ReadsLoaded(i) /\ ~mPlugins[i].mapped
  /\ Throw
  /\ UNCHANGED <<isReload, i, mIsPluginsLoaded, heap, data, service, events>>

(* Mutant: the loop starts over instead of ending. *)
loadPluginsReturnsMutant ==
  /\ pc = "main" /\ i = mPluginCount
  /\ i' = 0
  /\ UNCHANGED <<pc, isReload, mIsPluginsLoaded, heap, abandoned, data, service, events>>

loadPluginsReturns ==
  /\ pc = "main" /\ i = mPluginCount
  /\ pc' = "idle"
  /\ UNCHANGED <<isReload, i, mIsPluginsLoaded, heap, abandoned, data, service, events>>

-----------------------------------------------------------------------------
(* Unloading.                                                              *)

(* "Unload Plugins" is drawn only while plugins are loaded. *)
PressUnload ==
  /\ pc = "idle" /\ mIsPluginsLoaded
  /\ pc' = "unload"
  /\ i' = 0
  /\ UNCHANGED <<isReload, mIsPluginsLoaded, heap, abandoned, data, service, events>>

(* Mutant: a module ro refuses to unmap ends the loop.                     *)
UnloadModuleFailsMutant ==
  /\ pc = "unload" /\ i < mPluginCount /\ mPlugins[i].mapped
  /\ i' = mPluginCount
  /\ UNCHANGED <<pc, isReload, mIsPluginsLoaded, heap, abandoned, data, service, events>>

(* The module is unmapped, or the slot never had one.                      *)
UnloadModule ==
  /\ pc = "unload" /\ i < mPluginCount
  /\ mPlugins' = [mPlugins EXCEPT ![i].mapped = FALSE]
  /\ i' = i + 1
  /\ UNCHANGED <<pc, isReload, mIsPluginsLoaded, heap, abandoned, mPluginCount,
                 mSortedHashes, nrr, nroCount, fileData, service, events>>

(* UnloadModule's Result is dropped: the loop leaves the module mapped and  *)
(* forgets it, and the rest of the unload goes on as if it were gone.       *)
UnloadModuleFails ==
  /\ pc = "unload" /\ i < mPluginCount /\ mPlugins[i].mapped
  /\ mPlugins' = [mPlugins EXCEPT ![i].mapped = FALSE]
  /\ orphans' = orphans \cup {mPlugins[i].hash}
  /\ i' = i + 1
  /\ UNCHANGED <<pc, isReload, mIsPluginsLoaded, heap, abandoned, mPluginCount,
                 mSortedHashes, nrr, nroCount, fileData, registered, ro, events>>

(* Mutant: the plugin count survives the reset. *)
ResetHeapMutant ==
  /\ pc = "unload" /\ i = mPluginCount
  /\ heap' = {}
  /\ mPlugins' = [k \in Slots |-> [mPlugins[k] EXCEPT !.image = FALSE]]
  /\ modBuffer' = IF modBuffer = "live" THEN "dangling" ELSE modBuffer
  /\ mIsPluginsLoaded' = FALSE
  /\ abandoned' = FALSE
  /\ pc' = "clear"
  /\ UNCHANGED <<isReload, i, mPluginCount, mSortedHashes, nrr, nroCount, fileData,
                 service, hookEvents, modEvents>>

(* freeAll takes the mod event maps' buffers with everything else. *)
ResetHeap ==
  /\ pc = "unload" /\ i = mPluginCount
  /\ heap' = {}
  /\ mPlugins' = [k \in Slots |-> [mPlugins[k] EXCEPT !.image = FALSE]]
  /\ modBuffer' = IF modBuffer = "live" THEN "dangling" ELSE modBuffer
  /\ mPluginCount' = 0
  /\ mIsPluginsLoaded' = FALSE
  /\ abandoned' = FALSE
  /\ pc' = "clear"
  /\ UNCHANGED <<isReload, i, mSortedHashes, nrr, nroCount, fileData, service,
                 hookEvents, modEvents>>

(* Mutant: the holders are not emptied. *)
clearAllEventsMutant ==
  /\ pc = "clear"
  /\ pc' = "finalize"
  /\ UNCHANGED <<isReload, i, mIsPluginsLoaded, heap, abandoned, data, service, events>>

(* Every holder is emptied, the loader's own event included; the mod maps  *)
(* get a new buffer.                                                       *)
clearAllEvents ==
  /\ pc = "clear"
  /\ hookEvents' = {} /\ modEvents' = {} /\ modBuffer' = "live"
  /\ pc' = "finalize"
  /\ UNCHANGED <<isReload, i, mIsPluginsLoaded, heap, abandoned, data, service>>

(* clear() destroys the nodes and freeBuffer() returns the buffer after the *)
(* heap they were in has been reset: the process may not survive it.        *)
ClearFaults ==
  /\ pc = "clear" /\ modBuffer = "dangling"
  /\ pc' = "crashed"
  /\ UNCHANGED <<isReload, i, mIsPluginsLoaded, heap, abandoned, data, service, events>>

(* Mutant: ro is left open, and the NRR registered. *)
FinalizeMutant ==
  /\ pc = "finalize"
  /\ pc' = "idle"
  /\ UNCHANGED <<isReload, i, mIsPluginsLoaded, heap, abandoned, data, service, events>>

(* Closing ro drops the registration, which is never undone explicitly. *)
Finalize ==
  /\ pc = "finalize"
  /\ ro' = FALSE /\ registered' = FALSE
  /\ pc' = "idle"
  /\ UNCHANGED <<isReload, i, mIsPluginsLoaded, heap, abandoned, data, orphans, events>>

(* Only the mod holders look at the key, and they key events by module path. *)
unloadPluginByName(owner) ==
  /\ pc = "idle"
  /\ modEvents' \in {modEvents, modEvents \ {owner}}
  /\ modBuffer' = "live"
  /\ UNCHANGED <<pc, isReload, i, mIsPluginsLoaded, heap, abandoned, data,
                 service, hookEvents>>

(* A frame draws the ImguiDraw events: the first use allocates the buffer. *)
DrawEvents ==
  /\ pc = "idle" /\ modBuffer = "none"
  /\ modBuffer' = "live"
  /\ UNCHANGED <<pc, isReload, i, mIsPluginsLoaded, heap, abandoned, data,
                 service, hookEvents, modEvents>>

Halted == pc = "crashed" /\ UNCHANGED vars

-----------------------------------------------------------------------------
LoadStep ==
  \/ RefuseEntry \/ createPluginData \/ CreateFaults \/ generatePluginNrr
  \/ RegisterModuleInfo \/ RegisterFails
  \/ LoadModule \/ LoadModuleFails \/ LoadModuleFaults \/ FinishLoading

MainStep ==
  \/ SkipPlugin \/ runPluginMain \/ PluginMainFaults \/ LookupFaults
  \/ loadPluginsReturns

UnloadStep ==
  \/ UnloadModule \/ UnloadModuleFails \/ ResetHeap
  \/ clearAllEvents \/ ClearFaults \/ Finalize

UserStep ==
  \/ gameSystemInitPrefix \/ PressLoad \/ PressUnload \/ DrawEvents
  \/ \E owner \in Hashes : unloadPluginByName(owner)

Next == LoadStep \/ MainStep \/ UnloadStep \/ UserStep \/ Halted

(* The loader's steps are straight-line code of one thread: a step that is *)
(* started is finished.  The user may never press a button.                *)
Fairness == WF_vars(LoadStep \/ MainStep \/ UnloadStep)

Spec == Init /\ [][Next]_vars /\ Fairness

-----------------------------------------------------------------------------
(* Properties.                                                             *)

Used == {k \in Slots : k < mPluginCount}
(* The modules that are mapped, without the orphans.                        *)
MappedHashes == {mPlugins[k].hash : k \in {j \in Slots : mPlugins[j].mapped}}

TypeOK ==
  /\ pc \in {"boot", "idle", "create", "register", "load", "main", "unload",
             "clear", "finalize", "crashed"}
  /\ isReload \in BOOLEAN
  /\ nroCount \in 0 .. MaxFiles
  /\ fileData \in [1 .. nroCount -> Entries] \cup [1 .. 0 -> Entries]
  /\ pc = "create" => fileData \in [1 .. nroCount -> Entries]
  /\ i \in Nat
  /\ mPlugins \in [Slots -> PluginData]
  /\ mPluginCount \in 0 .. MaxSlots
  /\ mSortedHashes \in SUBSET Hashes
  /\ nrr \in [hashes: SUBSET Hashes, num: 0 .. MaxSlots]
  /\ registered \in BOOLEAN /\ mIsPluginsLoaded \in BOOLEAN /\ ro \in BOOLEAN
  /\ orphans \in SUBSET Hashes
  /\ heap \subseteq {"plugins", "set", "nrr"}
  /\ hookEvents \subseteq Hashes \cup {Loader} /\ modEvents \subseteq Hashes
  /\ modBuffer \in {"none", "live", "dangling"}
  /\ abandoned \in BOOLEAN

(* preparePluginsForLoad indexes mPlugins by mPluginCount, which it never   *)
(* compares with nroCount: the write stays inside the array as long as no   *)
(* earlier load was abandoned with slots already counted.                   *)
SlotsWithinArray ==
  ~abandoned /\ pc = "create" /\ i < nroCount => mPluginCount < nroCount

(* The NRR is built from the set and sized by the counter, two structures   *)
(* kept in step only by createPluginData: what is registered is exactly the *)
(* set of counted plugins, one hash each.                                   *)
NrrListsThePlugins ==
  ~abandoned /\ pc \in {"register", "load", "main"} =>
    /\ nrr.hashes = {mPlugins[k].hash : k \in Used}
    /\ nrr.num = Cardinality(nrr.hashes)

(* ro runs a module out of the buffers the loader allocated: no buffer is   *)
(* given back under a module that has a slot, across unloads, failed loads  *)
(* and retries.  Only an orphan's is, by freeAll (lines 219 and 223).       *)
ModulesKeepTheirImage == \A k \in Slots : mPlugins[k].mapped => mPlugins[k].image

(* A module with a slot is mapped only while the NRR that authorises it is  *)
(* registered, and only below mPluginCount, where unloadPlugins will find   *)
(* it.  An orphan outlives both.                                            *)
MappedModulesAreKnown ==
  \A k \in Slots : mPlugins[k].mapped =>
    registered /\ k < mPluginCount /\ mPlugins[k].hash \in nrr.hashes

(* Outside a load or an unload, every event left in a holder belongs to the *)
(* loader or to a module that has a slot and is mapped: none leads into an  *)
(* orphan, whose image is gone, unless the same file was loaded once more.  *)
NoEventOutlivesItsModule ==
  pc \in {"idle", "main"} => (hookEvents \ {Loader}) \cup modEvents \subseteq MappedHashes

(* mIsPluginsLoaded, which decides the button the user is offered, agrees   *)
(* with ro and with the heap between operations.  While a load is offered   *)
(* no module is mapped but orphans, in particular none of a load that was   *)
(* abandoned, whose slots the next load overwrites.                         *)
FlagTellsTheTruth ==
  pc = "idle" =>
    /\ mIsPluginsLoaded <=> registered
    /\ mIsPluginsLoaded => ro /\ {"plugins", "nrr"} \subseteq heap
    /\ ~mIsPluginsLoaded => MappedHashes = {}

(* The mod event maps live in the plugin heap that unloadPlugins resets:    *)
(* they hold a freed buffer only until clearAllEvents replaces it, and no   *)
(* frame draws from it.                                                     *)
ModBufferIsReplaced == modBuffer = "dangling" => pc \in {"clear", "crashed"}

(* The hash set has nodes only while the buffer they live in is allocated.  *)
SetNodesAreAlive == mSortedHashes # {} => "set" \in heap

(* No container is used on memory that has been given back: neither the mod *)
(* maps across an unload, nor the hash set across loads that were retried.  *)
NoBufferDangles == ModBufferIsReplaced /\ SetNodesAreAlive

(* loadPlugins comes back to its caller, or a fault ends the process. *)
LoadReturns == pc = "create" ~> pc \in {"idle", "crashed"}

(* Once started, an unload reaches the state in which a load is offered, or *)
(* the process ends on the freed mod events.                                *)
UnloadCompletes == pc = "unload" ~> pc = "crashed" \/ (pc = "idle" /\ ~mIsPluginsLoaded)

(* The frame that presses a button goes on, whatever fails on the way.      *)
OperationsComplete == LoadReturns /\ UnloadCompletes

-----------------------------------------------------------------------------
(* The loader implements the lifecycle it promises.                        *)

Phase ==
  CASE pc \in {"boot", "idle"} -> "idle"
    [] pc \in {"create", "register", "load"} -> "loading"
    [] pc = "main" -> "starting"
    [] pc \in {"unload", "clear", "finalize"} -> "unloading"
    [] pc = "crashed" -> "crashed"

Lifecycle == INSTANCE PluginLifecycle WITH
  Plugins <- Hashes,
  phase <- Phase,
  loaded <- mIsPluginsLoaded,
  lost <- orphans,
  mapped <- MappedHashes,
  listeners <- (hookEvents \ {Loader}) \cup modEvents

(* Every behaviour of the loader is one of the lifecycle: modules are mapped *)
(* before any plugin code starts, and are gone, or lost, before their events *)
(* are.                                                                      *)
ImplementsLifecycle == Lifecycle!Spec

=============================================================================
