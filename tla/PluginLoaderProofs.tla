------------------------- MODULE PluginLoaderProofs -------------------------
(***************************************************************************)
(* Proofs about PluginLoader for every set of hashes, every number of      *)
(* files and every extent of the memory behind mPlugins, and that it       *)
(* implements PluginLifecycle; and about FsHelper, which finds the files   *)
(* for the loader, for directories of every size.                          *)
(***************************************************************************)
EXTENDS PluginLoader, FsHelper, FiniteSetTheorems, TLAPS

NothingMapped == \A k \in Slots : ~mPlugins[k].mapped
NoListeners == hookEvents \subseteq {Loader} /\ modEvents = {}

(* What is loaded, registered, mapped and listening at each step. *)
Stages ==
  /\ pc \in {"boot", "create", "register"} =>
       ~mIsPluginsLoaded /\ ~registered /\ NothingMapped /\ NoListeners
  /\ pc = "load" => ~mIsPluginsLoaded /\ registered /\ NoListeners
  /\ pc \in {"main", "unload"} => mIsPluginsLoaded /\ registered
  /\ pc \in {"clear", "finalize"} => ~mIsPluginsLoaded /\ NothingMapped
  /\ pc = "finalize" => NoListeners
  /\ pc = "idle" => (mIsPluginsLoaded <=> registered)
  /\ pc = "idle" /\ ~mIsPluginsLoaded => NothingMapped /\ NoListeners

(* The buffers each step finds in the heap. *)
Resources ==
  /\ pc \in {"create", "register", "load", "main", "unload"} => ro /\ "plugins" \in heap
  /\ pc \in {"register", "load", "main", "unload"} => "nrr" \in heap /\ mSortedHashes = {}
  /\ pc = "idle" /\ mIsPluginsLoaded =>
       ro /\ "plugins" \in heap /\ "nrr" \in heap /\ mSortedHashes = {}
  /\ pc \in {"boot", "clear", "finalize"} => mSortedHashes = {}
  /\ pc = "create" => "set" \in heap

(* How far each loop is. *)
Loops ==
  /\ pc = "boot" => mPluginCount = 0
  /\ pc = "create" => i <= nroCount /\ mPluginCount + (nroCount - i) <= MaxSlots
  /\ pc \in {"load", "main", "unload"} => i <= mPluginCount
  /\ pc = "unload" => \A k \in Slots : mPlugins[k].mapped => i <= k

(* Which slots createPluginData has filled; a first load counts no other. *)
Filled ==
  pc \in {"create", "register", "load"} =>
    /\ \A k \in Slots : mPlugins[k].hash # Garbage => mPlugins[k].image
    /\ ~isReload => \A k \in Used : mPlugins[k].hash # Garbage

(* The three invariants of a mapped slot, in one. *)
Mapped ==
  \A k \in Slots : mPlugins[k].mapped =>
    /\ mPlugins[k].image /\ mPlugins[k].mModuleLoaded
    /\ registered /\ k < mPluginCount /\ mPlugins[k].hash \in nrr.hashes

(* The counter and the set of hashes go together until a load is abandoned. *)
Counting ==
  /\ pc \in {"clear", "finalize"} => mPluginCount = 0
  /\ ~abandoned /\ ~mIsPluginsLoaded /\ pc \in {"boot", "idle"} =>
       mPluginCount = 0 /\ mSortedHashes = {}
  /\ ~abandoned /\ pc = "create" =>
       /\ mPluginCount <= i
       /\ mSortedHashes = {mPlugins[k].hash : k \in Used}
       /\ Cardinality(mSortedHashes) = mPluginCount

IInv ==
  /\ TypeOK /\ Stages /\ Resources /\ Loops /\ Filled /\ Mapped
  /\ NoEventOutlivesItsModule /\ ModBufferIsReplaced /\ SetNodesAreAlive
  /\ Counting /\ NrrListsThePlugins

-----------------------------------------------------------------------------
(* The flags of a slot may change without harm to the slot's type. *)
LEMMA SlotTypes ==
  ASSUME NEW plugin \in PluginData
  PROVE  /\ [plugin EXCEPT !.mapped = FALSE] \in PluginData
         /\ [plugin EXCEPT !.image = FALSE] \in PluginData
         /\ [plugin EXCEPT !.mModuleLoaded = TRUE, !.mapped = TRUE] \in PluginData
BY DEF PluginData

(* Initially nothing is loaded. *)
LEMMA InitIInv == Init => IInv
<1> USE ConstantsOK
    DEF ConstantsOK, IInv, TypeOK, Stages, Resources, Loops, Filled, Mapped,
        NoEventOutlivesItsModule, ModBufferIsReplaced, Counting, NrrListsThePlugins,
        SetNodesAreAlive, Used, Entries, Slots, PluginData, MappedHashes,
        NothingMapped, NoListeners, data, service, events
<1> SUFFICES ASSUME Init PROVE IInv
  OBVIOUS
<1> USE DEF Init, FreshSlot
<1>1. TypeOK
  <2>1. mPlugins \in [Slots -> PluginData] /\ fileData \in [1 .. nroCount -> Entries]
    OBVIOUS
  <2>2. nrr \in [hashes: SUBSET Hashes, num: 0 .. MaxSlots] /\ mSortedHashes \in SUBSET Hashes
    OBVIOUS
  <2>3. heap \subseteq {"plugins", "set", "nrr"} /\ hookEvents \subseteq Hashes \cup {Loader}
    OBVIOUS
  <2>4. modEvents \subseteq Hashes /\ abandoned \in BOOLEAN
    OBVIOUS
  <2>5. isReload \in BOOLEAN /\ registered \in BOOLEAN /\ mIsPluginsLoaded \in BOOLEAN /\ ro \in BOOLEAN
    OBVIOUS
  <2> QED
    BY <2>1, <2>2, <2>3, <2>4, <2>5
<1>2. Stages /\ Resources /\ Loops /\ Filled /\ Mapped
  OBVIOUS
<1>3. NoEventOutlivesItsModule /\ ModBufferIsReplaced /\ SetNodesAreAlive /\ Counting /\ NrrListsThePlugins
  OBVIOUS
<1> QED
  BY <1>1, <1>2, <1>3

(* A load begins with fresh slots: what was mapped or counted before is out  *)
(* of the array, the counter is not.                                         *)
LEMMA BeginLoadStep ==
  ASSUME IInv, pc \in {"boot", "idle"}, ~mIsPluginsLoaded,
         mPluginCount + MaxFiles <= MaxSlots,
         NEW reload \in BOOLEAN, ~reload => mPluginCount = 0,
         BeginLoad(reload)
  PROVE  IInv'
<1> USE ConstantsOK
    DEF ConstantsOK, IInv, TypeOK, Stages, Resources, Loops, Filled, Mapped,
        NoEventOutlivesItsModule, ModBufferIsReplaced, Counting, NrrListsThePlugins,
        SetNodesAreAlive, Used, Entries, Slots, PluginData, MappedHashes,
        NothingMapped, NoListeners, data, service, events
<1> USE DEF BeginLoad, FreshSlot
<1>1. PICK n \in 0 .. MaxFiles :
        \E files \in [1 .. n -> Entries] : nroCount' = n /\ fileData' = files
  OBVIOUS
<1>2. TypeOK'
  <2>1. fileData' \in [1 .. nroCount' -> Entries] /\ nroCount' \in 0 .. MaxFiles
    BY <1>1
  <2>2. mPlugins' \in [Slots -> PluginData]
    OBVIOUS
  <2> QED
    BY <2>1, <2>2
<1>3. Stages' /\ Resources'
  OBVIOUS
<1>4. Loops' /\ Filled' /\ Mapped'
  BY <1>1
<1>5. NoEventOutlivesItsModule' /\ ModBufferIsReplaced' /\ SetNodesAreAlive' /\ NrrListsThePlugins'
  OBVIOUS
<1>6. Counting'
  <2>1. ~abandoned' => mPluginCount' = 0 /\ mSortedHashes' = {}
    OBVIOUS
  <2>2. mPluginCount' = 0 => {mPlugins'[k].hash : k \in Used'} = {}
    OBVIOUS
  <2>3. ~abandoned' => Cardinality(mSortedHashes') = 0
    BY <2>1, FS_EmptySet
  <2>4. pc' = "create" /\ i' = 0
    OBVIOUS
  <2> HIDE DEF Used, BeginLoad, IInv
  <2> QED
    BY <2>1, <2>2, <2>3, <2>4
<1> QED
  BY <1>2, <1>3, <1>4, <1>5, <1>6

(* A new slot extends what is counted and what the set holds by one hash the *)
(* set did not have.                                                         *)
LEMMA createPluginDataStep == ASSUME IInv, createPluginData PROVE IInv'
<1> USE ConstantsOK
    DEF ConstantsOK, IInv, TypeOK, Stages, Resources, Loops, Filled, Mapped,
        NoEventOutlivesItsModule, ModBufferIsReplaced, Counting, NrrListsThePlugins,
        SetNodesAreAlive, Used, Entries, Slots, PluginData, MappedHashes,
        NothingMapped, NoListeners, data, service, events
<1> USE DEF createPluginData, Entry, IsRefused, InsertHash
<1>1. TypeOK'
  <2>1. mPlugins' \in [Slots -> PluginData]
    OBVIOUS
  <2>2. mPluginCount' \in 0 .. MaxSlots /\ i' \in Nat /\ mSortedHashes' \subseteq Hashes
    OBVIOUS
  <2> QED
    BY <2>1, <2>2
<1>5. Stages' /\ Resources' /\ Loops'
  OBVIOUS
<1>2. Filled' /\ Mapped' /\ NoEventOutlivesItsModule' /\ ModBufferIsReplaced' /\ SetNodesAreAlive'
  OBVIOUS
<1>3. NrrListsThePlugins'
  OBVIOUS
<1>4. Counting'
  <2>1. CASE abandoned
    BY <2>1
  <2>2. CASE ~abandoned
    <3>1. mPluginCount <= i /\ i < nroCount /\ Cardinality(mSortedHashes) = mPluginCount
      BY <2>2
    <3>2. mSortedHashes' = mSortedHashes \cup {Entry}
      BY <3>1
    <3>3. Entry \notin mSortedHashes /\ IsFiniteSet(mSortedHashes)
      BY FS_Subset
    <3>4. Cardinality(mSortedHashes') = mPluginCount'
      <4>1. mPluginCount' = mPluginCount + 1
        OBVIOUS
      <4> HIDE DEF Entry, IInv, createPluginData
      <4> QED
        BY <3>1, <3>2, <3>3, <4>1, FS_AddElement
    <3>5. mSortedHashes' = {mPlugins'[k].hash : k \in Used'}
      <4>1. mSortedHashes = {mPlugins[k].hash : k \in Used}
        BY <2>2
      <4>2. Used' = Used \cup {mPluginCount}
        BY <3>1
      <4>3. mPlugins'[mPluginCount].hash = Entry
        OBVIOUS
      <4>4. \A k \in Used : mPlugins'[k].hash = mPlugins[k].hash
        OBVIOUS
      <4> HIDE DEF Used, Entry, IInv, createPluginData
      <4> QED
        BY <3>2, <4>1, <4>2, <4>3, <4>4
    <3>6. pc' = "create" /\ i' = i + 1 /\ mPluginCount' = mPluginCount + 1
      OBVIOUS
    <3>7. mPluginCount' <= i'
      BY <3>1, <3>6
    <3> HIDE DEF Used, Entry, createPluginData, IInv
    <3> QED
      BY <3>4, <3>5, <3>6, <3>7
  <2> QED
    BY <2>1, <2>2
<1> QED
  BY <1>1, <1>5, <1>2, <1>3, <1>4

LEMMA LoadModuleStep == ASSUME IInv, LoadModule PROVE IInv'
<1> USE ConstantsOK
    DEF ConstantsOK, IInv, TypeOK, Stages, Resources, Loops, Filled, Mapped,
        NoEventOutlivesItsModule, ModBufferIsReplaced, Counting, NrrListsThePlugins,
        SetNodesAreAlive, Used, Entries, Slots, PluginData, MappedHashes,
        NothingMapped, NoListeners, data, service, events
<1> USE DEF LoadModule
<1>1. TypeOK'
  <2>1. mPlugins' \in [Slots -> PluginData] /\ i' \in Nat
    <3> DEFINE plugin == [mPlugins[i] EXCEPT !.mModuleLoaded = TRUE, !.mapped = TRUE]
    <3>1. i \in Slots /\ i' \in Nat /\ mPlugins \in [Slots -> PluginData]
      OBVIOUS
    <3> HIDE DEF PluginData
    <3>2. plugin \in PluginData
      BY <3>1, SlotTypes
    <3>3. mPlugins' = [mPlugins EXCEPT ![i] = plugin]
      OBVIOUS
    <3> HIDE DEF plugin, Slots, IInv, LoadModule
    <3> QED
      BY <3>1, <3>2, <3>3
  <2> QED
    BY <2>1
<1>2. Stages' /\ Resources' /\ Loops' /\ Filled' /\ Mapped'
  OBVIOUS
<1>3. NoEventOutlivesItsModule' /\ ModBufferIsReplaced' /\ SetNodesAreAlive' /\ Counting'
  OBVIOUS
<1>4. NrrListsThePlugins'
  <2>1. \A k \in Slots : mPlugins'[k].hash = mPlugins[k].hash
    OBVIOUS
  <2>2. {mPlugins'[k].hash : k \in Used'} = {mPlugins[k].hash : k \in Used}
    BY <2>1
  <2>3. pc = "load" /\ pc' = "load" /\ nrr' = nrr /\ abandoned' = abandoned
    OBVIOUS
  <2> HIDE DEF Used, LoadModule
  <2> QED
    BY <2>2, <2>3
<1> QED
  BY <1>1, <1>2, <1>3, <1>4

LEMMA UnloadModuleStep == ASSUME IInv, UnloadModule \/ UnloadModuleFails PROVE IInv'
<1> USE ConstantsOK
    DEF ConstantsOK, IInv, TypeOK, Stages, Resources, Loops, Filled, Mapped,
        NoEventOutlivesItsModule, ModBufferIsReplaced, Counting, NrrListsThePlugins,
        SetNodesAreAlive, Used, Entries, Slots, PluginData, MappedHashes,
        NothingMapped, NoListeners, data, service, events
<1> USE DEF UnloadModule, UnloadModuleFails
<1>1. TypeOK'
  <2>1. mPlugins' \in [Slots -> PluginData] /\ i' \in Nat
    <3> DEFINE plugin == [mPlugins[i] EXCEPT !.mapped = FALSE]
    <3>1. i \in Slots /\ i' \in Nat /\ mPlugins \in [Slots -> PluginData]
      OBVIOUS
    <3> HIDE DEF PluginData
    <3>2. plugin \in PluginData
      BY <3>1, SlotTypes
    <3>3. mPlugins' = [mPlugins EXCEPT ![i] = plugin]
      OBVIOUS
    <3> HIDE DEF plugin, Slots, IInv, UnloadModule, UnloadModuleFails
    <3> QED
      BY <3>1, <3>2, <3>3
  <2>2. orphans' \in SUBSET Hashes
    OBVIOUS
  <2> QED
    BY <2>1, <2>2
<1>5. Stages' /\ Resources'
  OBVIOUS
<1>6. Loops'
  <2>1. pc' = "unload" /\ i < mPluginCount /\ i \in Nat /\ mPluginCount \in Nat
    OBVIOUS
  <2>2. i' = i + 1 /\ mPluginCount' = mPluginCount
    OBVIOUS
  <2>3. \A k \in Slots : mPlugins'[k].mapped => mPlugins[k].mapped /\ k # i
    OBVIOUS
  <2>4. \A k \in Slots : mPlugins'[k].mapped => i' <= k
    BY <2>1, <2>2, <2>3
  <2> HIDE DEF UnloadModule, UnloadModuleFails
  <2> QED
    BY <2>1, <2>2, <2>4
<1>2. Filled' /\ Mapped'
  <2>1. /\ i \in Slots /\ pc' = pc /\ pc = "unload"
        /\ \A k \in Slots : mPlugins'[k].mapped => mPlugins'[k] = mPlugins[k]
    OBVIOUS
  <2>2. UNCHANGED <<registered, mPluginCount, nrr>>
    OBVIOUS
  <2> HIDE DEF UnloadModule, UnloadModuleFails
  <2> QED
    BY <2>1, <2>2
<1>3. NoEventOutlivesItsModule' /\ ModBufferIsReplaced' /\ SetNodesAreAlive' /\ Counting'
  OBVIOUS
<1>4. NrrListsThePlugins'
  OBVIOUS
<1> QED
  BY <1>1, <1>2, <1>3, <1>4, <1>5, <1>6

LEMMA ResetHeapStep == ASSUME IInv, ResetHeap PROVE IInv'
<1> USE ConstantsOK
    DEF ConstantsOK, IInv, TypeOK, Stages, Resources, Loops, Filled, Mapped,
        NoEventOutlivesItsModule, ModBufferIsReplaced, Counting, NrrListsThePlugins,
        SetNodesAreAlive, Used, Entries, Slots, PluginData, MappedHashes,
        NothingMapped, NoListeners, data, service, events
<1> USE DEF ResetHeap
<1>1. TypeOK'
  <2>1. mPlugins' \in [Slots -> PluginData]
    <3> HIDE DEF PluginData
    <3> QED
      BY SlotTypes
  <2>2. heap' \subseteq {"plugins", "set", "nrr"} /\ mPluginCount' \in 0 .. MaxSlots
    OBVIOUS
  <2>3. modBuffer' \in {"none", "live", "dangling"}
    OBVIOUS
  <2> QED
    BY <2>1, <2>2, <2>3
<1>0. NothingMapped
  BY DEF ResetHeap
<1>2. Stages'
  BY <1>0
<1>5. Resources' /\ Loops'
  OBVIOUS
<1>6. Filled'
  OBVIOUS
<1>7. Mapped'
  <2>1. \A k \in Slots : mPlugins'[k].mapped = mPlugins[k].mapped
    OBVIOUS
  <2>2. \A k \in Slots : ~mPlugins'[k].mapped
    BY <1>0, <2>1
  <2> QED
    BY <2>2
<1>3. NoEventOutlivesItsModule' /\ ModBufferIsReplaced' /\ SetNodesAreAlive' /\ Counting'
  OBVIOUS
<1>4. NrrListsThePlugins'
  OBVIOUS
<1> QED
  BY <1>1, <1>2, <1>3, <1>4, <1>5, <1>6, <1>7

(* The other steps of a load change flags, buffers and the NRR.      *)
LEMMA LoadSteps ==
  ASSUME IInv, RefuseEntry \/ CreateFaults \/ generatePluginNrr
               \/ RegisterModuleInfo \/ RegisterFails
               \/ LoadModuleFails \/ LoadModuleFaults \/ FinishLoading
  PROVE  IInv'
<1> USE ConstantsOK
    DEF ConstantsOK, IInv, TypeOK, Stages, Resources, Loops, Filled, Mapped,
        NoEventOutlivesItsModule, ModBufferIsReplaced, Counting, NrrListsThePlugins,
        SetNodesAreAlive, Used, Entries, Slots, PluginData, MappedHashes,
        NothingMapped, NoListeners, data, service, events, vars, Throw, Entry, IsRefused
<1>1. CASE RefuseEntry
  BY <1>1, SMTT(60) DEF RefuseEntry
<1>2. CASE CreateFaults
  BY <1>2 DEF CreateFaults
<1>3. CASE generatePluginNrr
  BY <1>3 DEF generatePluginNrr
<1>4. CASE RegisterModuleInfo
  BY <1>4 DEF RegisterModuleInfo
<1>5. CASE RegisterFails
  BY <1>5 DEF RegisterFails
<1>6. CASE LoadModuleFails
  BY <1>6 DEF LoadModuleFails
<1>7. CASE LoadModuleFaults
  BY <1>7 DEF LoadModuleFaults
<1>8. CASE FinishLoading
  BY <1>8 DEF FinishLoading
<1> QED
  BY <1>1, <1>2, <1>3, <1>4, <1>5, <1>6, <1>7, <1>8

(* A plugin that runs adds listeners of its own mapped module only.  *)
LEMMA MainSteps ==
  ASSUME IInv, SkipPlugin \/ runPluginMain \/ PluginMainFaults \/ LookupFaults \/ loadPluginsReturns
  PROVE  IInv'
<1> USE ConstantsOK
    DEF ConstantsOK, IInv, TypeOK, Stages, Resources, Loops, Filled, Mapped,
        NoEventOutlivesItsModule, ModBufferIsReplaced, Counting, NrrListsThePlugins,
        SetNodesAreAlive, Used, Entries, Slots, PluginData, MappedHashes,
        NothingMapped, NoListeners, data, service, events, vars, Throw, ReadsLoaded, AddEvents
<1>1. CASE SkipPlugin
  BY <1>1 DEF SkipPlugin
<1>2. CASE runPluginMain
  BY <1>2 DEF runPluginMain
<1>3. CASE PluginMainFaults
  BY <1>3 DEF PluginMainFaults
<1>4. CASE LookupFaults
  BY <1>4 DEF LookupFaults
<1>5. CASE loadPluginsReturns
  BY <1>5 DEF loadPluginsReturns
<1> QED
  BY <1>1, <1>2, <1>3, <1>4, <1>5

(* What is left of an unload, and what changes no module.            *)
LEMMA UnloadSteps ==
  ASSUME IInv, PressUnload \/ clearAllEvents \/ ClearFaults \/ Finalize \/ DrawEvents \/ Halted
  PROVE  IInv'
<1> USE ConstantsOK
    DEF ConstantsOK, IInv, TypeOK, Stages, Resources, Loops, Filled, Mapped,
        NoEventOutlivesItsModule, ModBufferIsReplaced, Counting, NrrListsThePlugins,
        SetNodesAreAlive, Used, Entries, Slots, PluginData, MappedHashes,
        NothingMapped, NoListeners, data, service, events, vars
<1>1. CASE PressUnload
  BY <1>1 DEF PressUnload
<1>2. CASE clearAllEvents
  BY <1>2 DEF clearAllEvents
<1>3. CASE Finalize
  BY <1>3 DEF Finalize
<1>4. CASE DrawEvents
  BY <1>4 DEF DrawEvents
<1>5. CASE Halted
  BY <1>5 DEF Halted
<1>6. CASE ClearFaults
  BY <1>6 DEF ClearFaults
<1> QED
  BY <1>1, <1>2, <1>3, <1>4, <1>5, <1>6

LEMMA UnloadByNameStep ==
  ASSUME IInv, NEW owner \in Hashes, unloadPluginByName(owner)
  PROVE  IInv'
<1> USE ConstantsOK
    DEF ConstantsOK, IInv, TypeOK, Stages, Resources, Loops, Filled, Mapped,
        NoEventOutlivesItsModule, ModBufferIsReplaced, Counting, NrrListsThePlugins,
        SetNodesAreAlive, Used, Entries, Slots, PluginData, MappedHashes,
        NothingMapped, NoListeners, data, service, events, vars, unloadPluginByName
<1>1. modEvents' \subseteq modEvents
  OBVIOUS
<1>2. TypeOK' /\ Stages' /\ NoEventOutlivesItsModule'
  BY <1>1
<1>3. Resources' /\ Loops' /\ Filled' /\ Mapped'
  OBVIOUS
<1>4. ModBufferIsReplaced' /\ SetNodesAreAlive' /\ Counting' /\ NrrListsThePlugins'
  OBVIOUS
<1> QED
  BY <1>2, <1>3, <1>4

LEMMA StutterStep == ASSUME IInv, UNCHANGED vars PROVE IInv'
<1> USE ConstantsOK
    DEF ConstantsOK, IInv, TypeOK, Stages, Resources, Loops, Filled, Mapped,
        NoEventOutlivesItsModule, ModBufferIsReplaced, Counting, NrrListsThePlugins,
        SetNodesAreAlive, Used, Entries, Slots, PluginData, MappedHashes,
        NothingMapped, NoListeners, data, service, events, vars
<1>1. TypeOK' /\ Stages' /\ Resources' /\ Loops' /\ Filled' /\ Mapped'
  OBVIOUS
<1>2. NoEventOutlivesItsModule' /\ ModBufferIsReplaced' /\ SetNodesAreAlive'
  OBVIOUS
<1>3. Counting' /\ NrrListsThePlugins'
  OBVIOUS
<1> QED
  BY <1>1, <1>2, <1>3

(* Every step of the loader preserves the invariant. *)
LEMMA NextIInv == IInv /\ [Next]_vars => IInv'
<1> SUFFICES ASSUME IInv, [Next]_vars PROVE IInv'
  OBVIOUS
<1>1. CASE gameSystemInitPrefix
  <2>1. mPluginCount + MaxFiles <= MaxSlots /\ mPluginCount = 0 /\ ~mIsPluginsLoaded
    BY <1>1, ConstantsOK DEF ConstantsOK, gameSystemInitPrefix, IInv, Loops, Stages
  <2> QED
    BY <1>1, <2>1, BeginLoadStep DEF gameSystemInitPrefix
<1>2. CASE PressLoad
  BY <1>2, BeginLoadStep DEF PressLoad
<1>3. CASE LoadStep
  BY <1>3, LoadSteps, createPluginDataStep, LoadModuleStep DEF LoadStep
<1>4. CASE MainStep
  BY <1>4, MainSteps DEF MainStep
<1>5. CASE UnloadStep
  BY <1>5, UnloadSteps, UnloadModuleStep, ResetHeapStep DEF UnloadStep
<1>6. CASE PressUnload \/ DrawEvents \/ Halted
  BY <1>6, UnloadSteps
<1>7. CASE \E owner \in Hashes : unloadPluginByName(owner)
  BY <1>7, UnloadByNameStep
<1>8. CASE UNCHANGED vars
  BY <1>8, StutterStep
<1> QED
  BY <1>1, <1>2, <1>3, <1>4, <1>5, <1>6, <1>7, <1>8 DEF Next, UserStep

LEMMA IInvHolds == Spec => []IInv
BY InitIInv, NextIInv, PTL DEF Spec

-----------------------------------------------------------------------------
(* Every variable keeps its type: the counter of plugins never leaves the    *)
(* memory behind mPlugins, and only hashes of well-formed files are kept.    *)
THEOREM TypeCorrect == Spec => []TypeOK
BY IInvHolds, PTL DEF IInv

(* No unload, failed load or retry gives back the memory of a module that has *)
(* a slot.  An orphan's, a module ro refused to unmap, goes with the heap.    *)
THEOREM ImagesStay == Spec => []ModulesKeepTheirImage
<1>1. IInv => ModulesKeepTheirImage
  BY DEF IInv, Mapped, ModulesKeepTheirImage
<1> QED
  BY <1>1, IInvHolds, PTL

(* Every mapped module with a slot is authorised by the registered NRR and   *)
(* is found by the unload loop; orphans are not.                             *)
THEOREM ModulesAreKnown == Spec => []MappedModulesAreKnown
<1>1. IInv => MappedModulesAreKnown
  BY DEF IInv, Mapped, MappedModulesAreKnown
<1> QED
  BY <1>1, IInvHolds, PTL

(* At rest and while plugins start, the holders hold events of the loader    *)
(* and of modules that are mapped and have a slot: an orphan leaves none.    *)
THEOREM EventsHaveModules == Spec => []NoEventOutlivesItsModule
BY IInvHolds, PTL DEF IInv

(* The flag behind the buttons tells whether an NRR is registered and        *)
(* whether anything but orphans is mapped.                                   *)
THEOREM FlagIsRight == Spec => []FlagTellsTheTruth
<1>1. IInv => FlagTellsTheTruth
  <2> SUFFICES ASSUME IInv, pc = "idle"
               PROVE  /\ mIsPluginsLoaded <=> registered
                      /\ mIsPluginsLoaded => ro /\ {"plugins", "nrr"} \subseteq heap
                      /\ ~mIsPluginsLoaded => MappedHashes = {}
    BY DEF FlagTellsTheTruth
  <2> QED
    BY DEF IInv, Stages, Resources, NothingMapped, MappedHashes
<1> QED
  BY <1>1, IInvHolds, PTL

(* The mod maps' buffer dangles only between the reset of the heap and       *)
(* clearAllEvents, where the process may end on it, and the set of hashes    *)
(* never outlives the buffer of its nodes.                                   *)
THEOREM BuffersAreAlive == Spec => []NoBufferDangles
<1>1. IInv => NoBufferDangles
  BY DEF IInv, NoBufferDangles
<1> QED
  BY <1>1, IInvHolds, PTL

(* Unless a load was abandoned, every slot written lies inside the array ... *)
THEOREM WritesStayInside == Spec => []SlotsWithinArray
<1>1. IInv => SlotsWithinArray
  BY ConstantsOK DEF ConstantsOK, IInv, TypeOK, Counting, SlotsWithinArray
<1> QED
  BY <1>1, IInvHolds, PTL

(* ... and the NRR is made of exactly the counted plugins' hashes.           *)
THEOREM NrrIsExact == Spec => []NrrListsThePlugins
BY IInvHolds, PTL DEF IInv

-----------------------------------------------------------------------------
(* Refinement: every step of the loader is a step of PluginLifecycle or    *)
(* changes nothing the lifecycle can see.                                  *)

Listeners == (hookEvents \ {Loader}) \cup modEvents

(* What the lifecycle sees of a state. *)
LEMMA InitRefines == Init => Lifecycle!Init
BY ConstantsOK
   DEF Init, Lifecycle!Init, Phase, MappedHashes, FreshSlot, Slots

LEMMA NothingMappedHashes == NothingMapped => MappedHashes = {}
BY DEF NothingMapped, MappedHashes

(* A step that leaves the plugins' slots, the events and the flag alone is   *)
(* seen by its phase only.                                                   *)
Unseen == UNCHANGED <<mPlugins, mIsPluginsLoaded, orphans, events>>

LEMMA UnseenSteps ==
  ASSUME Unseen
  PROVE  /\ mIsPluginsLoaded' = mIsPluginsLoaded /\ orphans' = orphans
         /\ MappedHashes' = MappedHashes
         /\ Listeners' = Listeners
BY DEF Unseen, MappedHashes, Listeners, events

(* Loading: the phase changes at the announcement and when the load ends. *)
LEMMA LoadRefines ==
  ASSUME IInv, IInv', LoadStep
  PROVE  [Lifecycle!Next]_(Lifecycle!lifecycle)
<1> USE DEF Phase, data, service, events
<1>1. CASE RefuseEntry \/ generatePluginNrr \/ RegisterModuleInfo \/ LoadModuleFails
  <2>1. Unseen
    BY <1>1 DEF RefuseEntry, generatePluginNrr, RegisterModuleInfo, LoadModuleFails, Unseen
  <2>2. Phase' = Phase
    BY <1>1 DEF RefuseEntry, generatePluginNrr, RegisterModuleInfo, LoadModuleFails
  <2> QED
    BY <2>1, <2>2, UnseenSteps DEF Lifecycle!lifecycle, Listeners
<1>2. CASE createPluginData
  <2>1. MappedHashes = {} /\ MappedHashes' = {}
    BY <1>2, NothingMappedHashes DEF createPluginData, IInv, Stages, NothingMapped, MappedHashes
  <2>2. UNCHANGED <<Phase, mIsPluginsLoaded, orphans>>
    BY <1>2 DEF createPluginData, service
  <2>3. Listeners' = Listeners
    BY <1>2 DEF createPluginData, Listeners
  <2> QED
    BY <2>1, <2>2, <2>3 DEF Lifecycle!lifecycle, Listeners
<1>3. CASE CreateFaults \/ RegisterFails
  <2>1. Unseen /\ MappedHashes = {} /\ Phase = "loading" /\ Phase' \in {"idle", "crashed"}
    BY <1>3, NothingMappedHashes
       DEF CreateFaults, RegisterFails, Throw, Unseen, IInv, Stages
  <2>2. Lifecycle!GiveUp \/ Lifecycle!Crash
    BY <2>1, UnseenSteps DEF Lifecycle!GiveUp, Lifecycle!Crash, Listeners
  <2> QED
    BY <2>2 DEF Lifecycle!Next
<1>4. CASE LoadModule
  <2>1. i \in Slots /\ mPlugins[i].hash \in Hashes
    BY <1>4, ConstantsOK DEF ConstantsOK, LoadModule, IInv, TypeOK, Slots
  <2>2. MappedHashes' = MappedHashes \cup {mPlugins[i].hash}
    BY <1>4, <2>1 DEF LoadModule, MappedHashes, IInv, TypeOK, PluginData
  <2>3. Lifecycle!MapModule(mPlugins[i].hash)
    BY <1>4, <2>2 DEF LoadModule, Lifecycle!MapModule
  <2> QED
    BY <2>1, <2>3 DEF Lifecycle!Next
<1>5. CASE LoadModuleFaults
  <2>1. isReload
    BY <1>5, ConstantsOK DEF ConstantsOK, LoadModuleFaults, IInv, TypeOK, Filled, Used, Slots
  <2>2. Unseen /\ Phase = "loading" /\ Phase' = "crashed"
    BY <1>5, <2>1 DEF LoadModuleFaults, Throw, Unseen
  <2>3. Lifecycle!Crash
    BY <2>2, UnseenSteps DEF Lifecycle!Crash, Listeners
  <2> QED
    BY <2>3 DEF Lifecycle!Next
<1>6. CASE FinishLoading
  <2>1. Lifecycle!Announce
    BY <1>6 DEF FinishLoading, Lifecycle!Announce, MappedHashes
  <2> QED
    BY <2>1 DEF Lifecycle!Next
<1> QED
  BY <1>1, <1>2, <1>3, <1>4, <1>5, <1>6 DEF LoadStep

(* Starting: a plugin that runs may become a listener. *)
LEMMA AddEventsListeners ==
  ASSUME NEW owner \in Hashes, AddEvents(owner), Loader \notin Hashes
  PROVE  Listeners' \in {Listeners, Listeners \cup {owner}}
BY DEF AddEvents, Listeners, events

LEMMA MainRefines ==
  ASSUME IInv, IInv', MainStep
  PROVE  [Lifecycle!Next]_(Lifecycle!lifecycle)
<1> USE DEF Phase
<1>1. CASE SkipPlugin
  <2>1. Unseen /\ Phase' = Phase
    BY <1>1 DEF SkipPlugin, Unseen, data, service, events
  <2> QED
    BY <2>1, UnseenSteps DEF Lifecycle!lifecycle, Listeners
<1>2. ASSUME runPluginMain \/ PluginMainFaults
      PROVE  [Lifecycle!Next]_(Lifecycle!lifecycle)
  <2> DEFINE owner == mPlugins[i].hash
  <2>1. i \in Slots /\ mPlugins[i].mapped
    BY <1>2, ConstantsOK
       DEF ConstantsOK, runPluginMain, PluginMainFaults, IInv, TypeOK, Slots
  <2>2. owner \in Hashes /\ owner \in MappedHashes
    BY <2>1 DEF IInv, Mapped, TypeOK, MappedHashes
  <2>3. UNCHANGED <<MappedHashes, mIsPluginsLoaded, orphans>>
    BY <1>2 DEF runPluginMain, PluginMainFaults, MappedHashes, data, service
  <2>4. Listeners' \in {Listeners, Listeners \cup {owner}}
    BY <1>2, <2>2, ConstantsOK, AddEventsListeners
       DEF ConstantsOK, runPluginMain, PluginMainFaults
  <2>5. CASE runPluginMain
    <3>1. Phase = "starting" /\ Phase' = Phase
      BY <2>5 DEF runPluginMain
    <3>2. Lifecycle!Start(owner) \/ UNCHANGED Lifecycle!lifecycle
      BY <2>2, <2>3, <2>4, <3>1 DEF Lifecycle!Start, Lifecycle!lifecycle, Listeners
    <3> QED
      BY <2>2, <3>2 DEF Lifecycle!Next
  <2>6. CASE PluginMainFaults
    <3>1. Phase = "starting" /\ Phase' \in {"idle", "crashed"}
      BY <2>6 DEF PluginMainFaults, Throw
    <3>2. Lifecycle!StartAndStop(owner, Phase')
      BY <2>2, <2>3, <2>4, <3>1 DEF Lifecycle!StartAndStop, Listeners
    <3> QED
      BY <2>2, <3>1, <3>2 DEF Lifecycle!Next
  <2> QED
    BY <1>2, <2>5, <2>6
<1>3. CASE LookupFaults \/ loadPluginsReturns
  <2>1. Unseen /\ Phase = "starting" /\ Phase' \in {"idle", "crashed"}
    BY <1>3 DEF LookupFaults, loadPluginsReturns, Throw, Unseen, data, service, events
  <2>2. Lifecycle!Return \/ Lifecycle!Crash
    BY <2>1, UnseenSteps DEF Lifecycle!Return, Lifecycle!Crash, Listeners
  <2> QED
    BY <2>2 DEF Lifecycle!Next
<1> QED
  BY <1>1, <1>2, <1>3 DEF MainStep

(* Unloading: modules go one by one, then the flag, then the listeners.      *)
(* Two slots may hold the same hash after an abandoned load: the lifecycle   *)
(* sees the second of them go.                                               *)
LEMMA SlotGoes ==
  ASSUME IInv, UnloadModule \/ UnloadModuleFails
  PROVE  MappedHashes' \in {MappedHashes, MappedHashes \ {mPlugins[i].hash}}
<1>1. i \in Slots
  BY ConstantsOK DEF ConstantsOK, UnloadModule, UnloadModuleFails, IInv, TypeOK, Slots
<1>2. /\ \A k \in Slots : mPlugins'[k].hash = mPlugins[k].hash
      /\ \A k \in Slots : mPlugins'[k].mapped <=> mPlugins[k].mapped /\ k # i
  BY <1>1 DEF UnloadModule, UnloadModuleFails, IInv, TypeOK, PluginData
<1>3. MappedHashes' \subseteq MappedHashes
  BY <1>2 DEF MappedHashes
<1>4. MappedHashes \ {mPlugins[i].hash} \subseteq MappedHashes'
  BY <1>2 DEF MappedHashes
<1> DEFINE hash == mPlugins[i].hash
<1>5. MappedHashes \ {hash} \subseteq MappedHashes'
  BY <1>4
<1> HIDE DEF hash
<1>6. MappedHashes' \in {MappedHashes, MappedHashes \ {hash}}
  BY <1>3, <1>5
<1> QED
  BY <1>6 DEF hash

LEMMA UnloadRefines ==
  ASSUME IInv, IInv', UnloadStep
  PROVE  [Lifecycle!Next]_(Lifecycle!lifecycle)
<1> USE DEF Phase
<1>1. CASE UnloadModule
  <2> DEFINE hash == mPlugins[i].hash
  <2>1. Phase = "unloading" /\ UNCHANGED <<Phase, mIsPluginsLoaded, orphans, Listeners>>
    BY <1>1 DEF UnloadModule, Listeners, service, events
  <2>2. CASE MappedHashes' = MappedHashes
    BY <2>1, <2>2 DEF Lifecycle!lifecycle, Listeners
  <2>3. CASE MappedHashes' = MappedHashes \ {hash} /\ MappedHashes' # MappedHashes
    <3>1. hash \in Hashes
      <4>1. PICK k \in Slots : mPlugins[k].mapped /\ mPlugins[k].hash = hash
        BY <2>3 DEF MappedHashes
      <4> QED
        BY <4>1 DEF IInv, Mapped, TypeOK
    <3>2. Lifecycle!Unmap(hash)
      BY <2>1, <2>3 DEF Lifecycle!Unmap, Listeners
    <3> QED
      BY <3>1, <3>2 DEF Lifecycle!Next
  <2> QED
    BY <1>1, <2>2, <2>3, SlotGoes
<1>6. CASE UnloadModuleFails
  <2> DEFINE hash == mPlugins[i].hash
  <2>1. Phase = "unloading" /\ UNCHANGED <<Phase, mIsPluginsLoaded, Listeners>>
    BY <1>6 DEF UnloadModuleFails, Listeners, events
  <2>2. i \in Slots /\ mPlugins[i].mapped
    BY <1>6, ConstantsOK DEF ConstantsOK, UnloadModuleFails, IInv, TypeOK, Slots
  <2>3. hash \in Hashes /\ hash \in MappedHashes
    BY <2>2 DEF IInv, Mapped, TypeOK, MappedHashes
  <2>4. MappedHashes' \in {MappedHashes, MappedHashes \ {hash}}
    BY <1>6, SlotGoes
  <2>5. orphans' = orphans \cup {hash}
    BY <1>6 DEF UnloadModuleFails
  <2>6. Lifecycle!Lose(hash)
    BY <2>1, <2>3, <2>4, <2>5 DEF Lifecycle!Lose, Listeners
  <2> QED
    BY <2>3, <2>6 DEF Lifecycle!Next
<1>2. CASE ResetHeap
  <2>1. NothingMapped /\ NothingMapped'
    BY <1>2 DEF ResetHeap, IInv, Loops, Mapped, Stages, TypeOK, NothingMapped, Slots
  <2>2. MappedHashes = {} /\ MappedHashes' = {}
    BY <2>1 DEF NothingMapped, MappedHashes
  <2>3. Lifecycle!Retire
    BY <1>2, <2>2 DEF ResetHeap, service, Lifecycle!Retire
  <2> QED
    BY <2>3 DEF Lifecycle!Next
<1>3. CASE clearAllEvents
  <2>1. MappedHashes = {} /\ MappedHashes' = {} /\ ~mIsPluginsLoaded /\ ~mIsPluginsLoaded'
    BY <1>3 DEF clearAllEvents, IInv, Stages, NothingMapped, MappedHashes, data
  <2>2. Lifecycle!ForgetListeners
    BY <1>3, <2>1 DEF clearAllEvents, service, Lifecycle!ForgetListeners
  <2> QED
    BY <2>2 DEF Lifecycle!Next
<1>4. CASE Finalize
  <2>1. Unseen /\ MappedHashes = {} /\ ~mIsPluginsLoaded /\ Listeners = {}
    BY <1>4 DEF Finalize, Unseen, data, service, events, IInv, Stages, NothingMapped,
                NoListeners, MappedHashes, Listeners
  <2>2. Lifecycle!EndUnload
    BY <1>4, <2>1, UnseenSteps DEF Finalize, Lifecycle!EndUnload, Listeners
  <2> QED
    BY <2>2 DEF Lifecycle!Next
<1>5. CASE ClearFaults
  <2>1. Unseen /\ Phase = "unloading" /\ Phase' = "crashed"
    BY <1>5 DEF ClearFaults, Unseen, data, service, events
  <2>2. Lifecycle!Crash
    BY <2>1, UnseenSteps DEF Lifecycle!Crash, Listeners
  <2> QED
    BY <2>2 DEF Lifecycle!Next
<1> QED
  BY <1>1, <1>2, <1>3, <1>4, <1>5, <1>6 DEF UnloadStep

(* The buttons, the frame, and unloadPluginByName. *)
LEMMA UserRefines ==
  ASSUME IInv, IInv', UserStep
  PROVE  [Lifecycle!Next]_(Lifecycle!lifecycle)
<1> USE DEF Phase
<1>1. CASE gameSystemInitPrefix \/ PressLoad
  <2>1. Phase = "idle" /\ ~mIsPluginsLoaded /\ MappedHashes = {}
    BY <1>1 DEF gameSystemInitPrefix, PressLoad, IInv, Stages, NothingMapped, MappedHashes
  <2>2. Phase' = "loading" /\ UNCHANGED <<mIsPluginsLoaded, orphans, Listeners>>
    BY <1>1 DEF gameSystemInitPrefix, PressLoad, BeginLoad, Listeners, events
  <2>3. MappedHashes' = {}
    BY <1>1 DEF gameSystemInitPrefix, PressLoad, BeginLoad, FreshSlot, MappedHashes
  <2>4. Lifecycle!StartLoad
    BY <2>1, <2>2, <2>3 DEF Lifecycle!StartLoad, Listeners
  <2> QED
    BY <2>4 DEF Lifecycle!Next
<1>2. CASE PressUnload
  <2>1. Unseen /\ Phase = "idle" /\ Phase' = "unloading" /\ mIsPluginsLoaded
    BY <1>2 DEF PressUnload, Unseen, data, service, events
  <2>2. Lifecycle!StartUnload
    BY <2>1, UnseenSteps DEF Lifecycle!StartUnload, Listeners
  <2> QED
    BY <2>2 DEF Lifecycle!Next
<1>3. CASE DrawEvents
  <2>1. UNCHANGED <<Phase, mIsPluginsLoaded, orphans, MappedHashes, Listeners>>
    BY <1>3 DEF DrawEvents, data, service, MappedHashes, Listeners
  <2> QED
    BY <2>1 DEF Lifecycle!lifecycle, Listeners
<1>4. ASSUME NEW owner \in Hashes, unloadPluginByName(owner)
      PROVE  [Lifecycle!Next]_(Lifecycle!lifecycle)
  <2>1. Phase = "idle" /\ UNCHANGED <<Phase, mIsPluginsLoaded, orphans, MappedHashes>>
    BY <1>4 DEF unloadPluginByName, data, service, MappedHashes
  <2>2. Listeners' = Listeners \/ Listeners' = Listeners \ {owner}
    BY <1>4 DEF unloadPluginByName, Listeners
  <2>3. Lifecycle!DropListener(owner) \/ UNCHANGED Lifecycle!lifecycle
    BY <2>1, <2>2 DEF Lifecycle!DropListener, Lifecycle!lifecycle, Listeners
  <2> QED
    BY <2>3 DEF Lifecycle!Next
<1> QED
  BY <1>1, <1>2, <1>3, <1>4 DEF UserStep

(* The loader implements the lifecycle it promises: every behaviour of the   *)
(* code, seen through Phase, MappedHashes, the orphans and the owners of     *)
(* events, is one of PluginLifecycle, where a refused module is lost.        *)
THEOREM LoaderImplementsLifecycle == Spec => ImplementsLifecycle
<1>1. IInv /\ IInv' /\ [Next]_vars => [Lifecycle!Next]_(Lifecycle!lifecycle)
  <2> SUFFICES ASSUME IInv, IInv', [Next]_vars
               PROVE  [Lifecycle!Next]_(Lifecycle!lifecycle)
    OBVIOUS
  <2>1. CASE UNCHANGED vars
    <3>1. Unseen /\ Phase' = Phase
      BY <2>1 DEF vars, data, service, events, Unseen, Phase
    <3> QED
      BY <3>1, UnseenSteps DEF Lifecycle!lifecycle, Listeners
  <2> QED
    BY <2>1, LoadRefines, MainRefines, UnloadRefines, UserRefines DEF Next, Halted
<1> QED
  BY <1>1, InitRefines, IInvHolds, PTL DEF Spec, ImplementsLifecycle, Lifecycle!Spec

-----------------------------------------------------------------------------
(* The lifecycle keeps its own promise, and the loader inherits it.        *)

(* What each phase of the lifecycle may rely on. *)
LifecycleInv ==
  /\ Phase = "loading" => ~mIsPluginsLoaded /\ Listeners = {}
  /\ Phase = "starting" => mIsPluginsLoaded
  /\ Phase \in {"idle", "starting"} => Listeners \subseteq MappedHashes
  /\ Phase \in {"idle", "unloading"} /\ ~mIsPluginsLoaded => MappedHashes = {}

LEMMA LifecycleLoads ==
  ASSUME LifecycleInv, NEW p \in Hashes, NEW next \in {"idle", "crashed"},
         \/ Lifecycle!StartLoad \/ Lifecycle!Announce \/ Lifecycle!Return
         \/ Lifecycle!GiveUp \/ Lifecycle!Crash \/ Lifecycle!MapModule(p)
         \/ Lifecycle!Start(p) \/ Lifecycle!StartAndStop(p, next)
  PROVE  LifecycleInv'
<1> USE DEF Listeners
<1>1. CASE Lifecycle!StartLoad \/ Lifecycle!Announce
  BY <1>1 DEF LifecycleInv, Lifecycle!StartLoad, Lifecycle!Announce
<1>2. CASE Lifecycle!Return \/ Lifecycle!GiveUp \/ Lifecycle!Crash
  BY <1>2 DEF LifecycleInv, Lifecycle!Return, Lifecycle!GiveUp, Lifecycle!Crash
<1>3. CASE Lifecycle!MapModule(p)
  BY <1>3 DEF LifecycleInv, Lifecycle!MapModule
<1>4. CASE Lifecycle!Start(p) \/ Lifecycle!StartAndStop(p, next)
  BY <1>4 DEF LifecycleInv, Lifecycle!Start, Lifecycle!StartAndStop
<1> QED
  BY <1>1, <1>2, <1>3, <1>4

LEMMA LifecycleUnloads ==
  ASSUME LifecycleInv, NEW p \in Hashes,
         \/ Lifecycle!StartUnload \/ Lifecycle!Retire \/ Lifecycle!ForgetListeners
         \/ Lifecycle!EndUnload \/ Lifecycle!Unmap(p) \/ Lifecycle!Lose(p)
         \/ Lifecycle!DropListener(p)
  PROVE  LifecycleInv'
<1> USE DEF Listeners
<1>1. CASE Lifecycle!StartUnload \/ Lifecycle!Retire
  BY <1>1 DEF LifecycleInv, Lifecycle!StartUnload, Lifecycle!Retire
<1>2. CASE Lifecycle!ForgetListeners \/ Lifecycle!EndUnload
  BY <1>2 DEF LifecycleInv, Lifecycle!ForgetListeners, Lifecycle!EndUnload
<1>3. CASE Lifecycle!Unmap(p) \/ Lifecycle!Lose(p) \/ Lifecycle!DropListener(p)
  BY <1>3 DEF LifecycleInv, Lifecycle!Unmap, Lifecycle!Lose, Lifecycle!DropListener
<1> QED
  BY <1>1, <1>2, <1>3

(* Between operations a listener belongs to a mapped module, and nothing but *)
(* what was lost is mapped while a load is offered: the lifecycle's own      *)
(* invariant, whatever steps it is implemented by.                           *)
THEOREM LifecycleIsConsistent == Lifecycle!Spec => []Lifecycle!Consistent
<1>1. Lifecycle!Init => LifecycleInv
  BY DEF Lifecycle!Init, LifecycleInv, Listeners
<1>2. LifecycleInv /\ [Lifecycle!Next]_(Lifecycle!lifecycle) => LifecycleInv'
  <2> SUFFICES ASSUME LifecycleInv, [Lifecycle!Next]_(Lifecycle!lifecycle)
               PROVE  LifecycleInv'
    OBVIOUS
  <2>1. CASE \/ Lifecycle!StartLoad \/ Lifecycle!Announce \/ Lifecycle!Return
             \/ Lifecycle!GiveUp \/ Lifecycle!Crash \/ Lifecycle!StartUnload
             \/ Lifecycle!Retire \/ Lifecycle!ForgetListeners \/ Lifecycle!EndUnload
    <3> USE DEF Listeners
    <3>1. CASE \/ Lifecycle!StartLoad \/ Lifecycle!Announce \/ Lifecycle!Return
               \/ Lifecycle!GiveUp \/ Lifecycle!Crash
      BY <3>1 DEF LifecycleInv, Lifecycle!StartLoad, Lifecycle!Announce,
                  Lifecycle!Return, Lifecycle!GiveUp, Lifecycle!Crash
    <3>2. CASE \/ Lifecycle!StartUnload \/ Lifecycle!Retire
               \/ Lifecycle!ForgetListeners \/ Lifecycle!EndUnload
      BY <3>2 DEF LifecycleInv, Lifecycle!StartUnload, Lifecycle!Retire,
                  Lifecycle!ForgetListeners, Lifecycle!EndUnload
    <3> QED
      BY <2>1, <3>1, <3>2
  <2>2. CASE \E p \in Hashes :
               \/ Lifecycle!MapModule(p) \/ Lifecycle!Start(p) \/ Lifecycle!Unmap(p)
               \/ Lifecycle!Lose(p) \/ Lifecycle!DropListener(p)
               \/ \E next \in {"idle", "crashed"} : Lifecycle!StartAndStop(p, next)
    BY <2>2, LifecycleLoads, LifecycleUnloads
  <2>3. CASE UNCHANGED Lifecycle!lifecycle
    BY <2>3 DEF LifecycleInv, Lifecycle!lifecycle, Listeners
  <2> QED
    BY <2>1, <2>2, <2>3 DEF Lifecycle!Next
<1>3. LifecycleInv => Lifecycle!Consistent
  BY DEF LifecycleInv, Lifecycle!Consistent, Listeners
<1> QED
  BY <1>1, <1>2, <1>3, PTL DEF Lifecycle!Spec

(* The loader: only orphans are mapped while a load is offered, and no       *)
(* listener is left without its module, at rest or while plugins start.      *)
THEOREM LoaderIsConsistent == Spec => []Lifecycle!Consistent
BY LoaderImplementsLifecycle, LifecycleIsConsistent, PTL DEF ImplementsLifecycle

-----------------------------------------------------------------------------
(* The file helper.  Its inductive invariant has a part that always holds   *)
(* and a part about trees whose subdirectories hold one file to load each.  *)

Flat ==
  \A n \in DOMAIN entries : entries[n].kind = "directory" =>
    \A a, b \in FilesOf(entries[n]) : a = b

ScanTypeOK ==
  /\ stage \in {"start", "entry", "subdir", "free", "returned", "aborted"}
  /\ entries \in Directories
  /\ rootIndex \in Nat /\ subIndex \in Nat /\ fileEntry \in Nat
  /\ loadedFileCount \in Nat /\ outFileCount \in Nat
  /\ fileEntries \in [Memory -> Files \cup {Unset}]
  /\ wildFree \in BOOLEAN
  /\ stage \in {"entry", "subdir"} => rootIndex <= Len(entries)
  /\ stage = "subdir" => rootIndex < Len(entries) /\ Root.kind = "directory"
  /\ stage = "start" => /\ rootIndex = 0 /\ loadedFileCount = 0
                        /\ buffers = {} /\ ~wildFree

(* The first c elements hold files of the first n root entries, no two of   *)
(* them the same.                                                           *)
Sorted(c, n) ==
  \A k \in 0 .. c - 1 : \E m \in 1 .. n : fileEntries[k] \in FilesOf(entries[m])
Distinct(c) ==
  \A k, l \in 0 .. c - 1 : fileEntries[k] = fileEntries[l] => k = l

Held ==
  /\ buffers = {fileEntries[k] : k \in 0 .. loadedFileCount - 1}
  /\ IsFiniteSet(buffers) /\ Cardinality(buffers) = loadedFileCount

(* The element of a subdirectory is still free, or holds the one file found *)
(* so far.                                                                  *)
ElementTaken ==
  /\ fileEntry <= rootIndex
  /\ Sorted(fileEntry, rootIndex)
  /\ \/ loadedFileCount = fileEntry
     \/ /\ loadedFileCount = fileEntry + 1 /\ fileEntries[fileEntry] \in Files
        /\ \E m \in 1 .. subIndex :
             m \in DOMAIN Root.files /\ fileEntries[fileEntry] = Root.files[m]

Placed ==
  /\ ~wildFree
  /\ loadedFileCount <= Len(entries)
  /\ Distinct(loadedFileCount)
  /\ stage = "entry" => /\ loadedFileCount <= rootIndex
                        /\ Sorted(loadedFileCount, rootIndex) /\ Held
  /\ stage = "subdir" => ElementTaken /\ Held
  /\ stage = "free" =>
       /\ outFileCount = loadedFileCount /\ rootIndex <= outFileCount
       /\ buffers = {fileEntries[k] : k \in rootIndex .. outFileCount - 1}
  /\ stage = "returned" => buffers = {}

ScanInv == ScanTypeOK /\ (Flat => Placed)

LEMMA ListsAreSequences ==
  ASSUME NEW S, NEW n \in Nat, NEW f \in [1 .. n -> S]
  PROVE  f \in Seq(S) /\ Len(f) = n
OBVIOUS

(* What OpenRoot can find. *)
LEMMA TreeShape ==
  ASSUME NEW root \in Directories
  PROVE  /\ root \in Seq(RootEntries) /\ Len(root) \in 0 .. MaxRoot
         /\ \A a, b \in DOMAIN root :
              a # b => FilesOf(root[a]) \cap FilesOf(root[b]) = {}
<1>1. PICK n \in 0 .. MaxRoot : root \in [1 .. n -> RootEntries]
  BY DEF Directories
<1>2. n \in Nat /\ MaxRoot \in Nat
  BY FilesAssumption
<1>3. root \in Seq(RootEntries) /\ Len(root) = n
  BY <1>1, <1>2
<1> QED
  BY <1>3, <1>1 DEF Directories

LEMMA EntryShape ==
  ASSUME NEW entry \in RootEntries
  PROVE  /\ entry.kind \in {"file", "directory", "other"}
         /\ entry.files \in Seq(Files \cup {Plain})
         /\ entry.kind = "file" => Len(entry.files) = 1
         /\ entry.kind = "directory" => IsInjectiveOnFiles(entry.files)
<1>1. CASE entry \in [kind: {"file"}, files: [1 .. 1 -> Files \cup {Plain}]]
  <2>1. entry.kind = "file" /\ entry.files \in [1 .. 1 -> Files \cup {Plain}]
    BY <1>1
  <2>2. 1 \in Nat
    OBVIOUS
  <2>3. entry.files \in Seq(Files \cup {Plain}) /\ Len(entry.files) = 1
    BY <2>1, <2>2, ListsAreSequences
  <2> QED
    BY <2>1, <2>3
<1>2. CASE entry \in [kind: {"directory"},
                      files: {l \in FileLists(MaxSub) : IsInjectiveOnFiles(l)}]
  <2>1. /\ entry.kind = "directory" /\ entry.files \in FileLists(MaxSub)
        /\ IsInjectiveOnFiles(entry.files)
    BY <1>2
  <2>2. PICK m \in 0 .. MaxSub : entry.files \in [1 .. m -> Files \cup {Plain}]
    BY <2>1 DEF FileLists
  <2>3. entry.files \in Seq(Files \cup {Plain})
    BY <2>2, FilesAssumption
  <2> QED
    BY <2>1, <2>3
<1>3. CASE entry \in [kind: {"other"}, files: {<<>>}]
  <2>1. entry.kind = "other" /\ entry.files = <<>>
    BY <1>3
  <2>2. <<>> \in Seq(Files \cup {Plain})
    OBVIOUS
  <2> QED
    BY <2>1, <2>2
<1> QED
  BY <1>1, <1>2, <1>3 DEF RootEntries

(* Without a crowded subdirectory, each holds one file to load at most. *)
LEMMA UncrowdedIsFlat ==
  ASSUME entries \in Directories, ~Crowded
  PROVE  Flat
<1> SUFFICES ASSUME NEW n \in DOMAIN entries, entries[n].kind = "directory",
                    NEW a \in FilesOf(entries[n]), NEW b \in FilesOf(entries[n]),
                    a # b
             PROVE  FALSE
  BY DEF Flat
<1> DEFINE list == entries[n].files
           found == {list[k] : k \in DOMAIN list}
<1>1. list \in Seq(Files \cup {Plain})
  BY TreeShape, EntryShape
<1>2. IsFiniteSet(DOMAIN list)
  <2>1. Len(list) \in Nat /\ DOMAIN list = 1 .. Len(list)
    BY <1>1
  <2> QED
    BY <2>1, FS_Interval
<1>3. IsFiniteSet(found)
  <2>1. list \in Surjection(DOMAIN list, found)
    BY <1>1 DEF Surjection
  <2> QED
    BY <2>1, <1>2, FS_Surjection
<1>4. IsFiniteSet(FilesOf(entries[n]))
  BY <1>3, FS_Subset DEF FilesOf
<1>5. IsFiniteSet({a}) /\ Cardinality({a}) = 1
  BY FS_Singleton
<1>6. Cardinality({a} \cup {b}) = 2
  <2>1. b \notin {a}
    OBVIOUS
  <2>2. Cardinality({a} \cup {b}) = IF b \in {a} THEN Cardinality({a}) ELSE Cardinality({a}) + 1
    BY <1>5, FS_AddElement
  <2> QED
    BY <2>1, <2>2, <1>5
<1>7. 2 <= Cardinality(FilesOf(entries[n])) /\ Cardinality(FilesOf(entries[n])) \in Nat
  BY <1>4, <1>6, FS_Subset, FS_CardinalityType
<1> QED
  BY <1>7 DEF Crowded

(* Elements that are placed before the load stay as they are; the new file *)
(* comes behind them.                                                      *)
LEMMA LoadAppends ==
  ASSUME ScanTypeOK, NEW file \in Files, LoadInto(loadedFileCount, file),
         loadedFileCount \in Memory,
         Distinct(loadedFileCount), Held, file \notin buffers
  PROVE  /\ Distinct(loadedFileCount)' /\ Held'
         /\ fileEntries'[loadedFileCount] = file
         /\ \A k \in 0 .. loadedFileCount - 1 : fileEntries'[k] = fileEntries[k]
<1> DEFINE c == loadedFileCount
<1>1. /\ c \in Nat /\ c \in Memory /\ c' = c + 1
      /\ buffers' = buffers \cup {file}
      /\ fileEntries \in [Memory -> Files \cup {Unset}]
  BY DEF ScanTypeOK, LoadInto
<1>2. \A k : k \in 0 .. c' - 1 <=> k \in 0 .. c - 1 \/ k = c
  BY <1>1
<1>3. c \notin 0 .. c - 1
  BY <1>1
<1>4. fileEntries'[c] = file
  BY <1>1 DEF LoadInto
<1>5. MaxRoot * (MaxSub + 1) \in Nat
  BY FilesAssumption
<1>6. \A k \in 0 .. c - 1 : k \in Memory /\ k # c
  <2> HIDE DEF c
  <2> QED
    BY <1>1, <1>5 DEF Memory
<1>7. \A k \in 0 .. c - 1 : fileEntries'[k] = fileEntries[k]
  BY <1>6, <1>1 DEF LoadInto
<1>8. Distinct(c)'
  <2> SUFFICES ASSUME NEW k \in 0 .. c' - 1, NEW l \in 0 .. c' - 1,
                      fileEntries'[k] = fileEntries'[l]
               PROVE  k = l
    BY DEF Distinct
  <2>1. \A m \in 0 .. c - 1 : fileEntries[m] # file
    BY DEF Held
  <2>2. Distinct(c)
    OBVIOUS
  <2> HIDE DEF c
  <2>3. k \in 0 .. c - 1 /\ l \in 0 .. c - 1 => k = l
    BY <2>2, <1>7 DEF Distinct
  <2> QED
    BY <2>1, <2>3, <1>2, <1>4, <1>7
<1>9. Held'
  <2>1. buffers' = {fileEntries'[k] : k \in 0 .. c' - 1}
    <3>1. buffers = {fileEntries'[k] : k \in 0 .. c - 1}
      BY <1>7 DEF Held
    <3> HIDE DEF c
    <3> QED
      BY <3>1, <1>1, <1>2, <1>4
  <2>2. IsFiniteSet(buffers') /\ Cardinality(buffers') = c'
    BY <1>1, FS_AddElement DEF Held
  <2> QED
    BY <2>1, <2>2 DEF Held
<1> QED
  BY <1>4, <1>7, <1>8, <1>9

(* A file of a root entry that comes later has not been loaded yet. *)
LEMMA LaterFilesAreNew ==
  ASSUME entries \in Directories, NEW n \in Nat, NEW c \in Nat, Sorted(c, n),
         NEW late \in DOMAIN entries, n < late, NEW file \in FilesOf(entries[late])
  PROVE  \A k \in 0 .. c - 1 : fileEntries[k] # file
<1>1. entries \in Seq(RootEntries)
  BY TreeShape
<1> SUFFICES ASSUME NEW k \in 0 .. c - 1, fileEntries[k] = file
             PROVE  FALSE
  OBVIOUS
<1>2. PICK m \in 1 .. n : fileEntries[k] \in FilesOf(entries[m])
  BY DEF Sorted
<1>3. m \in DOMAIN entries /\ m # late
  BY <1>1
<1> QED
  BY <1>2, <1>3, TreeShape

(* The elements used while the tree is flat are inside the memory. *)
LEMMA ArrayIsMemory ==
  ASSUME entries \in Directories, NEW c \in Nat, c <= Len(entries)
  PROVE  c \in Memory
<1>1. Len(entries) \in 0 .. MaxRoot
  BY TreeShape
<1>2. MaxRoot \in Nat /\ MaxSub \in Nat
  BY FilesAssumption
<1>3. MaxRoot <= MaxRoot * (MaxSub + 1) /\ MaxRoot * (MaxSub + 1) \in Nat
  <2>1. MaxRoot * (MaxSub + 1) = MaxRoot * MaxSub + MaxRoot
    BY <1>2
  <2>2. MaxRoot * MaxSub \in Nat
    BY <1>2
  <2> QED
    BY <2>1, <2>2, <1>2
<1> QED
  BY <1>1, <1>2, <1>3 DEF Memory


LEMMA LoadKeepsType ==
  ASSUME ScanTypeOK, NEW element, NEW file \in Files, LoadInto(element, file)
  PROVE  fileEntries' \in [Memory -> Files \cup {Unset}] /\ loadedFileCount' \in Nat
<1>1. /\ fileEntries \in [Memory -> Files \cup {Unset}]
      /\ fileEntries' = [fileEntries EXCEPT ![element] = file]
      /\ loadedFileCount \in Nat /\ loadedFileCount' = loadedFileCount + 1
  BY DEF ScanTypeOK, LoadInto
<1>2. file \in Files \cup {Unset}
  OBVIOUS
<1>3. fileEntries' \in [Memory -> Files \cup {Unset}]
  BY <1>1, <1>2
<1> QED
  BY <1>1, <1>3

LEMMA ScanKeepsType ==
  ASSUME ScanTypeOK, [ScanNext]_scanVars
  PROVE  ScanTypeOK'
<1> USE DEF scan, result
<1>0. entries \in Seq(RootEntries) /\ Len(entries) \in Nat
  BY TreeShape DEF ScanTypeOK
<1>1. CASE ScanFails
  BY <1>1 DEF ScanFails, ScanTypeOK
<1>2. CASE OpenRoot
  <2>1. Len(entries') \in Nat
    BY <1>2, TreeShape DEF OpenRoot
  <2> QED
    BY <1>2, <2>1 DEF OpenRoot, ScanTypeOK
<1>3. CASE SkipRootEntry \/ SubdirFails
  BY <1>0, <1>3 DEF SkipRootEntry, SubdirFails, AtEntry, ScanTypeOK
<1>4. CASE LoadRootFile
  <2>1. /\ fileEntries' \in [Memory -> Files \cup {Unset}]
        /\ loadedFileCount' \in Nat /\ fileEntry' \in Nat
    BY <1>4, LoadKeepsType DEF LoadRootFile, ScanTypeOK
  <2> QED
    BY <1>0, <1>4, <2>1 DEF LoadRootFile, LoadInto, AtEntry, ScanTypeOK
<1>5. CASE OpenSubdir
  BY <1>0, <1>5 DEF OpenSubdir, AtEntry, Root, ScanTypeOK
<1>6. CASE SkipSubFile
  BY <1>0, <1>6 DEF SkipSubFile, Root, ScanTypeOK
<1>7. CASE LoadSubFile
  <2>1. fileEntries' \in [Memory -> Files \cup {Unset}] /\ loadedFileCount' \in Nat
    BY <1>7, LoadKeepsType DEF LoadSubFile
  <2> QED
    BY <1>0, <1>7, <2>1 DEF LoadSubFile, LoadInto, Root, ScanTypeOK
<1>8. CASE LeaveSubdir
  BY <1>0, <1>8 DEF LeaveSubdir, ScanTypeOK
<1>9. CASE LoadAborts \/ freeEntries
  BY <1>9 DEF LoadAborts, freeEntries, AtEntry, ScanTypeOK
<1>10. CASE ReturnEntries
  BY <1>0, <1>10 DEF ReturnEntries, ScanTypeOK
<1>11. CASE freeFile
  BY <1>11 DEF freeFile, ScanTypeOK
<1>12. CASE Stopped \/ UNCHANGED scanVars
  BY <1>12 DEF Stopped, scanVars, ScanTypeOK, Root
<1> QED
  BY <1>1, <1>2, <1>3, <1>4, <1>5, <1>6, <1>7, <1>8, <1>9, <1>10, <1>11, <1>12
     DEF ScanNext, Step

(* A file in the root directory. *)
LEMMA RootFileIsPlaced ==
  ASSUME ScanTypeOK, Placed, LoadRootFile
  PROVE  Placed'
<1> DEFINE file == Root.files[1]
<1>1. entries \in Seq(RootEntries) /\ rootIndex + 1 \in DOMAIN entries
  BY TreeShape DEF ScanTypeOK, LoadRootFile, AtEntry
<1>2. file \in FilesOf(Root)
  <2>1. Root \in RootEntries /\ Root.kind = "file"
    BY <1>1 DEF Root, LoadRootFile, AtEntry
  <2>2. 1 \in DOMAIN Root.files
    BY <2>1, EntryShape
  <2> QED
    BY <2>2 DEF FilesOf, LoadRootFile
<1>3. /\ loadedFileCount \in Nat /\ loadedFileCount <= rootIndex
      /\ rootIndex \in Nat /\ rootIndex < Len(entries) /\ Len(entries) \in Nat
      /\ Sorted(loadedFileCount, rootIndex) /\ Distinct(loadedFileCount) /\ Held
  BY <1>1 DEF ScanTypeOK, Placed, LoadRootFile, AtEntry
<1>4. file \notin buffers
  <2>1. \A k \in 0 .. loadedFileCount - 1 : fileEntries[k] # file
    <3>1. rootIndex < rootIndex + 1 /\ file \in FilesOf(entries[rootIndex + 1])
      BY <1>2, <1>3 DEF Root
    <3> QED
      BY <3>1, <1>1, <1>3, LaterFilesAreNew DEF ScanTypeOK
  <2> QED
    BY <2>1, <1>3 DEF Held
<1>5. LoadInto(loadedFileCount, file) /\ file \in Files /\ loadedFileCount \in Memory
  BY <1>3, ArrayIsMemory DEF LoadRootFile, ScanTypeOK
<1>6. /\ Distinct(loadedFileCount)' /\ Held'
      /\ fileEntries'[loadedFileCount] = file
      /\ \A k \in 0 .. loadedFileCount - 1 : fileEntries'[k] = fileEntries[k]
  <2> HIDE DEF file
  <2> QED
    BY <1>3, <1>4, <1>5, LoadAppends
<1>7. Sorted(loadedFileCount, rootIndex)'
  <2> SUFFICES ASSUME NEW k \in 0 .. loadedFileCount' - 1
               PROVE  \E m \in 1 .. rootIndex + 1 : fileEntries'[k] \in FilesOf(entries[m])
    BY DEF Sorted, LoadRootFile
  <2>1. loadedFileCount' = loadedFileCount + 1
    BY <1>5 DEF LoadInto
  <2>2. CASE k = loadedFileCount
    <3>1. rootIndex + 1 \in 1 .. rootIndex + 1
      BY <1>3
    <3> QED
      BY <2>2, <3>1, <1>2, <1>6 DEF Root
  <2>3. CASE k # loadedFileCount
    <3>1. k \in 0 .. loadedFileCount - 1
      BY <2>1, <2>3, <1>3
    <3>2. PICK m \in 1 .. rootIndex : fileEntries[k] \in FilesOf(entries[m])
      BY <3>1, <1>3 DEF Sorted
    <3>3. m \in 1 .. rootIndex + 1 /\ fileEntries'[k] = fileEntries[k]
      BY <3>1, <1>3, <1>6
    <3> QED
      BY <3>2, <3>3
  <2> QED
    BY <2>2, <2>3
<1>8. /\ stage' = "entry" /\ rootIndex' = rootIndex + 1 /\ entries' = entries
      /\ loadedFileCount' = loadedFileCount + 1 /\ wildFree' = wildFree
  BY DEF LoadRootFile, LoadInto, AtEntry
<1> QED
  BY <1>3, <1>6, <1>7, <1>8 DEF Placed

(* A file of a subdirectory: the first one, since there is only one. *)
LEMMA SubFileIsPlaced ==
  ASSUME ScanTypeOK, Flat, Placed, LoadSubFile
  PROVE  Placed'
<1> DEFINE file == Root.files[subIndex + 1]
<1>1. /\ entries \in Seq(RootEntries) /\ rootIndex + 1 \in DOMAIN entries
      /\ Root \in RootEntries /\ Root.kind = "directory"
  BY TreeShape DEF ScanTypeOK, LoadSubFile, Root
<1>2. /\ Root.files \in Seq(Files \cup {Plain}) /\ IsInjectiveOnFiles(Root.files)
      /\ subIndex \in Nat /\ subIndex + 1 \in DOMAIN Root.files
      /\ file \in Files /\ file \in FilesOf(Root)
  <2>1. /\ Root.files \in Seq(Files \cup {Plain}) /\ IsInjectiveOnFiles(Root.files)
        /\ subIndex \in Nat /\ file \in Files /\ subIndex < Len(Root.files)
    BY <1>1, EntryShape DEF LoadSubFile, ScanTypeOK
  <2>2. subIndex + 1 \in DOMAIN Root.files
    <3> DEFINE list == Root.files
    <3>1. list \in Seq(Files \cup {Plain}) /\ subIndex \in Nat /\ subIndex < Len(list)
      BY <2>1
    <3> HIDE DEF list
    <3>2. subIndex + 1 \in DOMAIN list
      BY <3>1
    <3> QED
      BY <3>2 DEF list
  <2> QED
    BY <2>1, <2>2 DEF FilesOf
<1>3. /\ loadedFileCount \in Nat /\ fileEntry \in Nat /\ fileEntry <= rootIndex
      /\ rootIndex \in Nat /\ rootIndex < Len(entries) /\ Len(entries) \in Nat
      /\ Sorted(fileEntry, rootIndex) /\ Distinct(loadedFileCount) /\ Held
  BY <1>1 DEF ScanTypeOK, Placed, ElementTaken, LoadSubFile
<1>4. loadedFileCount = fileEntry
  <2> SUFFICES ASSUME NEW m \in 1 .. subIndex, m \in DOMAIN Root.files,
                      fileEntries[fileEntry] = Root.files[m],
                      loadedFileCount = fileEntry + 1,
                      fileEntries[fileEntry] \in Files
               PROVE  FALSE
    BY DEF Placed, ElementTaken, LoadSubFile
  <2>2. Root.files[m] \in FilesOf(Root)
    BY DEF FilesOf
  <2>3. Root.files[m] = file
    BY <2>2, <1>1, <1>2 DEF Flat, Root
  <2>4. m = subIndex + 1
    BY <2>3, <1>2 DEF IsInjectiveOnFiles
  <2> QED
    BY <2>4, <1>2
<1>5. file \notin buffers
  <2>1. \A k \in 0 .. fileEntry - 1 : fileEntries[k] # file
    <3>1. rootIndex < rootIndex + 1 /\ file \in FilesOf(entries[rootIndex + 1])
      BY <1>2, <1>3 DEF Root
    <3> QED
      BY <3>1, <1>1, <1>3, LaterFilesAreNew DEF ScanTypeOK
  <2> QED
    BY <2>1, <1>3, <1>4 DEF Held
<1>6. LoadInto(loadedFileCount, file) /\ loadedFileCount \in Memory
  BY <1>3, <1>4, ArrayIsMemory DEF LoadSubFile, ScanTypeOK
<1>7. /\ Distinct(loadedFileCount)' /\ Held'
      /\ fileEntries'[loadedFileCount] = file
      /\ \A k \in 0 .. loadedFileCount - 1 : fileEntries'[k] = fileEntries[k]
  <2> HIDE DEF file
  <2> QED
    BY <1>2, <1>3, <1>5, <1>6, LoadAppends
<1>8. /\ stage' = "subdir" /\ rootIndex' = rootIndex /\ entries' = entries
      /\ loadedFileCount' = loadedFileCount + 1 /\ wildFree' = wildFree
      /\ fileEntry' = fileEntry /\ subIndex' = subIndex + 1 /\ Root' = Root
  BY DEF LoadSubFile, LoadInto, Root
<1>9. Sorted(fileEntry, rootIndex)'
  BY <1>3, <1>4, <1>7, <1>8 DEF Sorted
<1>10. /\ fileEntries'[fileEntry'] \in Files
       /\ \E m \in 1 .. subIndex' :
            m \in DOMAIN Root'.files /\ fileEntries'[fileEntry'] = Root'.files[m]
  <2>1. subIndex + 1 \in 1 .. subIndex'
    BY <1>2, <1>8
  <2> QED
    BY <2>1, <1>2, <1>4, <1>7, <1>8
<1>11. ElementTaken'
  BY <1>3, <1>4, <1>8, <1>9, <1>10 DEF ElementTaken
<1> QED
  BY <1>3, <1>4, <1>7, <1>8, <1>11 DEF Placed

(* The caller frees the counted elements in turn. *)
LEMMA FreeKeepsPlaced ==
  ASSUME ScanTypeOK, Placed, freeFile
  PROVE  Placed'
<1>1. /\ stage = "free" /\ rootIndex < outFileCount /\ rootIndex \in Nat
      /\ outFileCount \in Nat /\ outFileCount = loadedFileCount
      /\ buffers = {fileEntries[k] : k \in rootIndex .. outFileCount - 1}
  BY DEF Placed, freeFile, ScanTypeOK
<1>2. /\ buffers' = buffers \ {fileEntries[rootIndex]}
      /\ wildFree' = (wildFree \/ fileEntries[rootIndex] \notin buffers)
      /\ rootIndex' = rootIndex + 1 /\ stage' = "free"
      /\ UNCHANGED <<entries, loadedFileCount, fileEntries, outFileCount>>
  BY <1>1 DEF freeFile
<1>3. rootIndex \in rootIndex .. outFileCount - 1
  BY <1>1
<1>4. fileEntries[rootIndex] \in buffers
  BY <1>1, <1>3
<1>5. \A k : k \in rootIndex .. outFileCount - 1 <=>
              k = rootIndex \/ k \in rootIndex + 1 .. outFileCount - 1
  BY <1>1
<1>6. \A k \in rootIndex + 1 .. outFileCount - 1 : fileEntries[k] # fileEntries[rootIndex]
  <2> SUFFICES ASSUME NEW k \in rootIndex + 1 .. outFileCount - 1
               PROVE  fileEntries[k] # fileEntries[rootIndex]
    OBVIOUS
  <2>1. /\ k \in 0 .. loadedFileCount - 1 /\ rootIndex \in 0 .. loadedFileCount - 1
        /\ k # rootIndex
    BY <1>1
  <2> QED
    BY <2>1 DEF Placed, Distinct
<1>7. buffers' = {fileEntries[k] : k \in rootIndex + 1 .. outFileCount - 1}
  BY <1>1, <1>2, <1>5, <1>6
<1>8. rootIndex + 1 <= outFileCount
  BY <1>1
<1>9. Distinct(loadedFileCount)'
  BY <1>2 DEF Placed, Distinct
<1> QED
  BY <1>1, <1>2, <1>4, <1>7, <1>8, <1>9 DEF Placed

(* The tree a scan begins with, and the elements it has placed: none. *)
LEMMA OpenRootPlaces ==
  ASSUME ScanTypeOK, OpenRoot
  PROVE  Placed'
<1>1. /\ loadedFileCount = 0 /\ rootIndex = 0 /\ buffers = {} /\ ~wildFree
      /\ stage' = "entry" /\ UNCHANGED <<rootIndex, loadedFileCount, result>>
  BY DEF ScanTypeOK, OpenRoot
<1>2. Len(entries') \in Nat
  BY TreeShape DEF OpenRoot
<1>3. \A k : k \notin 0 .. loadedFileCount' - 1
  BY <1>1
<1>4. Held'
  <2>1. buffers' = {fileEntries'[k] : k \in 0 .. loadedFileCount' - 1}
    BY <1>1, <1>3 DEF result
  <2> QED
    BY <1>1, <2>1, FS_EmptySet DEF Held, result
<1>5. Sorted(loadedFileCount, rootIndex)' /\ Distinct(loadedFileCount)'
  BY <1>3 DEF Sorted, Distinct
<1> QED
  BY <1>1, <1>2, <1>4, <1>5 DEF Placed, result

LEMMA ScanKeepsPlaced ==
  ASSUME ScanTypeOK, Flat, Placed, [ScanNext]_scanVars, ~OpenRoot
  PROVE  Placed'
<1> USE DEF scan, result
<1>0. entries \in Seq(RootEntries) /\ Len(entries) \in Nat
  BY TreeShape DEF ScanTypeOK
<1>1. CASE ScanFails
  <2>1. /\ UNCHANGED <<entries, fileEntries, loadedFileCount, buffers, wildFree>>
        /\ buffers = {} /\ stage' = "returned"
    BY <1>1 DEF ScanFails, ScanTypeOK
  <2> QED
    BY <2>1 DEF Placed, Distinct
<1>2. CASE SkipRootEntry \/ SubdirFails
  <2>1. /\ UNCHANGED <<entries, fileEntries, loadedFileCount, buffers, wildFree>>
        /\ stage = "entry" /\ stage' = "entry" /\ rootIndex' = rootIndex + 1
    BY <1>2 DEF SkipRootEntry, SubdirFails, AtEntry
  <2>2. Held' /\ Distinct(loadedFileCount)'
    BY <2>1 DEF Placed, Held, Distinct
  <2>3. Sorted(loadedFileCount, rootIndex)'
    <3>1. \A m : m \in 1 .. rootIndex => m \in 1 .. rootIndex'
      BY <2>1 DEF ScanTypeOK
    <3> QED
      BY <2>1, <3>1 DEF Placed, Sorted
  <2>4. loadedFileCount' <= rootIndex'
    BY <2>1 DEF Placed, ScanTypeOK
  <2> QED
    BY <2>1, <2>2, <2>3, <2>4 DEF Placed
<1>3. CASE LoadRootFile
  BY <1>3, RootFileIsPlaced
<1>4. CASE OpenSubdir
  <2>1. /\ UNCHANGED <<entries, rootIndex, fileEntries, loadedFileCount, buffers, wildFree>>
        /\ stage = "entry" /\ stage' = "subdir" /\ fileEntry' = loadedFileCount
    BY <1>4 DEF OpenSubdir, AtEntry
  <2>2. Held' /\ Distinct(loadedFileCount)'
    BY <2>1 DEF Placed, Held, Distinct
  <2>3. ElementTaken'
    BY <2>1 DEF Placed, ElementTaken, Sorted
  <2> QED
    BY <2>1, <2>2, <2>3 DEF Placed
<1>5. CASE SkipSubFile
  <2>1. /\ UNCHANGED <<entries, rootIndex, fileEntry, fileEntries, loadedFileCount,
                       buffers, wildFree>>
        /\ stage = "subdir" /\ stage' = "subdir" /\ subIndex' = subIndex + 1
    BY <1>5 DEF SkipSubFile
  <2>2. Held' /\ Distinct(loadedFileCount)' /\ Sorted(fileEntry, rootIndex)'
    BY <2>1 DEF Placed, ElementTaken, Held, Distinct, Sorted
  <2>3. \A m : m \in 1 .. subIndex => m \in 1 .. subIndex'
    BY <2>1 DEF ScanTypeOK
  <2>4. ElementTaken'
    BY <2>1, <2>2, <2>3 DEF Placed, ElementTaken, Root
  <2> QED
    BY <2>1, <2>2, <2>4 DEF Placed
<1>6. CASE LoadSubFile
  BY <1>6, SubFileIsPlaced
<1>7. CASE LeaveSubdir
  <2>1. /\ UNCHANGED <<entries, fileEntry, fileEntries, loadedFileCount, buffers, wildFree>>
        /\ stage = "subdir" /\ stage' = "entry" /\ rootIndex' = rootIndex + 1
    BY <1>7 DEF LeaveSubdir
  <2>2. Held' /\ Distinct(loadedFileCount)'
    BY <2>1 DEF Placed, Held, Distinct
  <2>3. /\ fileEntry \in Nat /\ rootIndex \in Nat /\ fileEntry <= rootIndex
        /\ loadedFileCount \in Nat
        /\ Sorted(fileEntry, rootIndex) /\ ElementTaken
    BY <2>1 DEF ScanTypeOK, Placed, ElementTaken
  <2>4. loadedFileCount' <= rootIndex'
    BY <2>1, <2>3 DEF ElementTaken
  <2>5. Sorted(loadedFileCount, rootIndex)'
    <3> SUFFICES ASSUME NEW k \in 0 .. loadedFileCount - 1
                 PROVE  \E m \in 1 .. rootIndex + 1 : fileEntries[k] \in FilesOf(entries[m])
      BY <2>1 DEF Sorted
    <3>1. CASE k \in 0 .. fileEntry - 1
      <4>1. PICK m \in 1 .. rootIndex : fileEntries[k] \in FilesOf(entries[m])
        BY <3>1, <2>3 DEF Sorted
      <4> QED
        BY <4>1, <2>3
    <3>2. CASE k \notin 0 .. fileEntry - 1
      <4>1. k = fileEntry /\ loadedFileCount # fileEntry
        BY <3>2, <2>3 DEF ElementTaken
      <4>2. fileEntries[k] \in FilesOf(Root)
        BY <4>1, <2>3 DEF ElementTaken, FilesOf
      <4>3. rootIndex + 1 \in 1 .. rootIndex + 1
        BY <2>3
      <4> QED
        BY <4>2, <4>3 DEF Root
    <3> QED
      BY <3>1, <3>2
  <2> QED
    BY <2>1, <2>2, <2>4, <2>5 DEF Placed
<1>8. CASE LoadAborts
  <2>1. UNCHANGED <<scan, result>> /\ stage' = "aborted"
    BY <1>8 DEF LoadAborts
  <2> QED
    BY <2>1 DEF Placed, Distinct
<1>9. CASE ReturnEntries
  <2>1. /\ UNCHANGED <<entries, loadedFileCount, fileEntries, buffers, wildFree>>
        /\ stage = "entry" /\ stage' = "free"
        /\ outFileCount' = loadedFileCount /\ rootIndex' = 0
    BY <1>9 DEF ReturnEntries
  <2> QED
    BY <2>1 DEF Placed, Held, Distinct, ScanTypeOK
<1>10. CASE freeFile
  BY <1>10, FreeKeepsPlaced
<1>11. CASE freeEntries
  <2>1. /\ UNCHANGED <<scan, result>> /\ stage' = "returned"
        /\ stage = "free" /\ rootIndex >= outFileCount
    BY <1>11 DEF freeEntries
  <2>2. buffers = {}
    <3>1. /\ rootIndex \in Nat /\ outFileCount \in Nat
          /\ buffers = {fileEntries[k] : k \in rootIndex .. outFileCount - 1}
      BY <2>1 DEF Placed, ScanTypeOK
    <3>2. \A k : k \notin rootIndex .. outFileCount - 1
      BY <2>1, <3>1
    <3> QED
      BY <3>1, <3>2
  <2> QED
    BY <2>1, <2>2 DEF Placed, Distinct
<1>12. CASE Stopped \/ UNCHANGED scanVars
  BY <1>12 DEF Stopped, scanVars, Placed, Held, Distinct, Sorted, ElementTaken, Root
<1> QED
  BY <1>1, <1>2, <1>3, <1>4, <1>5, <1>6, <1>7, <1>8, <1>9, <1>10, <1>11, <1>12
     DEF ScanNext, Step

THEOREM ScanInvHolds == ScanSpec => []ScanInv
<1>1. ScanInit => ScanInv
  <2> SUFFICES ASSUME ScanInit
               PROVE  ScanInv
    OBVIOUS
  <2>1. entries \in Directories
    <3>1. 0 \in 0 .. MaxRoot
      BY FilesAssumption
    <3>2. entries \in [1 .. 0 -> RootEntries] /\ DOMAIN entries = {}
      BY DEF ScanInit
    <3>3. entries \in UNION {[1 .. n -> RootEntries] : n \in 0 .. MaxRoot}
      BY <3>1, <3>2
    <3> QED
      BY <3>2, <3>3 DEF Directories
  <2>2. ScanTypeOK
    BY <2>1 DEF ScanInit, ScanTypeOK
  <2>3. Placed
    BY DEF ScanInit, Placed, Distinct
  <2> QED
    BY <2>2, <2>3 DEF ScanInv
<1>2. ScanInv /\ [ScanNext]_scanVars => ScanInv'
  <2> SUFFICES ASSUME ScanInv, [ScanNext]_scanVars
               PROVE  ScanInv'
    OBVIOUS
  <2>1. ScanTypeOK /\ ScanTypeOK'
    BY ScanKeepsType DEF ScanInv
  <2>2. CASE OpenRoot
    BY <2>1, <2>2, OpenRootPlaces DEF ScanInv
  <2>3. CASE ~OpenRoot
    <3>1. entries' = entries
      BY <2>3 DEF ScanNext, Step, Stopped, scanVars, scan, ScanFails, SkipRootEntry,
                  LoadRootFile, SubdirFails, OpenSubdir, SkipSubFile, LoadSubFile,
                  LeaveSubdir, LoadAborts, ReturnEntries, freeFile, freeEntries
    <3>2. Flat' => Flat
      BY <3>1 DEF Flat
    <3> QED
      BY <2>1, <2>3, <3>2, ScanKeepsPlaced DEF ScanInv
  <2> QED
    BY <2>2, <2>3
<1> QED
  BY <1>1, <1>2, PTL DEF ScanSpec

(* Unless a subdirectory holds two files to load, the array taken for the    *)
(* root directory has an element for every load (fsHelper.cpp l.159-235).    *)
THEOREM ArrayIsLargeEnough == ScanSpec => []LoadsFitTheArray
<1>1. ScanInv => LoadsFitTheArray
  BY UncrowdedIsFlat DEF ScanInv, ScanTypeOK, Placed, LoadsFitTheArray
<1> QED
  BY <1>1, ScanInvHolds, PTL

(* ... and the caller frees every buffer, each once and nothing else.        *)
THEOREM EveryBufferIsFreed == ScanSpec => []CleanUpIsExact
<1>1. ScanInv => CleanUpIsExact
  <2> SUFFICES ASSUME ScanTypeOK, ~Crowded, Placed
               PROVE  CleanUpIsExact
    BY UncrowdedIsFlat DEF ScanInv, ScanTypeOK, CleanUpIsExact
  <2>1. CountedEntriesHoldTheBuffers
    <3> SUFFICES ASSUME stage \in {"entry", "subdir"}
                 PROVE  /\ {fileEntries[k] : k \in Loaded} = buffers
                        /\ Cardinality(buffers) = loadedFileCount
      BY DEF CountedEntriesHoldTheBuffers
    <3>1. Held /\ loadedFileCount \in Nat /\ loadedFileCount <= Len(entries)
      BY DEF Placed, ScanTypeOK
    <3>2. loadedFileCount \in Memory /\ MaxRoot * (MaxSub + 1) \in Nat
      BY <3>1, ArrayIsMemory, FilesAssumption DEF ScanTypeOK
    <3>3. Loaded = 0 .. loadedFileCount - 1
      BY <3>1, <3>2 DEF Loaded, Memory
    <3> QED
      BY <3>1, <3>3 DEF Held
  <2> QED
    BY <2>1 DEF CleanUpIsExact, Placed
<1> QED
  BY <1>1, ScanInvHolds, PTL
=============================================================================
