# SMO-Plugin-Loader: models, checks and proofs

SMO-Plugin-Loader is loaded into a game process. It hooks the game's functions,
loads plugin modules (NRO files) from the SD card through the system's `nn::ro`
service, lets them register callbacks for game events, and unloads them again
from a debug window. It brings its own CPU exception handler with a
`tryCatch`. Paths below are relative to the repository's `src/`.

## 1. Inventory

| component | state | operations | interacts with |
|---|---|---|---|
| Plugin loader (`plugin/PluginLoader.cpp`) | `mPlugins`, `mPluginCount`, `mSortedHashes`, NRR buffer, `mIsPluginsLoaded`, plugin heap | `loadPlugins`, `unloadPlugins`, `unloadPluginByName` | file helper, `nn::ro`, event holders, exception handler (boot) |
| Hook event holders (`plugin/events/HookEvent.h`) | array of 100 callback pairs, count | `AddEvent`, `RemoveEvents`, `Callback` (the dispatch) | plugins' callbacks, the hooked function |
| Mod event holders (`plugin/events/ModEvent.h`) | tree map from module path to callbacks, its buffer in the plugin heap | `AddEvent`, `RunEvents`, `RemoveAllEvents`, `RemoveEvents`, `RemoveEvent` | loader (heap), debug window |
| Exception handler (`program/exception`) | one `exceptionInfo`, one `handlerStack`, frames per thread | `tryCatch`, phases one to four, `installExceptionHandler` | every thread; kernel |
| File helper (`helpers/fsHelper.cpp`) | none between calls | `loadFilesFromDirectory`, `loadFileFromPath`, `freeFile`, ... | loader, `nn::fs` |
| Program glue (`program/main.cpp`) | log switches | `exl_main`, `gameSystemInitPrefix`, plugin window, file hooks | everything |
| Hook engine (`lib/hook`) | pool of trampolines, context of a relocation | `Hook`, `HookInline`, relocation of instructions | RW mappings |
| Virtual memory, RW mappings (`lib/nx/kernel/virtmem.c`, `lib/util/sys/rw_pages.cpp`) | reservation list, aliases | find, add, remove; map, unmap | kernel |
| Module relocation (`lib/reloc`, `mem_layout.cpp`) | module list | `Initialize`, `Relocate`, symbol lookup | start-up |
| Patchers, process handle, instruction encoders | cursor; a handle; none | write; fetch; encode | RW mappings |
| Console, logger (`ui`, `logger`) | text, line offsets, line colours; state and type | `AddLog`, `Clear`, `Draw`; `log` | all threads, the presenting thread |
| ImGui front end, input (`program/imgui_nvn.cpp`, `helpers/InputHelper.cpp`) | nvn objects, draw queue, pad states, `isReadInput`, `toggleInput` | nvn hooks, `procDraw`, `updatePadState`, pad hooks | game threads reading the pad, ImGui |
| ImGui backend (`imgui_backend`) | renderer, key mapping | `newFrame`, `renderDrawData`, `updateInput` | graphics driver |

What is hard about it:

* **Order.** An unload unmaps modules, resets the heap their images, slots and
  event maps live in, then clears those maps, then closes `ro`.
* **Partial failure.** A file may be no NRO or a duplicate, registration or a
  module load may fail, an allocation or a `plugin_main` may fault, `ro` may refuse to
  unload a module, which nobody notices. At boot the
  fault is caught and the game goes on with whatever was built; later it ends
  the process. Nothing is rolled back.
* **Re-entrance.** A callback may register events with the holder that is
  calling it, or clear it.
* **Sharing without locks.** All threads share one exception record and one
  handler stack; the event holders, the log window and the pad's switches are
  read and written by whichever thread comes along.
* **Announced before it is written.** A count, a size or a pointer may be seen by
  another thread before what it stands for.
* **Two views of one memory.** Code is written through aliases that are found,
  reserved, mapped, flushed and given up by hand.
* **Hooks upon hooks.** What an earlier hook wrote is code to a later one, and
  the input helper reads the pad through the hooks that blank it.
* **Program counters.** Instructions that move refer to each other, to data and
  to code near and far, and their replacements differ in length.
* **Nobody's memory.** Arrays are allocated and not constructed; references
  into arrays outlive the index they were taken at.

What makes each component correct: buffers outlive the modules in them, only
registered modules are mapped, no callback outlives its module, the flag behind
the buttons is true, but for modules `ro` keeps (loader); every registered prefix is asked
and every postfix
called, stale slots are never reached, a dispatch ends (holders); what was due
is called and what came late waits (mod events); faults are
answered, contexts stay with their threads, frames follow the nesting
(exception handler); array, count and buffers agree (file helper); a trampoline
does what the instructions it replaces did, and fits, and hooks nest (hook
engine); aliases belong to whom reserved them and no stale instruction is left
(mappings, patchers); a thread faults in plugin code only where an unload can be
blamed (holders and loader together); lines, offsets and colours agree (console);
the pad has one owner and ImGui's keys follow it (input). The line at
which each hazard bites, and the property that looks at it, are the `hazards`
of `PROJECT.json`.

## 2. Modules

| module | models |
|---|---|
| `PluginLoader` | one loader with its environment: button presses, faults, failing calls, plugins that register events |
| `PluginLifecycle` | the abstract specification the loader implements |
| `HookEvent` | one hook event holder and its dispatch |
| `ModEvent` | one mod event holder: the map of modules, their vectors, `RunEvents` |
| `ExceptionHandler` | threads, catch frames and the four phases |
| `FsHelper` | the directory scan and the clean-up of its result |
| `FixInstructions` | the relocation of a hooked function's first instructions |
| `MCFixInstructions` | the instructions and addresses TLC tries |
| `EventThreads` | a holder, its dispatching threads and the loading thread, access by access |
| `RwPages` | aliases of code: reservations, mapping and unmapping of ranges |
| `HookInstall` | patchers and the installation of hooks, on `RwPages` |
| `DebugConsole`, `MCDebugConsole` | the log window between threads; the messages TLC tries |
| `ImGuiInput` | the pad between the game and the windows |
| `PluginLoaderProofs` | the theorems about the loader, its lifecycle and `FsHelper` |
| `ImGuiInputProofs` | those about `ImGuiInput` and `DebugConsole` |
| `HookInstallProofs` | those about `HookInstall` and `RwPages` |
| `HookEventProofs`, `ModEventProofs`, `ExceptionHandlerProofs`, `FixInstructionsProofs`, `EventThreadsProofs` | those about the module of that name |

How they fit together: `PluginLoader` implements `PluginLifecycle`; `EventThreads`
composes the loader's load and unload with the holder's registration and dispatch,
each reduced to the accesses another thread can come between (in `HookEvent` a
dispatch and in `PluginLoader` a load are in detail, on one thread);
`HookInstall` extends `RwPages` and uses its constructor and destructor as parts of
its own actions, with the trampolines of `FixInstructions` reduced to what their
words do.

### PluginLoader

`pc` is the step of `loadPlugins` or `unloadPlugins` the loader is in: `create`
(the loop of `preparePluginsForLoad`), `register`, `load` (the loop of
`registerAndLoadModules`), `main` (the loop that runs `plugin_main`), `unload`,
`clear`, `finalize`; `boot` and `idle` are outside, `crashed` is the end of the
process. Each action is the code between two calls that can fail, so a fault
can stop the sequence between any two of them. A loop iteration is one action.

* A directory entry is the *contents* of a file: a hash, or `BadNro` for
  contents `GetBufferSize` refuses. Two files with the same contents are the
  same hash, which is what `createPluginData` compares.
* `mPlugins` is memory from the array on, `MaxSlots` slots long: the code never
  compares `mPluginCount` with the array's length, and the model lets it write
  behind it. Fresh slots hold `Garbage`, and `createPluginData` leaves
  `mModuleLoaded` to either value (`stale`), since nothing writes it.
* `nrr` is what `generatePluginNrr` stored: hashes from the set, number from
  the counter. `OrderedSet::insert` on a full set is a no-op, as in `sead`.
* `ro` maps a module only if the registered NRR lists its hash (the service's
  own rule, external), and closing `ro` drops the registration.
* `hookEvents` and `modEvents` hold the *owners* of events; `Loader` owns the
  event `exl_main` registers. `modBuffer` is the node buffer of the mod maps:
  allocated on first use, `dangling` once the heap is reset, replaced by
  `clearAllEvents`, which may not survive walking the freed nodes
  (`ClearFaults`).
* `UnloadModuleFails` is the `Result` line 219 drops: the loop goes on, the count is
  reset, `freeAll` takes the image, and the module stays mapped. Its hash moves to
  `orphans`; `mapped` is about the modules a slot still stands for. The properties
  say what holds for those, and that an orphan has no events and the flag does not
  speak for it.
* An allocation without result faults in the loop of files or, after it, when the
  NRR's buffer is cleared (`CreateFaults`).
* `abandoned` is a history variable: a load gave up (a failed registration, or
  a caught fault before `mIsPluginsLoaded` was set) and no unload has reset the
  counter since. In that state the next load starts with a used counter and a
  used set, and does overrun the array and mis-size the NRR. The two properties
  about them say so by their premise; the others hold across such retries.

### PluginLifecycle

Modules are mapped before any plugin code starts; only mapped plugins gain
listeners; an unload removes modules, then the flag, then the listeners, before
a load is offered again. A module that cannot be removed is `lost`: still mapped,
without listeners, and out of the lifecycle's reach (`orphans` in the loader). The
refinement mapping (end of `PluginLoader`) maps
`pc` to a phase, the mapped slots to the set of their hashes, and the owners in
both kinds of holder to listeners.

### HookEvent

One holder; the four templates differ in arguments and result. `EnterCallback`
starts a dispatch, each iteration of the two loops is an action, and
`AddEvent`/`RemoveEvents` may happen between any two of them, because a
callback, the original function or a later frame may call them. The loops read
count and array afresh each time (`auto [events, eventCount]` binds
references). `live`, `consulted`, `completed`, `known` and `cleared` are
history variables; the code's state is `events`, `eventCount`, the loop and the
result. A dispatch nested in another dispatch of the same holder is not
modelled (it would have its own index and the same shared state).

### ModEvent

`nodes` and `mSize` are the `StrTreeMap`, `vec` and `room` the vector of each
node and its capacity; modules are numbers, in the order the tree compares their
paths. `RunEvents` is a walk (`Ahead`: the in-order successors of `key`) with a
loop in each node whose range (`pos` to `last`) is fixed when it begins. Between
two iterations a callback that has run may call `AddEvent`, which finds the
module of the function it is given: its own, so only the vector being iterated
can change. When that vector outgrows its capacity the range points into freed
storage (`moved`): what is left there is empty, a function, or garbage
(`StaleEvent`), and the history `grown` marks the module. `AddEventFaults` is
the null `find` result of line 56, after an insert that did nothing (full map) or
that stored a key cut to 64 characters. Removal happens between dispatches: the
plugin window and the loader call it. The freed buffer of an unload is in
`PluginLoader`, not here; other holders with the same code are not repeated.

### ExceptionHandler

A thread is its nesting of `tryCatch` calls (`depth`), the level its
callee-saved registers belong to (`regs`), its frames, and where it is (`pc`).
`exceptionInfo` is split as the code fills it: `kernelPart` by phase one,
`userPart` by phase two. Phase one is atomic: the kernel gives the process one
user exception entry at a time (external assumption). Everything after it
interleaves with other threads. `clobbered` is a history variable: a fault was
stored in `exceptionInfo` while an earlier answer waited for its `svc #0xBEEF`.
`HandlerStackIsExclusive` and `ResumesOwnContext` hold up to that point; past
it the code can lose a thread (`pc = "lost"`), so the window is where the
missing lock matters. `FramesFollowNesting` and `CaughtLandsInCaller` hold even
then. A catch function that faults is a second fault and ends the process.

### FsHelper

`entries` is the root directory (files, subdirectories with their files, other
entries). Each entry and each file of a subdirectory is an action, with the
failures of each call. A counted file of a subdirectory that `ReadDirectory` did not
return is memory nobody wrote, which the extension test passes over or which ends
the program in `loadFileFromPath` (`LoadAborts`, which has the null copy of line 259
too). `fileEntry` is the element whose reference line 173
takes; `fileEntries` is longer than the array, as its stack frame is. After the
scan the caller frees every counted element. `Crowded` directories (two
matching files in one subdirectory) break the agreement of elements and count
and are excluded by the premise of both properties, which say what holds without them.

### FixInstructions

`__fix_instructions` as a step per instruction of the window (`Count` of them)
and one for the jump back. An address is the number of a 32-bit word. An
instruction is an operation with its signed offset; the fields of the real
encodings have their real widths (`Bits`, `Field`), and the code's slips with
them are kept: conditional offsets lose their sign (`AbsoluteAddr`), the others
lose it to an unsigned mask (`ZeroExtended`), a near load keeps width bits
(`WidthAfter`), a near `adr` puts its low bits into the register's number, an
`adrp` notes the writable alias (`RwDelta`). `cbz`, `cbnz`, `tbnz` are as `b.c`
and `tbz`. `dat` and `fmap` are the context's; `start` is a history of where the
words of each instruction begin. Several forms share their steps: `Reencode`
(keep the form), `Emit` (note the address, complete the words that waited).
`OffsetsAssumption` keeps conditional offsets in their fields; `LiteralsAssumption`
keeps literals out of the trampolines, which are the hook library's memory.

The properties execute the result: `Execute` is one instruction of the processor
(external), `Outcome` the state in which control leaves the words of one
instruction. Windows are built from all sequences of the given instructions, so a
target in the window is any instruction of the set. A literal in the window is
copied from its old place, as the code does. The premises of
`BranchesReachTheirTargets` and `ValuesAreKept` are the slips above, spelled out
at the definitions; the violated run drops the lost signs, which a line of
the source contradicts. (The comment at `hook_impl.cpp:432-433` is another slip:
an `adrp` of a window that crosses a page may name a page behind it.)

### EventThreads

`adding` is, per thread, the `AddEvent` it is in: the slot it read from
`eventCount` and which of its two stores are left, in either order (nothing in
the language orders them for another thread). A dispatch is the compare of the
index with the count, the read of the slot, the call, and what the callback does;
the loops before and after the original function make the same accesses and one
stands for both. A callback's code is there while its module is in `mapped`;
the loader's thread unmaps module by module, in any order, and clears the
holder at the end. A load gives the plugins new modules, so that a pointer
left from an earlier load is recognisable. `overlapped` and `revived` (a store
across a clear), `met` and `torn` (per dispatch) are histories that name the
windows; each property says what holds outside them, and the model has all of
what happens inside.

### RwPages and HookInstall

An address is a word; a page has `PageWords` of them. `claim` is an `RwPages`
object with what it claimed and where its alias is, `reserved` virtmem's list,
`alias` the page of code mapped at each page of the alias region. A constructor
finds a free region with the kernel's and the list's consent (the code tries 512
times at random: any free region, or none), reserves it and maps range by range as
the kernel reports them (`RangeStarts`); the destructor goes the same way. What the
kernel refuses on the way, a report, a mapping or an unmapping, ends the program
(`RangeFails`), and so does a reservation without memory (`FindFails`). The
size of a claim is rounded up without the offset of its start, as in the code;
the comparison of the two views after mapping (`Reachable`) then stops the
program or, when the next page happens to show the right code, does not.

`HookInstall` runs start-up over it: the aliases that stay (`patcher`, `jit`,
`inline`), patchers that write and flush, then hooks, each with a `window` alias
of its own, kept words and overwritten words. A hook is near (one branch) or far
(a load, a branch, a pointer, and a nop in front of an odd word); apart from that its
trampoline returns by one branch or, when the function is out of a branch's reach,
through x17 (`direct`, lines 498-516), which costs what x17 held (`After`). `code` is what
the processor fetches of the main module, `stale` what it may have cached from
before (the trampolines are not part of either). `Run` calls a
function: it follows code, trampolines and callbacks and records whom it met.
A replaced function, two trampolines and the limit of both pools are in the
bounds. `HooksNest` names two mixtures in which hooks do not nest: a far hook over a
near one (`FarOverNear`), and a near hook right over a far one of an even word,
whose trampoline has displaced the LDR X17 and returns to the BR X17 by way of x17
(`ReturnLosesX17`); there the call runs in a circle. Hooking from several threads is not:
everything here runs before `main`.

### DebugConsole

`AddLog` is the read of the old size, the append, the read of the new size, the
scan with a push for each newline, and the push of the colour; a push is
a read of the container's size followed by stores (`Put`), so two in the same
container lose or garble each other's. An append is three steps, as ImGui's
`appendfv` has them (external): it reads the size, stores the new one (`Resize`), and
then formats the characters (`Format`), so that another thread's scan may cover text
that is `Garbage` still, which reads as a newline or as something else. A character is
ordinary or a newline.
`Draw` clears if its button was pressed, call by call (`ClearBuf`, `ClearOffsets`,
`BeginFirst`, `PushFirst`, `ClearColors`), takes the end of the text, and reads
lines until it ends. `torn`, `overlapped` and `clearedUnder` name the windows, and
`guessed` says that a scan took unwritten text for a newline: then an offset may
lead nowhere, but `LinesAreFound` still has every line.
The reallocation of a vector under a reader, which may fault, is not in the model:
it is a matter of the allocator and happens in the same windows.

### ImGuiInput

The presenting thread's frame is four steps: keep the last state, open the
helper's window (`isReadInput`), read the pad through the hooks, close it, and
finish with the chord, the keys and the switch of `procDraw`. A game thread's
read is the system's answer followed by the two tests of `disableButtons`. `pad`
is what somebody holds down; `sample` and `before`, `missed`, `chords` and `lefts`
are histories of what was read. `cur` is left alone by a pad of no style.
ImGui is up once device, queue and command buffer have been seen, in any order.

## 3. Runs

| run | shows | bounds |
|---|---|---|
| `loader` | six invariants over loads, failures, retries, unloads that may leave a module behind; refinement of `PluginLifecycle`; loads return and unloads complete | 2 hashes, 3 files, 5 slots |
| `event_threads` | what a thread that meets a load, an unload or a registration may find | 2 game threads, 2 plugins, 2 slots, 2 loads |
| `hook_dispatch` | three invariants, termination | capacity 3, three kinds of event |
| `mod_event_run` | what is due is called, the walk ends | 3 modules, one of them with a long path, 2 nodes, 2 callbacks, 3 per module |
| `exception_faults` | four invariants; faults are answered | 2 threads, nesting 2 |
| `exception_callee_saved` | *violated*: x19-x28 of a caught exception | 1 thread, nesting 2 |
| `fs_flat` | array, count and buffers agree; the clean-up is exact | 3 files, 3 root entries, 2 per subdirectory |
| `fix_mixed` | size, branches, values, the way back | every window of 3 out of 22 instructions, 8 places |
| `fix_backwards` | *violated*: conditional branches, `adr`, `adrp` backwards | windows of 1 |
| `hook_install` | aliases, nesting of hooks, coherence of code, limits of the pools | 3 functions of 5 words, 3 hooks, patches of 2 words, 4 code pages of 8 words in 3 ranges, 5 alias pages, pools of 2 and 1 |
| `debug_console` | lines, offsets, what is drawn, colours | 2 logging threads, 2 messages of 2 severities, a newline or a character each, 1 clear, one drawing thread |
| `imgui_input` | owner of the pad, keys, switches | 1 game thread, 3 buttons |

Why the bounds suffice: three files with two hashes give every pattern of good,
bad and duplicate entries, and five slots leave room for a second load on top of
an abandoned one. Two loads are needed for a pointer to outlive its module, two
game threads for one to register while the other reads, and two slots for a
registration behind another; the proof has any number. A holder of three slots is
filled, emptied and refilled, with
each kind of event in each slot. A map of two nodes is full with a module left to
refuse, and three callbacks per module let a vector grow twice, once with a
callback still due behind the growth. Two threads race for `exceptionInfo`, each
may overtake the other at every
step, and nesting two has an inner and an outer frame; the invariants are proved
for any number of threads. Three
root entries allow a file before, after and between subdirectories. Windows of
three have a reference back, forward and across a replaced instruction; the eight
places are near, out of a condition's reach, out of a branch's and below the
function, in both alignments; the function begins one word before a page. The
three hooked functions begin at an even word, at an odd one before the end of a page,
which they cross, and at an odd one of a page they end with; two hooks with
trampolines and one that replaces put each kind on, under and between others, with
each way back, the proof has any number, and
five alias pages leave a choice and a failure for a window beside the aliases that
stay. Two messages are enough to overlap in every container, one of them a newline that
another scan may meet before it is written, and a clear comes at each moment of them;
longer messages and more of them are the proof's. A button is mapped or not, part of the chord
or not, the windows' switch or not: three buttons have it all, and more threads
or buttons only add copies, which the proof allows.
The theorems of section 5 remove the bounds for safety where they exist.

**Fairness.** The code under a liveness property is straight-line code of one
thread: a load, an unload, a dispatch, a walk or an answer that has begun goes on
(`WF` of those steps). No button press, registration, fault or `tryCatch` is
fair. Plugin code (`plugin_main`, callbacks, catch functions) is assumed to
return or fault. Fairness is on the thread's steps together where one thread
runs them, and per thread in `ExceptionHandler`. The modules added for threads that
share memory state safety only and assume no fairness.

**Deadlock** is checked in every run but `event_threads`; the end of the process,
a failed assertion and a finished scan are explicit stuttering actions. There it
is off because the model may stop for good: all game threads have faulted and
all loads are used up.

## 4. What the violations say, and other disagreements

* `CalleeSavedRestored`: `ExceptionHandler.cpp:65-66` copies the saved
  registers into the frame's own array instead of `info.r`; the comment at
  `ExceptionHandler.s:80-81` says caught exceptions restore them.
* `PcRelativeFormsAreKept`: `hook_impl.cpp:240` adds the offset of a
  conditional branch without its sign (line 152 does it right for `b` and `bl`);
  390 and 428 mask a signed offset with `~3u`, which makes it unsigned before it
  is widened.

Met while modelling. The models contain those marked with *; the properties
that would fail on them exclude the case and say so.

* `PluginData.h:11-13` guards the symbol lookup with `mModuleLoaded`, which `:36`
  initialises, but `PluginLoader.cpp:83` never constructs the array.*
* `PluginLoader.cpp:239` promises to remove all events of a plugin; the hook
  namespaces' `removeFromEvents` are empty, because the holders do not know
  owners.*
* `fsHelper.cpp:173` takes one element per root entry and 216-232 loads several
  files into it; the first file's buffer is lost, and "make sure to free buffer"
  (`fsHelper.cpp:40`) cannot be done.*
* `PluginLoader.cpp:219` drops the `Result` of `nn::ro::UnloadModule`: a module that
  is not unmapped loses its image to `freeAll` (223) and its slot to the reset of the
  count (225).*
* The far way back of a trampoline (`hook_impl.cpp:501-511`) overwrites x17, which a
  near hook over a far one still needs behind it.*
* The console's scan (`ImGuiDebugConsole.cpp:27-28`) may run over characters of
  another thread's message before they are written.*
* A far hook over a near one moves the return address of the near one's
  trampoline into the words it writes (`hook_impl.cpp:566-600`).*
* `hook_impl.cpp:545` hands out one trampoline more than the pool has.*
* `rw_pages.hpp:26-28` ignores the offset of the claim in its page.*
* The console's constructor pushes a colour `Clear` does not: before the
  first clear each line has the colour of the one before.* Overlapping log calls
  duplicate lines.*
* A button released while the game has the pad stays down for ImGui
  (`imgui_impl_nvn.cpp:599`).* `PadLeft` switches the windows and is a navigation
  key of theirs.*
* `disableButtons` blanks the first of the states the game asked for, not all
  `count` of them (`imgui_nvn.cpp:105-118`).
* `RwPages::Flush`, which `Jit::Flush` calls for the trampolines, names their
  alias where the destructor names the code (`rw_pages.cpp:78`, against 89);
  whether that matters is the processor's affair. `RoToOffset` has the wrong
  sign (`rw_pages.hpp:30-32`) and nothing uses it.
* `setCrop` updates the display only if width *and* height change; `InitImGui`
  returns true although `InitBackend` may have failed; `addDrawFunc` does not
  look at the queue's length; `LogError`'s buffer is one byte short
  (`ImGuiDebugConsole.cpp:68`).
* `hook_impl.cpp:432-433` says an `adrp` never refers to a later instruction of its
  window; one of a window that crosses a page may.*

## 5. Proofs

Checked by TLAPS for every value of the constants that meets the named
assumptions (`ConstantsOK`, `HolderAssumption` of each holder,
`ThreadsAssumption` of `ExceptionHandler` and of `EventThreads`,
`WindowAssumption`, `OffsetsAssumption`, `LiteralsAssumption`, `ButtonsAssumption`,
`FilesAssumption`, `TextsAssumption`, `PagesAssumption`, `HooksAssumption`):

* **PluginLoaderProofs.** The invariant `IInv` says what each step may rely on:
  what is loaded, registered, mapped and listening (`Stages`), which buffers
  exist (`Resources`), how far each loop is (`Loops`), which slots are filled
  (`Filled`), what a mapped slot has (`Mapped`), and how counter, set and files
  relate (`Counting`, which needs the cardinality of the set as its own count).
  None of the invariants is inductive alone: a module keeps its image only
  because the heap is reset when nothing with a slot is mapped any more, which needs the
  unload loop's progress and the fact that nothing is mapped beyond the counter.
  The stages with boot also need that a first load meets no unwritten slot, so
  that no fault is possible between the registration and the flag. Its second part
  is the refinement: every step of the loader is a step of `PluginLifecycle` or a
  stutter, case by case over the actions, using `IInv`; a failing unload is the lifecycle's
  `Lose`.
  `LifecycleIsConsistent` shows that the abstract specification has the consistency
  it is meant to give, and `LoaderIsConsistent` that the loader inherits it.
* **FsHelper**, in the same module. `Placed` says what the elements hold while no
  subdirectory holds two files to load (`Flat`): one file each, all of them different,
  taken from the root entries seen so far (`Sorted`), with one of the current
  subdirectory's at the element taken for it (`ElementTaken`). A new file is not
  among them because no file is in a tree twice; so the buffers are counted by the
  elements, and the caller's loop frees from both ends of that count at once.
* **EventThreadsProofs.** `Safe` is the type with the adders in progress and the
  count of clears against loads (`Epochs`): a module that is gone belongs to a load
  that is over, so there has been a clear since, or there is one to come. `Counted`
  covers every counted slot by a store that is done or pending; `Kept` says that, as
  long as registrations take turns, each one in progress has the next slot
  for itself; `Fresh` says that outside an unload every slot written since the last clear
  names a mapped module, and that before the first clear the others are empty;
  `Reached` carries that through compare, read and call to a fault. The properties hold for
  any
  order of the two stores and any number of threads, which no run can show.
* **HookEventProofs.** Every safety property of the run, and that registered
  events keep their slots. The strengthening relates the histories to the loop
  index in both loops and says that `known` is between the index and the count.
* **ModEventProofs.** `Walked` says that modules ahead of the walk are as they were
  when it began and that those behind it have been served, `AtKey` how far the loop
  is in the one between; `Mapped` that keys without a node have no callbacks, which
  is what makes the end of the walk the end of all modules.
* **ExceptionHandlerProofs.** `Nesting` (frames against depth in every phase),
  `Saved` (what `exceptionInfo` holds for the thread it belongs to) and `Owned`
  (who owns it, while nothing is clobbered) strengthen the four invariants.
* **FixInstructionsProofs.** For any instructions, offsets and addresses and any
  window of up to five: the words written are at most nine an instruction and
  five for the jump, hence at most fifty; a fix map never refuses a reference.
  `LengthOK` carries the length through the loop, `MapGrows` says what a fixer may
  do to the references, and each fixer is a lemma. The bound is coarse: no mix TLC
  tried comes near fifty. That the result does what the function did
  (`BranchesHold`, `ValuesHold`, `LeadsBack`) says nothing about the step being
  taken, so it rests on `ShapeInv`, which relates every instruction fixed so far
  to its words: the words of one follow those of another (`BlocksOK`), and they are one of
  seven
  forms, whose words nobody will complete any more (`Form`, `Written`), or one word
  that refers to the window, to a new address that is known or in the one fix map
  that will give it (`Refers`), and only padding comes before the address that is noted
  (`Starts`). At the end no reference waits, so every word is what it will be; `Ride`
  is the processor's run through the words of one instruction, and each form
  has a lemma that says where that run leaves them and with what. Two assumptions on
  the constants come in here. `OffsetsAssumption`: a conditional branch's offset fits
  its field, as in every encoded one. `LiteralsAssumption`: no load's literal lies in
  the trampoline, which is a block of the hook library's own pool; the load of such a
  one would get words that are being written. The premises of the properties stay as they are:
  they are the code's slips.
* **ImGuiInputProofs.** `Sees` says that the helper sees the pad (the window is open
  whenever it reads) and what its two states hold in each phase of a frame, `Owned`
  what a game thread's read may still get after each of its tests, and `Followed`
  which read the keys stand for. The three properties follow for any number
  of threads, buttons and mapped buttons.

* **DebugConsole**, in the same module. `Apart` says that each thread in a container
  stores at the container's end, `LinesKept` that every line start is an offset or is
  *covered*: a thread that has appended it, or is about to write it, will come to its
  newline before it stops scanning. Text that is announced and not written yet is
  `Garbage` only where a thread is still to format. That is inductive for any number of
  overlapping log calls as long as no
  two of them meet in a container, and a clear starts it anew. With one call at a time
  `Ascending` and `Colours` relate the offsets and the colours to the call in
  progress, and `Drawing` keeps what an undisturbed draw has taken.
* **HookInstallProofs.** `PagesInv`: claims are disjoint regions, an alias belongs to
  the claim around it, and a mapping in progress has done the ranges before its
  cursor. `PatchingOK` bounds what is stale by the living patcher, `PoolsOK` counts
  the pools. `CodeShape` says which words a function has after its newest hook and,
  if that one is near, after its newest far hook; `KeptShape` says the same of the words
  kept in each trampoline, from the hooks older than it. Hooks nest (`HooksAreNested`)
  because of these shapes: the run of the processor, given as a function of the number
  of its steps, comes from the entry of a hook to the entry of the next older one of
  the same function within three steps; by the least number of hooks for which it would
  not (`ComesToAll`) it comes to all it should, in order; what x17 holds behind a
  way back matters in one place of this, and is right there because no far return
  lies over an even far hook (`ReturnLosesX17`); then it
  runs the game's words (`BodyRuns`), and `Fuel` is enough for all of it. The prover has no
  induction over the naturals, so each of these arguments takes the least
  counterexample (`LeastNat`).

Proved and in no run: the type invariants of these modules,
`MappedModulesAreKnown`, `UnpairedPostfixIsLate`, `PrefixResultNeedsVeto`,
`AcceptedEventsStay`, `LateEventsWait`, `NodesAreCounted`, `RegistrationsAppend`,
`ReferencesAreCompleted`. They were checked by TLC before they were proved, as was
each strengthening; with a proof for all values of the constants a run adds nothing.

Only model-checked: everything under fairness (`OperationsComplete`,
`DispatchEnds`, `RunEventsEnds`, `FaultIsAnswered`), which is out of the prover's
reach. Every safety property of a passing run is proved.

## 6. Not modelled

Four fifths of the repository's lines (58,000 of 71,000) are headers of the game, of
its engine and of the console's SDK, kept for their declarations. They hold
no behaviour of this program, and the share of all lines that is modelled stays
small because of them, however much of the program itself is.

Of the program: string handling (paths, names, extension tests), formatting and the
crash report; the unaligned corners of NRO and NRR layouts; allocation by
plugins; a dispatch nested in one of the same holder; the reallocation of vectors
under another thread's reader.

* **Module relocation, memory layout** (`lib/reloc`, `mem_layout.cpp`): sequential
  parsing of tables, once, before there is a second thread or a hook.
* **Process handle**: a synchronous request to a thread that is then waited for;
  every failure aborts.
* **Instruction encoders**: bit layouts fixed by types.
* **Start-up, diagnostics, kernel bindings**: system-call stubs and the abort path.
* **Renderer of the ImGui backend**: its state is the graphics driver's.
* **Logger's network sink**: socket calls at start-up, of which only the first
  result matters.

## 7. Plan

Done: `PluginLoader` with `PluginLifecycle`, `HookEvent`, `ExceptionHandler`,
`FsHelper`, `ModEvent`, `FixInstructions`, `EventThreads`, `RwPages` with
`HookInstall`, `DebugConsole`, `ImGuiInput`, and the proofs above. Left, in this
order:

1. Refinement of a dispatch to "ask all, call, tell all", and of `EventThreads`
   to `HookEvent` where registrations and unloads take turns.
2. The same threads around a mod event holder, whose map is in the heap that an
   unload resets.
