---------------------------- MODULE HookInstall ----------------------------
(***************************************************************************)
(* Start-up's changes to the game's code: patches through the alias of the *)
(* main module (lib/patch), then hooks (lib/hook/nx64), each through a     *)
(* window of its own.  A hook overwrites the beginning of a function and   *)
(* may keep the instructions it overwrote in a trampoline; several hooks   *)
(* may sit on one function.  FixInstructions has the relocation in detail; *)
(* here the words of a trampoline are what they do.                        *)
(***************************************************************************)
EXTENDS RwPages, Sequences

CONSTANTS Functions,      \* the addresses of the functions, in words
          FunctionWords,  \* their length
          MainPages,      \* pages of the main module, patched through one alias
          HookMax,        \* trampolines the pool is said to have
          InlineMax,      \* entries for inline hooks
          MaxHooks,       \* bound: hooks
          MaxPatches      \* bound: words written by one patcher

(* The aliases that stay follow the main module; a page holds what a hook  *)
(* overwrites, and so does every function that is hooked; functions do not *)
(* overlap.                                                                *)
ASSUME HooksAssumption ==
  /\ {"patcher", "jit", "inline", "window"} \subseteq Claims
  /\ PageWords >= 5 /\ MainPages \in Nat \ {0} /\ MainPages + 2 <= CodePages
  /\ FunctionWords \in Nat /\ FunctionWords >= 5
  /\ \A f \in Functions : f \in Nat /\ f + FunctionWords <= MainPages * PageWords
  /\ \A f, g \in Functions : f < g => f + FunctionWords <= g
  /\ HookMax \in Nat /\ InlineMax \in Nat /\ MaxHooks \in Nat /\ MaxPatches \in Nat

VARIABLES
  code,     \* the main module's words
  hooks,    \* the hooks so far: kind, function, whether near, what it keeps,
            \* whether its trampoline's way back is a direct branch
  step,     \* where the installation of the last hook is
  entries,  \* the inline hooks whose entry has been written
  patcher,  \* the patcher object that is alive
  patched,  \* how many words it has written
  stale     \* words the instruction cache may still have as they were

installed == <<code, hooks, step, entries>>
patching == <<patcher, patched>>
vars == <<pages, installed, patching, stale>>

Words == 0 .. MainPages * PageWords - 1
NoPatcher == [kind |-> "none", start |-> 0, current |-> 0]

(* A word is an instruction the game had, or one a hook wrote; the last    *)
(* two hold a hook: a branch to its callback, half of a pointer to it.     *)
Orig(w) == <<"orig", w>>
Nop == <<"nop", 0>>
LoadX17 == <<"ldr", 0>>
BranchX17 == <<"br", 0>>
Branch(h) == <<"b", h>>
Literal(h) == <<"lit", h>>

Init ==
  /\ InitPages
  /\ code = [w \in Words |-> Orig(w)]
  /\ hooks = <<>> /\ step = "idle" /\ entries = {}
  /\ patcher = NoPatcher /\ patched = 0 /\ stale = {}

Ready(i) == claim[i] # NoClaim /\ current = NoneRunning /\ ~stopped

-----------------------------------------------------------------------------
(* exl_init and exl::hook::Initialize: the aliases that stay.              *)

InitPatcherImpl ==
  /\ Construct("patcher", 0, MainPages * PageWords)
  /\ UNCHANGED <<installed, patching, stale>>

InitializeJit ==
  /\ Ready("patcher") /\ Construct("jit", MainPages * PageWords, PageWords)
  /\ UNCHANGED <<installed, patching, stale>>

InitializeInline ==
  /\ Ready("jit") /\ Construct("inline", (MainPages + 1) * PageWords, PageWords)
  /\ UNCHANGED <<installed, patching, stale>>

-----------------------------------------------------------------------------
(* Patchers; a patched instruction is the function's own from then on.  A  *)
(* stream writes where it stands and flushes from where it began; a random *)
(* access patcher keeps the lowest and the highest address.                *)

BeginPatch(kind, w) ==
  /\ Ready("inline") /\ hooks = <<>> /\ patcher = NoPatcher
  /\ patcher' = [kind |-> kind, start |-> w, current |-> w]
  /\ UNCHANGED <<pages, installed, patched, stale>>

WriteStream ==
  /\ patcher.kind = "stream" /\ patched < MaxPatches /\ patcher.current \in Words
  /\ stale' = stale \cup {patcher.current}
  /\ patcher' = [patcher EXCEPT !.current = @ + 1]
  /\ patched' = patched + 1
  /\ UNCHANGED <<pages, installed>>

Unset == patcher.start = patcher.current

WriteRandom(w) ==
  /\ patcher.kind = "random" /\ patched < MaxPatches
  /\ stale' = stale \cup {w}
  /\ patcher' = [patcher EXCEPT
       !.start = IF Unset \/ w < @ THEN w ELSE @,
       !.current = IF Unset \/ w + 1 > @ THEN w + 1 ELSE @]
  /\ patched' = patched + 1
  /\ UNCHANGED <<pages, installed>>

Flush == stale' = stale \ (patcher.start .. patcher.current - 1)

(* Mutant: what was written is not flushed before moving on.               *)
SeekMutant(w) ==
  /\ patcher.kind = "stream" /\ w # patcher.current
  /\ patcher' = [patcher EXCEPT !.start = w, !.current = w]
  /\ UNCHANGED <<pages, installed, patched, stale>>

Seek(w) ==
  /\ patcher.kind = "stream" /\ w # patcher.current
  /\ Flush
  /\ patcher' = [patcher EXCEPT !.start = w, !.current = w]
  /\ UNCHANGED <<pages, installed, patched>>

EndPatch ==
  /\ patcher # NoPatcher
  /\ Flush
  /\ patcher' = NoPatcher /\ patched' = 0
  /\ UNCHANGED <<pages, installed>>

-----------------------------------------------------------------------------
(* Hook and HookInline: a trampoline and an entry are taken, the window is *)
(* opened, the words are kept and overwritten, the window is closed.       *)

Trampolines == {h \in DOMAIN hooks : hooks[h].kind # "replace"}
Inlines == {h \in DOMAIN hooks : hooks[h].kind = "inline"}

(* Mutant: the pool of entries is off by one, as that of trampolines is.   *)
EntriesLeftMutant == Cardinality(Inlines) <= InlineMax

EntriesLeft == Cardinality(Inlines) < InlineMax

(* The index of the next trampoline is compared by i > HookMax.            *)
TrampolinesLeft == Cardinality(Trampolines) <= HookMax

(* How far the callback is from the function, and the trampoline from what *)
(* it returns to, decides which form of jump each gets.                    *)
BeginHook(kind, f, near, direct) ==
  /\ Ready("inline") /\ patcher = NoPatcher /\ step = "idle" /\ Len(hooks) < MaxHooks
  /\ (kind = "inline" => EntriesLeft)
  /\ IF kind = "replace" THEN direct ELSE TrampolinesLeft
  /\ hooks' = Append(hooks, [kind |-> kind, at |-> f, near |-> near, direct |-> direct,
                             kept |-> <<>>, back |-> f])
  /\ Construct("window", f, IF near THEN 1 ELSE 5)
  /\ step' = "window"
  /\ UNCHANGED <<code, entries, patching, stale>>

(* R_ABORT_UNLESS and EXL_ABORT: no trampoline or no entry is left.        *)
HookAborts(kind) ==
  /\ Ready("inline") /\ patcher = NoPatcher /\ step = "idle"
  /\ (kind = "inline" /\ ~EntriesLeft) \/ (kind # "replace" /\ ~TrampolinesLeft)
  /\ stopped' = TRUE
  /\ UNCHANGED <<claim, reserved, alias, current, installed, patching, stale>>

(* The pointer is aligned: a function at an odd word begins with a nop.    *)
Count(h) == IF h.near THEN 1 ELSE IF h.at % 2 = 1 THEN 5 ELSE 4

(* What __fix_instructions keeps of word w: a load brings its literal.     *)
Fixed(w) == IF code[w] = LoadX17 THEN <<"ldr", code[w + 2][2]>> ELSE code[w]

(* The words that lead to the callback of hook n.                          *)
Patch(n, h) ==
  IF h.near THEN <<Branch(n)>>
  ELSE (IF Count(h) = 5 THEN <<Nop>> ELSE <<>>)
         \o <<LoadX17, BranchX17, Literal(n), Literal(n)>>

Flushed(h) == h.at .. h.at + (IF h.near THEN 0 ELSE 4)

Overwrite(n, h) ==
  LET written == h.at .. h.at + Count(h) - 1 IN
  /\ code' = [w \in Words |-> IF w \in written THEN Patch(n, h)[w - h.at + 1] ELSE code[w]]
  /\ stale' = (stale \cup written) \ Flushed(h)

(* Mutant: the function is overwritten before its words are kept.          *)
HookFuncImplMutant ==
  LET n == Len(hooks)  h == hooks[n] IN
  /\ step = "window" /\ Ready("window")
  /\ Overwrite(n, h)
  /\ hooks' = IF h.kind = "replace" THEN hooks
              ELSE [hooks EXCEPT ![n].kept = [k \in 1 .. Count(h) |-> code'[h.at + k - 1]],
                                 ![n].back = h.at + Count(h)]
  /\ step' = "written"
  /\ UNCHANGED <<pages, entries, patching>>

HookFuncImpl ==
  LET n == Len(hooks)  h == hooks[n] IN
  /\ step = "window" /\ Ready("window")
  /\ hooks' = IF h.kind = "replace" THEN hooks
              ELSE [hooks EXCEPT ![n].kept = [k \in 1 .. Count(h) |-> Fixed(h.at + k - 1)],
                                 ![n].back = h.at + Count(h)]
  /\ Overwrite(n, h)
  /\ step' = "written"
  /\ UNCHANGED <<pages, entries, patching>>

CloseWindow ==
  /\ step = "written" /\ Destroy("window")
  /\ step' = "closed"
  /\ UNCHANGED <<code, hooks, entries, patching, stale>>

(* The hook's trampoline is returned; HookInline now writes its entry.     *)
EndHook ==
  /\ step = "closed" /\ current = NoneRunning
  /\ entries' = entries \cup (Inlines \cap {Len(hooks)})
  /\ step' = "idle"
  /\ UNCHANGED <<pages, code, hooks, patching, stale>>

Mapping == (MapRange \/ UnmapRange \/ RangeFails) /\ UNCHANGED <<installed, patching, stale>>

FindAslrFails ==
  /\ \/ FindFails("patcher")
     \/ Ready("patcher") /\ FindFails("jit")
     \/ Ready("jit") /\ FindFails("inline")
     \/ Ready("inline") /\ patcher = NoPatcher /\ step = "idle" /\ FindFails("window")
  /\ UNCHANGED <<installed, patching, stale>>

Stopped == stopped /\ UNCHANGED vars

Kinds == {"trampoline", "replace", "inline"}

Next ==
  \/ InitPatcherImpl \/ InitializeJit \/ InitializeInline
  \/ Mapping \/ FindAslrFails \/ Stopped
  \/ \E w \in Words : \/ \E kind \in {"stream", "random"} : BeginPatch(kind, w)
                      \/ WriteRandom(w) \/ Seek(w)
  \/ WriteStream \/ EndPatch
  \/ \E kind \in Kinds :
       \/ HookAborts(kind)
       \/ \E f \in Functions, near, direct \in BOOLEAN : BeginHook(kind, f, near, direct)
  \/ HookFuncImpl \/ CloseWindow \/ EndHook

Spec == Init /\ [][Next]_vars

-----------------------------------------------------------------------------
(* Running a function: a place is a word of the code or of a trampoline    *)
(* (the hook's number), with what x17 points to; seen are the callbacks    *)
(* and the game's own instructions met on the way.                         *)

Place(tramp, at, x17, seen) == [tramp |-> tramp, at |-> at, x17 |-> x17, seen |-> seen]
End == -1
Lost == -2

InCode(f, at) == at \in f .. f + FunctionWords - 1

EnterHook(p, h) ==
  IF h = 0 \/ (hooks[h].kind = "inline" /\ h \notin entries) THEN [p EXCEPT !.tramp = Lost]
  ELSE IF hooks[h].kind = "replace" THEN Place(End, 0, p.x17, Append(p.seen, h))
  ELSE Place(h, 1, p.x17, Append(p.seen, h))

(* Behind what it keeps a trampoline returns: by a branch, or far away by  *)
(* LDR X17, BR X17 and a pointer, which leads to no callback.              *)
After(p) ==
  IF p.tramp > 0 /\ p.at = Len(hooks[p.tramp].kept)
  THEN [p EXCEPT !.tramp = 0, !.at = hooks[p.tramp].back,
                 !.x17 = IF hooks[p.tramp].direct THEN @ ELSE 0]
  ELSE [p EXCEPT !.at = @ + 1]

RunWord(f, p) ==
  LET word == IF p.tramp = 0 THEN code[p.at] ELSE hooks[p.tramp].kept[p.at] IN
  IF p.tramp = 0 /\ ~InCode(f, p.at) THEN [p EXCEPT !.tramp = End]
  ELSE CASE word[1] = "orig" -> After([p EXCEPT !.seen = Append(@, word)])
    [] word[1] = "nop" -> After(p)
    [] word[1] = "ldr" -> After([p EXCEPT !.x17 = IF word[2] = 0 THEN code[p.at + 2][2] ELSE word[2]])
    [] word[1] = "br" -> EnterHook(p, p.x17)
    [] word[1] = "b" -> EnterHook(p, word[2])
    [] OTHER -> [p EXCEPT !.tramp = Lost]

Fuel == (Len(hooks) + 1) * (FunctionWords + 6)

Run(f) ==
  LET run[k \in 0 .. Fuel] ==
        IF k = 0 THEN Place(0, f, 0, <<>>)
        ELSE LET p == run[k - 1] IN IF p.tramp < 0 THEN p ELSE RunWord(f, p)
  IN run[Fuel]

-----------------------------------------------------------------------------
(* Every variable has its type.                                            *)
TypeOK ==
  /\ \A i \in Claims : claim[i] # NoClaim =>
       claim[i].rw \in Aslr /\ claim[i].rw + AlignedSize(claim[i]) <= AslrPages
  /\ alias \in [Aslr -> 0 .. CodePages - 1 \cup {Unmapped}]
  /\ step \in {"idle", "window", "written", "closed"}
  /\ Cardinality(Trampolines) <= HookMax + 1 /\ Cardinality(Inlines) <= InlineMax
  /\ patched \in 0 .. MaxPatches /\ stale \subseteq Words
  /\ stopped \in BOOLEAN /\ DOMAIN code = Words

(* The hooks on f, and those a call of f comes to, because no newer one      *)
(* replaces the function.                                                    *)
HooksOn(f) == {n \in DOMAIN hooks : hooks[n].at = f}

Reached(f) ==
  {n \in HooksOn(f) : \A m \in HooksOn(f) : m > n => hooks[m].kind # "replace"}

Replaced(f) == \E n \in HooksOn(f) : hooks[n].kind = "replace"

(* A hook that branches directly lies under one that overwrites more: its    *)
(* trampoline returns into the other's words.                                *)
FarOverNear(f) ==
  \E i, j \in HooksOn(f) :
    i < j /\ hooks[i].near /\ ~hooks[j].near /\ hooks[i].kind # "replace"

(* It lies right over one that begins with LDR X17, and its trampoline uses  *)
(* x17 to return to the BR X17 behind that (lines 498-511).                  *)
ReturnLosesX17(f) ==
  \E i, j \in HooksOn(f) :
    /\ i < j /\ \A m \in HooksOn(f) : ~(i < m /\ m < j)
    /\ f % 2 = 0 /\ ~hooks[i].near
    /\ hooks[j].near /\ hooks[j].kind # "replace" /\ ~hooks[j].direct

(* Calling a function runs the callbacks of its hooks, newest first, down  *)
(* to one that replaces it, or to the game's instructions, each once and   *)
(* in order: hooks nest, in any mixture of near and far, of kinds, of      *)
(* alignments and of ways back, except for a far hook over a near one and  *)
(* for a way back that destroys the x17 it returns to (hook_impl.cpp       *)
(* 498-511, 558-605).                                                      *)
HooksNest ==
  step = "idle" /\ ~stopped =>
    \A f \in Functions : ~FarOverNear(f) /\ ~ReturnLosesX17(f) =>
      LET end == Run(f)
          body == IF Replaced(f) THEN <<>> ELSE [k \in 1 .. FunctionWords |-> Orig(f + k - 1)]
          calls == [k \in 1 .. Len(end.seen) - Len(body) |-> end.seen[k]]
      IN /\ end.tramp = End
         /\ end.seen = calls \o body
         /\ {calls[k] : k \in DOMAIN calls} = Reached(f)
         /\ \A k, l \in DOMAIN calls : k < l => calls[k] > calls[l]

(* What the processor may still have cached is what the living patcher     *)
(* will flush: nothing is left over by moving, by destroying it, or by a   *)
(* hook.                                                                   *)
CodeIsCoherent == stale \subseteq patcher.start .. patcher.current - 1
=============================================================================
