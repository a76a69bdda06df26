-------------------------- MODULE ImGuiInputProofs --------------------------
(* The safety of the ImGui front end: ImGuiInput for any threads of the     *)
(* game and any buttons, and its log window, DebugConsole, for any threads  *)
(* that log and any messages.                                               *)
EXTENDS ImGuiInput, DebugConsole, TLAPS

Read == [at : {"out", "test", "toggle", "done"}, got : {"pad", "blank"},
         owner : SUBSET BOOLEAN, window : BOOLEAN]

LEMMA TypeInit == Init => TypeOK
<1> SUFFICES ASSUME Init PROVE TypeOK
  OBVIOUS
<1>1. game \in [GameThreads -> Read]
  <2>1. NotReading \in Read
    BY DEF NotReading, Read
  <2> QED
    BY <2>1 DEF Init
<1>2. /\ hasInitImGui \in BOOLEAN /\ ~hasInitImGui
      /\ \A b \in {isReadInput, toggleInput, isEnabled, chords, lefts} : b \in BOOLEAN
  BY DEF Init
<1>3. /\ captured = {} /\ frame = "out" /\ keys = {}
      /\ \A s \in {pad, prev, cur, sample, before, missed} : s = {}
  BY DEF Init
<1> QED
  BY <1>1, <1>2, <1>3 DEF TypeOK, Read

LEMMA TypeStep ==
  ASSUME TypeOK, [Next]_vars
  PROVE  TypeOK'
<1> USE ButtonsAssumption
<1>1. /\ captured' \subseteq {"device", "queue", "cmdBuf"} /\ hasInitImGui' \in BOOLEAN
      /\ hasInitImGui' => captured' = {"device", "queue", "cmdBuf"}
      /\ frame' \in {"out", "style", "hid", "close", "finish"}
      /\ frame' = "out" \/ hasInitImGui'
  <2>1. CASE \E object \in {"device", "queue", "cmdBuf"} : Initialize(object)
    BY <2>1 DEF TypeOK, Initialize
  <2>2. CASE ~ \E object \in {"device", "queue", "cmdBuf"} : Initialize(object)
    <3>1. UNCHANGED start
      BY <2>2 DEF Next, vars, UsePad, BeginUpdate, OpenWindow, ReadPad, CloseWindow,
                  FinishUpdate, GameReads, TestRead, TestToggle, GameUses
    <3>2. \/ frame' = frame
          \/ frame' \in {"out", "style", "hid", "close", "finish"} /\ hasInitImGui
      BY <2>2 DEF TypeOK, Next, vars, UsePad, BeginUpdate, OpenWindow, ReadPad, CloseWindow,
                  FinishUpdate, GameReads, TestRead, TestToggle, GameUses
    <3>3. captured' = captured /\ hasInitImGui' = hasInitImGui
      BY <3>1 DEF start
    <3>4. /\ captured \subseteq {"device", "queue", "cmdBuf"} /\ hasInitImGui \in BOOLEAN
          /\ hasInitImGui => captured = {"device", "queue", "cmdBuf"}
          /\ frame \in {"out", "style", "hid", "close", "finish"}
          /\ frame = "out" \/ hasInitImGui
      BY DEF TypeOK
    <3>5. CASE frame' = frame
      BY <3>3, <3>4, <3>5
    <3>6. CASE frame' \in {"out", "style", "hid", "close", "finish"} /\ hasInitImGui
      BY <3>3, <3>4, <3>6
    <3> QED
      BY <3>2, <3>5, <3>6
  <2> QED
    BY <2>1, <2>2
<1>2. \A s \in {pad', prev', cur', sample', before', missed'} : s \subseteq Buttons
  BY DEF TypeOK, Next, vars, start, helper, shown, history, Initialize, UsePad, BeginUpdate,
         OpenWindow, ReadPad, CloseWindow, FinishUpdate, Disabled, GameReads, TestRead,
         TestToggle, GameUses
<1>3. keys' \subseteq Mapped
  BY DEF TypeOK, Next, vars, shown, Initialize, UsePad, BeginUpdate, OpenWindow, ReadPad,
         CloseWindow, FinishUpdate, GameReads, TestRead, TestToggle, GameUses
<1>4. \A b \in {isReadInput', toggleInput', isEnabled', chords', lefts'} : b \in BOOLEAN
  BY DEF TypeOK, Next, vars, start, helper, shown, history, Initialize, UsePad, BeginUpdate,
         OpenWindow, ReadPad, CloseWindow, FinishUpdate, GameReads, TestRead, TestToggle,
         GameUses
<1>5. game' \in [GameThreads -> Read]
  <2>1. game \in [GameThreads -> Read] /\ toggleInput' \in BOOLEAN /\ toggleInput \in BOOLEAN
    BY <1>4 DEF TypeOK, Read
  <2>2. CASE OpenWindow
    <3>1. \A g \in GameThreads : game[g] \in Read /\ [game[g] EXCEPT !.window = TRUE] \in Read
      BY <2>1 DEF Read
    <3> QED
      BY <2>2, <3>1 DEF OpenWindow, Meet
  <2>3. CASE FinishUpdate
    <3>1. \A g \in GameThreads :
            game[g] \in Read /\ [game[g] EXCEPT !.owner = @ \cup {toggleInput'}] \in Read
      BY <2>1 DEF Read
    <3> QED
      BY <2>3, <3>1 DEF FinishUpdate
  <2>4. CASE \E g \in GameThreads : GameReads(g) \/ TestRead(g) \/ TestToggle(g) \/ GameUses(g)
    <3>1. PICK g \in GameThreads : GameReads(g) \/ TestRead(g) \/ TestToggle(g) \/ GameUses(g)
      BY <2>4
    <3>2. InHelper \in BOOLEAN
      BY DEF InHelper
    <3> DEFINE put(x) == game' = [game EXCEPT ![g] = x] /\ x \in Read
    <3>3. CASE GameReads(g)
      <4>1. put([at |-> "test", got |-> "pad", owner |-> {toggleInput}, window |-> InHelper])
        BY <2>1, <3>2, <3>3 DEF GameReads, Read
      <4> QED
        BY <2>1, <4>1
    <3>4. CASE TestRead(g)
      BY <2>1, <3>4 DEF TestRead, Read
    <3>5. CASE TestToggle(g)
      BY <2>1, <3>5 DEF TestToggle, Read
    <3>6. CASE GameUses(g)
      <4>1. put(NotReading)
        BY <3>6 DEF GameUses, NotReading, Read
      <4> QED
        BY <2>1, <4>1
    <3> QED
      BY <3>1, <3>3, <3>4, <3>5, <3>6
  <2>5. CASE ~ (OpenWindow \/ FinishUpdate
                \/ \E g \in GameThreads : GameReads(g) \/ TestRead(g) \/ TestToggle(g)
                                          \/ GameUses(g))
    BY <2>1, <2>5 DEF Next, vars, Initialize, UsePad, BeginUpdate, ReadPad, CloseWindow
  <2> QED
    BY <2>2, <2>3, <2>4, <2>5
<1> QED
  BY <1>1, <1>2, <1>3, <1>4, <1>5 DEF TypeOK, Read

(* Every variable has its type (InputHelper.h, imgui_nvn.cpp 60-82).        *)
THEOREM TypeCorrect == Spec => []TypeOK
BY TypeInit, TypeStep, PTL DEF Spec

-----------------------------------------------------------------------------
(* The helper sees the pad: while it reads nothing is blanked, and once the *)
(* windows own the pad everybody else is blinded.  What the two states of   *)
(* the pad hold is what was read this time and the time before.             *)
Sees ==
  /\ InHelper => isReadInput
  /\ frame = "finish" => ~isReadInput
  /\ toggleInput /\ ~InHelper => ~isReadInput
  /\ cur = sample
  /\ frame \in {"style", "hid"} => prev = cur
  /\ frame \in {"close", "finish"} => prev = before

LEMMA SeesStep ==
  ASSUME TypeOK, Sees, [Next]_vars
  PROVE  Sees'
<1>1. CASE ReadPad
  <2>1. frame = "hid" /\ isReadInput /\ frame' = "close" /\ isReadInput' = isReadInput
        /\ prev' = prev /\ prev = cur /\ cur = sample /\ before' = sample
    BY <1>1 DEF ReadPad, Sees, InHelper
  <2>2. cur' = sample'
    BY <1>1, <2>1 DEF ReadPad, Disabled
  <2> QED
    BY <2>1, <2>2 DEF Sees, InHelper
<1>2. CASE BeginUpdate \/ OpenWindow \/ CloseWindow \/ FinishUpdate
  BY <1>2 DEF Sees, InHelper, BeginUpdate, OpenWindow, CloseWindow, FinishUpdate, history
<1>3. CASE UNCHANGED <<helper, frame, sample, before>>
  BY <1>3 DEF Sees, InHelper, helper
<1> QED
  BY <1>1, <1>2, <1>3 DEF Next, vars, history, Initialize, UsePad, GameReads, TestRead,
                          TestToggle, GameUses

-----------------------------------------------------------------------------
(* A read in progress knows the present owner, and whether it met the       *)
(* helper's read; its buffer is full until toggleInput has been tested.     *)
Owned(g) ==
  game[g].at # "out" =>
    /\ toggleInput \in game[g].owner
    /\ InHelper => game[g].window
    /\ game[g].at # "done" => game[g].got = "pad"
    /\ game[g].at = "done" =>
         /\ TRUE \notin game[g].owner => game[g].got = "pad"
         /\ FALSE \notin game[g].owner /\ ~game[g].window => game[g].got = "blank"

LEMMA OwnedByGame ==
  ASSUME TypeOK, Sees, NEW g \in GameThreads, NEW h \in GameThreads, Owned(h),
         GameReads(g) \/ TestRead(g) \/ TestToggle(g) \/ GameUses(g)
  PROVE  Owned(h)'
<1>1. /\ game \in [GameThreads -> Read] /\ toggleInput \in BOOLEAN
      /\ toggleInput' = toggleInput /\ InHelper' = InHelper
  BY DEF TypeOK, Read, GameReads, TestRead, TestToggle, GameUses, InHelper, helper
<1>2. CASE h # g
  <2>1. game'[h] = game[h]
    BY <1>1, <1>2 DEF GameReads, TestRead, TestToggle, GameUses
  <2> QED
    BY <1>1, <2>1 DEF Owned
<1>3. CASE h = g /\ GameReads(g)
  <2>1. game'[g] = [at |-> "test", got |-> "pad", owner |-> {toggleInput}, window |-> InHelper]
    BY <1>1, <1>3 DEF GameReads
  <2> QED
    BY <1>1, <1>3, <2>1 DEF Owned
<1>4. CASE h = g /\ TestRead(g)
  <2>1. game'[g] = [game[g] EXCEPT !.at = IF isReadInput THEN "done" ELSE "toggle"]
        /\ game[g] \in Read /\ game[g].at = "test"
    BY <1>1, <1>4 DEF TestRead
  <2>2. /\ game'[g].at = (IF isReadInput THEN "done" ELSE "toggle")
        /\ game'[g].owner = game[g].owner /\ game'[g].got = game[g].got
        /\ game'[g].window = game[g].window
    BY <2>1 DEF Read
  <2>3. toggleInput \in game[g].owner /\ (InHelper => game[g].window) /\ game[g].got = "pad"
    BY <1>4, <2>1 DEF Owned
  <2>4. isReadInput => ~ (FALSE \notin game[g].owner /\ ~game[g].window)
    BY <1>1, <2>3 DEF Sees
  <2> QED
    BY <1>1, <1>4, <2>2, <2>3, <2>4 DEF Owned
<1>5. CASE h = g /\ TestToggle(g)
  <2>1. game[g] \in Read /\ game[g].at = "toggle"
    BY <1>1, <1>5 DEF TestToggle
  <2>2. /\ game'[g].at = "done"
        /\ game'[g].owner = game[g].owner /\ game'[g].window = game[g].window
        /\ game'[g].got = (IF toggleInput THEN "blank" ELSE game[g].got)
    BY <1>1, <1>5 DEF TestToggle
  <2>3. toggleInput \in game[g].owner /\ (InHelper => game[g].window) /\ game[g].got = "pad"
    BY <1>5, <2>1 DEF Owned
  <2> QED
    BY <1>1, <1>5, <2>2, <2>3 DEF Owned
<1>6. CASE h = g /\ GameUses(g)
  BY <1>1, <1>6 DEF Owned, GameUses, NotReading
<1> QED
  BY <1>2, <1>3, <1>4, <1>5, <1>6

LEMMA OwnedByPresenter ==
  ASSUME TypeOK, NEW h \in GameThreads, Owned(h), OpenWindow \/ FinishUpdate
  PROVE  Owned(h)'
<1>1. game \in [GameThreads -> Read]
  BY DEF TypeOK, Read
<1>2. CASE OpenWindow
  <2>1. game'[h] = (IF game[h].at = "out" THEN game[h] ELSE [game[h] EXCEPT !.window = TRUE])
        /\ toggleInput' = toggleInput /\ game[h] \in Read
    BY <1>1, <1>2 DEF OpenWindow, Meet
  <2>2. /\ game'[h].at = game[h].at /\ game'[h].owner = game[h].owner
        /\ game'[h].got = game[h].got /\ (game[h].at # "out" => game'[h].window = TRUE)
    BY <2>1 DEF Read
  <2> QED
    BY <2>1, <2>2 DEF Owned
<1>3. CASE FinishUpdate
  <2>1. game'[h] = (IF game[h].at = "out" THEN game[h]
                    ELSE [game[h] EXCEPT !.owner = @ \cup {toggleInput'}])
        /\ game[h] \in Read /\ ~InHelper'
    BY <1>1, <1>3 DEF FinishUpdate, InHelper
  <2>2. /\ game'[h].at = game[h].at /\ game'[h].got = game[h].got
        /\ game'[h].window = game[h].window
        /\ game[h].at # "out" => game'[h].owner = game[h].owner \cup {toggleInput'}
    BY <2>1 DEF Read
  <2> QED
    BY <2>1, <2>2 DEF Owned
<1> QED
  BY <1>2, <1>3

LEMMA OwnedStep ==
  ASSUME TypeOK, Sees, [Next]_vars, NEW h \in GameThreads, Owned(h)
  PROVE  Owned(h)'
<1>1. CASE OpenWindow \/ FinishUpdate
  BY <1>1, OwnedByPresenter
<1>2. CASE \E g \in GameThreads : GameReads(g) \/ TestRead(g) \/ TestToggle(g) \/ GameUses(g)
  BY <1>2, OwnedByGame
<1>3. CASE UNCHANGED <<game, toggleInput>> /\ (InHelper' => InHelper)
  BY <1>3 DEF Owned
<1>4. \/ OpenWindow \/ FinishUpdate
      \/ \E g \in GameThreads : GameReads(g) \/ TestRead(g) \/ TestToggle(g) \/ GameUses(g)
      \/ UNCHANGED <<game, toggleInput>> /\ (InHelper' => InHelper)
  BY DEF Next, vars, helper, InHelper, Initialize, UsePad, BeginUpdate, ReadPad, CloseWindow
<1> QED
  BY <1>1, <1>2, <1>3, <1>4

(* A game thread and the windows never both get the buttons, nor neither of *)
(* them, unless the pad changed hands during the read or the helper was     *)
(* reading too (imgui_nvn.cpp 105-112).                                     *)
THEOREM OneOwner == Spec => []PadHasOneOwner
<1> DEFINE Inv == Sees /\ \A h \in GameThreads : Owned(h)
<1>1. Init => Inv
  <2>1. Init => Sees
    BY DEF Init, Sees, InHelper
  <2>2. ASSUME Init, NEW h \in GameThreads PROVE game[h].at = "out"
    BY <2>2 DEF Init, NotReading
  <2> QED
    BY <2>1, <2>2 DEF Owned
<1>2. TypeOK /\ Inv /\ [Next]_vars => Inv'
  BY SeesStep, OwnedStep
<1>3. Inv => PadHasOneOwner
  BY DEF Owned, PadHasOneOwner
<1> QED
  BY <1>1, <1>2, <1>3, TypeCorrect, PTL DEF Spec

-----------------------------------------------------------------------------
(* The read before the one that counts for ImGui's keys.                    *)
Handled == IF frame \in {"close", "finish"} THEN before ELSE sample

Followed == \A b \in Mapped \ missed : b \in keys <=> b \in Handled

(* Between frames ImGui's keys are the buttons last read, but for those     *)
(* that changed while the game had the pad (imgui_impl_nvn.cpp 577-600).    *)
THEOREM KeysAreRight == Spec => []KeysFollowThePad
<1> DEFINE Inv == Sees /\ Followed
<1>1. Init => Inv
  BY DEF Init, Sees, InHelper, Followed, Handled
<1>2. TypeOK /\ Inv /\ [Next]_vars => Inv'
  <2> SUFFICES ASSUME TypeOK, Sees, Followed, [Next]_vars
               PROVE  Followed'
    BY SeesStep
  <2>1. CASE FinishUpdate
    <3>1. Presses = sample \ before /\ Releases = before \ sample
      BY <2>1 DEF FinishUpdate, Sees, Presses, Releases
    <3>2. Handled = before /\ Handled' = sample
      BY <2>1 DEF FinishUpdate, Handled
    <3>3. CASE toggleInput'
      <4>1. keys' = (keys \cup (Presses \cap Mapped)) \ Releases
            /\ missed' = missed \ ((sample \ before) \cup (before \ sample))
        BY <2>1, <3>3 DEF FinishUpdate
      <4> QED
        BY <3>1, <3>2, <4>1 DEF Followed
    <3>4. CASE ~toggleInput'
      <4>1. keys' = keys /\ missed' = missed \cup ((sample \ before) \cup (before \ sample))
        BY <2>1, <3>4 DEF FinishUpdate
      <4> QED
        BY <3>2, <4>1 DEF Followed
    <3> QED
      BY <3>3, <3>4
  <2>2. CASE ~FinishUpdate
    <3>1. UNCHANGED <<keys, missed>> /\ Handled' = Handled
      BY <2>2 DEF Handled, Next, vars, shown, history, Initialize, UsePad, BeginUpdate,
                  OpenWindow, ReadPad, CloseWindow, GameReads, TestRead, TestToggle, GameUses
    <3> QED
      BY <3>1 DEF Followed
  <2> QED
    BY <2>1, <2>2
<1>3. Inv => KeysFollowThePad
  BY DEF Followed, Handled, KeysFollowThePad
<1> QED
  BY <1>1, <1>2, <1>3, TypeCorrect, PTL DEF Spec

(* The pad changes hands once per chord, the windows switch once per press  *)
(* (InputHelper.cpp 81-83, imgui_nvn.cpp 183-186).                          *)
THEOREM SwitchesAreExact == Spec => []SwitchesCountPresses
<1> DEFINE Inv == Sees /\ toggleInput = chords /\ isEnabled = lefts
<1>1. Init => Inv
  BY DEF Init, Sees, InHelper
<1>2. TypeOK /\ Inv /\ [Next]_vars => Inv'
  <2> SUFFICES ASSUME TypeOK, Inv, [Next]_vars
               PROVE  toggleInput' = chords' /\ isEnabled' = lefts'
    BY SeesStep
  <2>1. CASE FinishUpdate
    <3>1. cur = sample /\ Presses = sample \ before
      BY <2>1 DEF FinishUpdate, Sees, Presses
    <3>2. IsChord <=> Both(sample) /\ ~Both(before)
      BY <3>1 DEF IsChord, Both
    <3>3. toggleInput' = chords'
      BY <2>1, <3>2 DEF FinishUpdate
    <3>4. isEnabled' = lefts'
      BY <2>1, <3>1 DEF FinishUpdate
    <3> QED
      BY <3>3, <3>4
  <2>2. CASE ~FinishUpdate
    BY <2>2 DEF Next, vars, helper, shown, history, Initialize, UsePad, BeginUpdate,
                OpenWindow, ReadPad, CloseWindow, GameReads, TestRead, TestToggle, GameUses
  <2> QED
    BY <2>1, <2>2
<1>3. Inv => SwitchesCountPresses
  BY DEF SwitchesCountPresses
<1> QED
  BY <1>1, <1>2, <1>3, TypeCorrect, PTL DEF Spec

-----------------------------------------------------------------------------
(* The log window.  Its inductive invariant: what holds whatever runs at    *)
(* once (JobsOK), what holds until two threads meet in a container or the   *)
(* user clears under a log call (Found), what holds while log calls come    *)
(* one at a time (Ascending, Coloured), and what a draw sees (Drawing).     *)

Chars == {Newline, Garbage} \cup UNION {{m[k] : k \in DOMAIN m} : m \in Texts}

Steps == {"size", "append", "format", "newSize", "scan", "offset", "color"}

Jobs == [at: {"idle"} \cup Steps,
         sev: Severities \cup {White}, msg: Texts \cup {<<>>},
         old: Nat, new: Nat, slot: Nat]

Draws == [at: {"out", "clearBuf", "clearOffsets", "first", "pushFirst",
               "clearColors", "cleared", "lines"},
          end: Nat, disturbed: BOOLEAN]

JobsOK ==
  /\ Buf \in Seq(Chars)
  /\ LineOffsets \in Seq(Nat \cup {Garbage})
  /\ draw.at \in {"first", "pushFirst"} \/ LineOffsets # <<>>
  /\ LineColors \in Seq(Severities \cup {White, Garbage})
  /\ logs \in 0 .. MaxLogs /\ clears \in 0 .. MaxClears
  /\ said \in Seq([sev: Severities, msg: Texts]) /\ Len(said) <= logs
  /\ job \in [Threads -> Jobs]
  /\ \A t \in Threads : /\ job[t].at = "offset" => job[t].old < job[t].new
                        /\ job[t].at = "idle" => job[t] = Idle
  /\ draw \in Draws
  /\ {overlapped, torn, guessed, clearedUnder} \subseteq BOOLEAN

Offsets == {LineOffsets[k] : k \in DOMAIN LineOffsets}
AllIdle == \A t \in Threads : job[t] = Idle

(* Thread t is to push an offset p if there is a newline before it. *)
Covers(t, p) ==
  /\ job[t].at \in {"newSize", "scan", "offset"} /\ job[t].old < p
  /\ job[t].at = "newSize" \/ p <= job[t].new

(* The place p of the text has its size, and not yet its character. *)
Unwritten(p) == \E t \in Threads : job[t].at = "format" /\ job[t].slot < p

(* No two threads are inside one container, and each stores at its end. *)
Apart ==
  /\ \A t, u \in Threads :
       /\ job[t].at = job[u].at /\ job[t].at \in {"append", "format", "offset", "color"} =>
            t = u
       /\ ~(job[t].at = "append" /\ job[u].at = "format")
  /\ \A t \in Threads :
       /\ job[t].at = "append" => job[t].slot = Len(Buf)
       /\ job[t].at = "format" => job[t].slot + Len(job[t].msg) = Len(Buf)
       /\ job[t].at = "offset" => job[t].slot = Len(LineOffsets)
       /\ job[t].at = "color" => job[t].slot = Len(LineColors)

(* Where thread t stands in the text. *)
OldAndNewFit(t) ==
  /\ job[t].at \in {"size", "append", "format", "newSize"} => job[t].old <= Len(Buf)
  /\ job[t].at \in {"append", "format"} => job[t].old <= job[t].slot
  /\ job[t].at \in {"scan", "offset"} => job[t].new <= Len(Buf)
  /\ job[t].at = "offset" /\ ~guessed => Buf[job[t].old + 1] = Newline

(* Every line is found or will be, and every offset that was not guessed is *)
(* a line's.                                                                *)
LinesKept ==
  /\ \A p \in 1 .. Len(Buf) : Buf[p] = Garbage <=> Unwritten(p)
  /\ 0 \in Offsets
  /\ ~guessed => Offsets \subseteq LineStarts
  /\ \A p \in LineStarts : p \in Offsets \/ \E t \in Threads : Covers(t, p)
  /\ \A t \in Threads : OldAndNewFit(t)

(* How far a Clear nobody interrupts has come. *)
Emptied ==
  /\ Clearing => AllIdle
  /\ draw.at \in {"clearOffsets", "first", "pushFirst", "clearColors"} => Buf = <<>>
  /\ draw.at \in {"first", "pushFirst"} => LineOffsets = <<>>
  /\ draw.at = "pushFirst" => draw.end = 0
  /\ draw.at = "clearColors" => LineOffsets = <<0>>

Found ==
  /\ ~clearedUnder => Emptied
  /\ ~clearedUnder /\ ~torn => Apart /\ (~Clearing => LinesKept)

Extra == IF clears = 0 THEN 1 ELSE 0

Coloured(n) ==
  /\ Len(LineColors) = n + Extra
  /\ \A k \in 1 .. n : LineColors[k + Extra] = said[k].sev

Ascending ==
  /\ LineOffsets[1] = 0
  /\ \A k, l \in DOMAIN LineOffsets : k < l => LineOffsets[k] < LineOffsets[l]
  /\ \A t \in Threads : job[t].at \notin {"idle", "color"} =>
       \A k \in DOMAIN LineOffsets : LineOffsets[k] <= job[t].old

(* The colour of the message being logged is still to come. *)
Colours ==
  /\ AllIdle => Coloured(Len(said))
  /\ \A t \in Threads : job[t] # Idle =>
       /\ Len(said) >= 1 /\ Coloured(Len(said) - 1)
       /\ job[t].sev = said[Len(said)].sev

Alone ==
  ~overlapped /\ ~clearedUnder =>
    /\ ~torn /\ ~guessed
    /\ \A t, u \in Threads : job[t] # Idle /\ job[u] # Idle => t = u
    /\ Clearing => said = <<>> /\ clears # 0
    /\ ~Clearing => Ascending /\ Colours

Drawing ==
  draw.at = "lines" /\ ~draw.disturbed /\ ~overlapped /\ ~clearedUnder =>
    draw.end = Len(Buf) /\ Offsets = LineStarts

ConsoleInv == JobsOK /\ Found /\ Alone /\ Drawing

(* Put makes a sequence of what it is given, and appends when no one has   *)
(* been in between.                                                        *)
LEMMA PutMakesASequence ==
  ASSUME NEW S, Garbage \in S, NEW s \in Seq(S), NEW tail \in Seq(S), NEW slot \in Nat
  PROVE  /\ Put(s, slot, tail) \in Seq(S)
         /\ Len(Put(s, slot, tail)) = slot + Len(tail)
<1> DEFINE n == slot + Len(tail)
           all == Put(s, slot, tail)
<1>1. n \in Nat
  OBVIOUS
<1>2. all \in [1 .. n -> S]
  BY DEF Put
<1> HIDE DEF n, all
<1>3. all \in Seq(S) /\ Len(all) = n
  BY <1>1, <1>2
<1> QED
  BY <1>3 DEF n, all

Appended(s, tail, all) ==
  /\ DOMAIN all = 1 .. Len(all) /\ Len(all) = Len(s) + Len(tail)
  /\ \A k \in 1 .. Len(s) : all[k] = s[k]
  /\ \A k \in 1 .. Len(tail) : all[Len(s) + k] = tail[k]
  /\ \A k \in 1 .. Len(all) : k \in 1 .. Len(s) \/ k - Len(s) \in 1 .. Len(tail)

LEMMA PutAppends ==
  ASSUME NEW S, NEW s \in Seq(S), NEW tail \in Seq(S)
  PROVE  Appended(s, tail, Put(s, Len(s), tail))
<1> DEFINE all == Put(s, Len(s), tail)
<1>1. Len(s) \in Nat /\ Len(tail) \in Nat
  OBVIOUS
<1>2. DOMAIN all = 1 .. Len(s) + Len(tail)
  BY DEF Put
<1>3. all \in Seq(S)
  <2>1. \A k \in 1 .. Len(s) + Len(tail) : all[k] \in S
    <3> SUFFICES ASSUME NEW k \in 1 .. Len(s) + Len(tail)
                 PROVE  all[k] \in S
      OBVIOUS
    <3>1. CASE k > Len(s)
      <4>1. k - Len(s) \in 1 .. Len(tail)
        BY <1>1, <3>1
      <4>2. all[k] = tail[k - Len(s)]
        BY <3>1 DEF Put
      <4> QED
        BY <4>1, <4>2
    <3>2. CASE ~(k > Len(s))
      <4>1. k \in 1 .. Len(s)
        BY <1>1, <3>2
      <4>2. all[k] = s[k]
        BY <1>1, <3>2, <4>1 DEF Put
      <4> QED
        BY <4>1, <4>2
    <3> QED
      BY <3>1, <3>2
  <2>2. all \in [1 .. Len(s) + Len(tail) -> S]
    BY <2>1 DEF Put
  <2> QED
    BY <1>1, <2>2
<1>4. Len(all) = Len(s) + Len(tail)
  BY <1>1, <1>2, <1>3
<1>5. \A k \in 1 .. Len(s) : all[k] = s[k]
  <2> SUFFICES ASSUME NEW k \in 1 .. Len(s)
               PROVE  all[k] = s[k]
    OBVIOUS
  <2>1. k \in 1 .. Len(s) + Len(tail) /\ ~(k > Len(s)) /\ k <= Len(s)
    BY <1>1
  <2> QED
    BY <2>1 DEF Put
<1>6. \A k \in 1 .. Len(tail) : all[Len(s) + k] = tail[k]
  <2> SUFFICES ASSUME NEW k \in 1 .. Len(tail)
               PROVE  all[Len(s) + k] = tail[k]
    OBVIOUS
  <2>1. Len(s) + k \in 1 .. Len(s) + Len(tail) /\ Len(s) + k > Len(s)
    BY <1>1
  <2>2. (Len(s) + k) - Len(s) = k
    BY <1>1
  <2> QED
    BY <2>1, <2>2 DEF Put
<1>7. \A k \in 1 .. Len(all) : k \in 1 .. Len(s) \/ k - Len(s) \in 1 .. Len(tail)
  BY <1>1, <1>4
<1> HIDE DEF all
<1>8. Appended(s, tail, all)
  BY <1>2, <1>4, <1>5, <1>6, <1>7 DEF Appended
<1> QED
  BY <1>8 DEF all

LEMMA MessagesAreText ==
  ASSUME NEW m \in Texts \cup {<<>>}
  PROVE  /\ m \in Seq(Chars) /\ Len(m) \in Nat
         /\ \A k \in 1 .. Len(m) : m[k] # Garbage
<1>1. CASE m \in Texts
  <2>1. m \in Seq({m[k] : k \in DOMAIN m} \ {Garbage})
    BY <1>1, TextsAssumption
  <2>2. {m[k] : k \in DOMAIN m} \subseteq Chars
    BY <1>1 DEF Chars
  <2>3. /\ Len(m) \in Nat /\ m \in [1 .. Len(m) -> {m[k] : k \in DOMAIN m} \ {Garbage}]
    BY <2>1
  <2> HIDE DEF Chars
  <2>4. m \in [1 .. Len(m) -> Chars]
    BY <2>2, <2>3
  <2> QED
    BY <2>3, <2>4
<1>2. CASE m = <<>>
  BY <1>2
<1> QED
  BY <1>1, <1>2

(* What a step of AddLog makes of the thread's job. *)
LEMMA GoMoves ==
  ASSUME job \in [Threads -> Jobs], NEW t \in Threads, NEW at, NEW old, NEW new,
         NEW slot, Go(t, at, old, new, slot)
  PROVE  /\ job'[t] = [at |-> at, sev |-> job[t].sev, msg |-> job[t].msg,
                       old |-> old, new |-> new, slot |-> slot]
         /\ \A u \in Threads : u # t => job'[u] = job[u]
         /\ DOMAIN job' = Threads
BY DEF Go, Jobs

LEMMA GoKeepsJobs ==
  ASSUME JobsOK, NEW t \in Threads,
         NEW at \in Steps,
         NEW old \in Nat, NEW new \in Nat, NEW slot \in Nat, Go(t, at, old, new, slot),
         at = "offset" => old < new
  PROVE  /\ job' \in [Threads -> Jobs]
         /\ \A u \in Threads : /\ job'[u].at = "offset" => job'[u].old < job'[u].new
                               /\ job'[u].at = "idle" => job'[u] = Idle
<1>1. /\ job'[t] = [at |-> at, sev |-> job[t].sev, msg |-> job[t].msg,
                    old |-> old, new |-> new, slot |-> slot]
      /\ \A u \in Threads : u # t => job'[u] = job[u]
  BY GoMoves DEF JobsOK
<1>2. job'[t] \in Jobs
  BY <1>1 DEF JobsOK, Jobs, Steps
<1>3. job' \in [Threads -> Jobs]
  BY <1>1, <1>2 DEF JobsOK, Go
<1>4. job'[t].at = at /\ job'[t].old = old /\ job'[t].new = new
  BY <1>1
<1>5. /\ job'[t].at = "offset" => job'[t].old < job'[t].new
      /\ job'[t].at # "idle"
  BY <1>4 DEF Steps
<1> QED
  BY <1>1, <1>3, <1>5 DEF JobsOK

LEMMA BeginLogKeepsJobs ==
  ASSUME JobsOK, NEW t \in Threads, NEW sev \in Severities, NEW msg \in Texts,
         BeginLog(t, sev, msg)
  PROVE  JobsOK'
<1> DEFINE begun == [Idle EXCEPT !.at = "size", !.sev = sev, !.msg = msg, !.old = Len(Buf)]
<1>1. Len(Buf) \in Nat /\ logs \in Nat /\ logs < MaxLogs /\ MaxLogs \in Nat
  BY TextsAssumption DEF JobsOK, BeginLog
<1>2. begun \in Jobs /\ begun.at = "size"
  BY <1>1 DEF Jobs, Idle, Steps
<1>3. job' = [job EXCEPT ![t] = begun] /\ job \in [Threads -> Jobs]
  BY DEF BeginLog, JobsOK
<1> HIDE DEF begun
<1>4. job' \in [Threads -> Jobs] /\ job'[t] = begun /\ \A u \in Threads : u # t => job'[u] = job[u]
  BY <1>2, <1>3
<1>5. \A u \in Threads : /\ job'[u].at = "offset" => job'[u].old < job'[u].new
                         /\ job'[u].at = "idle" => job'[u] = Idle
  BY <1>2, <1>4 DEF JobsOK
<1>6. /\ said' = Append(said, [sev |-> sev, msg |-> msg]) /\ logs' = logs + 1
      /\ [sev |-> sev, msg |-> msg] \in [sev: Severities, msg: Texts]
  BY DEF BeginLog
<1>7. said' \in Seq([sev: Severities, msg: Texts]) /\ Len(said') <= logs'
  BY <1>1, <1>6 DEF JobsOK
<1>8. logs' \in 0 .. MaxLogs
  BY <1>1, <1>6
<1>9. {overlapped', torn', guessed', clearedUnder'} \subseteq BOOLEAN
  BY DEF BeginLog, JobsOK
<1> QED
  BY <1>4, <1>5, <1>7, <1>8, <1>9 DEF BeginLog, JobsOK, text

(* What is behind the text when it grows, and what a message makes of it. *)
LEMMA ResizeMakesText ==
  ASSUME JobsOK, NEW t \in Threads, Resize(t)
  PROVE  /\ Buf' \in Seq(Chars) /\ Len(Buf') = job[t].slot + Len(job[t].msg)
         /\ \A k \in 1 .. Len(Buf') : Buf'[k] = IF k <= Len(Buf) THEN Buf[k] ELSE Garbage
<1> DEFINE n == job[t].slot + Len(job[t].msg)
<1>1. job[t].slot \in Nat /\ job[t].msg \in Texts \cup {<<>>}
  BY DEF JobsOK, Jobs
<1>2. n \in Nat
  BY <1>1, MessagesAreText
<1>3. Buf \in Seq(Chars) /\ Len(Buf) \in Nat /\ Garbage \in Chars
  BY DEF JobsOK, Chars
<1>4. Buf' = [k \in 1 .. n |-> IF k <= Len(Buf) THEN Buf[k] ELSE Garbage]
  BY DEF Resize
<1> HIDE DEF n
<1>5. Buf' \in [1 .. n -> Chars]
  <2>1. ASSUME NEW k \in 1 .. n
        PROVE  (IF k <= Len(Buf) THEN Buf[k] ELSE Garbage) \in Chars
    <3>1. k <= Len(Buf) => k \in 1 .. Len(Buf)
      BY <1>2, <1>3
    <3> QED
      BY <1>3, <3>1
  <2> QED
    BY <1>4, <2>1
<1>6. Buf' \in Seq(Chars) /\ Len(Buf') = n
  BY <1>2, <1>5
<1>7. \A k \in 1 .. Len(Buf') : Buf'[k] = IF k <= Len(Buf) THEN Buf[k] ELSE Garbage
  BY <1>4, <1>6
<1> QED
  BY <1>6, <1>7 DEF n

LEMMA FormatMakesText ==
  ASSUME JobsOK, NEW t \in Threads, Format(t)
  PROVE  /\ Buf' \in Seq(Chars) /\ Len(Buf') = Len(Buf)
         /\ \A k \in 1 .. Len(Buf) :
              IF k - job[t].slot \in 1 .. Len(job[t].msg)
              THEN Buf'[k] # Garbage ELSE Buf'[k] = Buf[k]
<1> DEFINE m == job[t].msg
           slot == job[t].slot
           n == Len(Buf)
<1>1. /\ m \in Seq(Chars) /\ Len(m) \in Nat /\ \A k \in 1 .. Len(m) : m[k] # Garbage
  <2>1. m \in Texts \cup {<<>>}
    BY DEF JobsOK, Jobs
  <2> HIDE DEF m
  <2> QED
    BY <2>1, MessagesAreText
<1>2. Buf \in Seq(Chars) /\ n \in Nat
  BY DEF JobsOK
<1>3. Buf' = [k \in 1 .. n |-> IF k - slot \in 1 .. Len(m) THEN m[k - slot] ELSE Buf[k]]
  BY DEF Format
<1> HIDE DEF m, slot
<1>4. Buf' \in [1 .. n -> Chars]
  <2>1. ASSUME NEW k \in 1 .. n
        PROVE  (IF k - slot \in 1 .. Len(m) THEN m[k - slot] ELSE Buf[k]) \in Chars
    <3>1. CASE k - slot \in 1 .. Len(m)
      BY <1>1, <3>1
    <3>2. CASE k - slot \notin 1 .. Len(m)
      BY <1>2, <3>2
    <3> QED
      BY <3>1, <3>2
  <2> QED
    BY <1>3, <2>1
<1>5. Buf' \in Seq(Chars) /\ Len(Buf') = n
  BY <1>2, <1>4
<1>6. \A k \in 1 .. n : IF k - slot \in 1 .. Len(m) THEN Buf'[k] # Garbage ELSE Buf'[k] = Buf[k]
  <2> SUFFICES ASSUME NEW k \in 1 .. n
               PROVE  IF k - slot \in 1 .. Len(m) THEN Buf'[k] # Garbage ELSE Buf'[k] = Buf[k]
    OBVIOUS
  <2>1. Buf'[k] = IF k - slot \in 1 .. Len(m) THEN m[k - slot] ELSE Buf[k]
    BY <1>3
  <2> QED
    BY <1>1, <2>1
<1> QED
  BY <1>5, <1>6 DEF m, slot

LEMMA LogKeepsJobs ==
  ASSUME JobsOK, NEW t \in Threads,
         \/ BeginAppend(t) \/ Resize(t) \/ Format(t) \/ ReadNewSize(t)
         \/ SkipChar(t) \/ FindNewline(t) \/ PushOffset(t) \/ EndScan(t) \/ PushColor(t)
  PROVE  JobsOK'
<1> USE DEF text, spoken, mishaps
<1>0. /\ job[t] \in Jobs /\ job[t].old \in Nat /\ job[t].new \in Nat
      /\ job[t].slot \in Nat /\ Len(Buf) \in Nat /\ Len(LineOffsets) \in Nat
      /\ Len(LineColors) \in Nat
  BY DEF JobsOK, Jobs
<1>10. ASSUME Disturb
       PROVE  draw' \in Draws /\ draw'.at = draw.at
  BY <1>10 DEF Disturb, JobsOK, Draws
<1>1. CASE BeginAppend(t)
  <2>1. Go(t, "append", job[t].old, 0, Len(Buf)) /\ torn' \in BOOLEAN
    BY <1>1 DEF BeginAppend, Enter, JobsOK
  <2>2. /\ job' \in [Threads -> Jobs]
        /\ \A u \in Threads : /\ job'[u].at = "offset" => job'[u].old < job'[u].new
                              /\ job'[u].at = "idle" => job'[u] = Idle
    BY <1>0, <2>1, GoKeepsJobs DEF Steps
  <2>3. draw' \in Draws /\ draw'.at = draw.at
    BY <1>1, <1>10 DEF BeginAppend
  <2> QED
    BY <1>1, <2>1, <2>2, <2>3 DEF BeginAppend, JobsOK
<1>2. CASE Resize(t) \/ Format(t)
  <2>1. \/ Go(t, "format", job[t].old, 0, job[t].slot)
        \/ Go(t, "newSize", job[t].old, 0, 0)
    BY <1>2 DEF Resize, Format
  <2>2. /\ job' \in [Threads -> Jobs]
        /\ \A u \in Threads : /\ job'[u].at = "offset" => job'[u].old < job'[u].new
                              /\ job'[u].at = "idle" => job'[u] = Idle
    BY <1>0, <2>1, GoKeepsJobs DEF Steps
  <2>3. Buf' \in Seq(Chars)
    BY <1>2, ResizeMakesText, FormatMakesText
  <2>4. draw' \in Draws /\ draw'.at = draw.at
    BY <1>2, <1>10 DEF Resize, Format
  <2> QED
    BY <1>2, <2>2, <2>3, <2>4 DEF Resize, Format, JobsOK
<1>3. CASE ReadNewSize(t)
  <2>1. Go(t, "scan", job[t].old, Len(Buf), 0)
    BY <1>3 DEF ReadNewSize
  <2>2. /\ job' \in [Threads -> Jobs]
        /\ \A u \in Threads : /\ job'[u].at = "offset" => job'[u].old < job'[u].new
                              /\ job'[u].at = "idle" => job'[u] = Idle
    BY <1>0, <2>1, GoKeepsJobs DEF Steps
  <2> QED
    BY <1>3, <2>2 DEF ReadNewSize, JobsOK
<1>4. CASE SkipChar(t) \/ FindNewline(t)
  <2>1. \/ Go(t, "scan", job[t].old + 1, job[t].new, 0)
        \/ /\ Go(t, "offset", job[t].old, job[t].new, Len(LineOffsets))
           /\ job[t].old < job[t].new
    BY <1>4 DEF SkipChar, FindNewline, Enter
  <2>2. /\ job' \in [Threads -> Jobs]
        /\ \A u \in Threads : /\ job'[u].at = "offset" => job'[u].old < job'[u].new
                              /\ job'[u].at = "idle" => job'[u] = Idle
    <3>1. CASE Go(t, "scan", job[t].old + 1, job[t].new, 0)
      <4>1. job[t].old + 1 \in Nat
        BY <1>0
      <4> QED
        BY <1>0, <3>1, <4>1, GoKeepsJobs DEF Steps
    <3>2. CASE /\ Go(t, "offset", job[t].old, job[t].new, Len(LineOffsets))
               /\ job[t].old < job[t].new
      BY <1>0, <3>2, GoKeepsJobs DEF Steps
    <3> QED
      BY <2>1, <3>1, <3>2
  <2>3. torn' \in BOOLEAN /\ guessed' \in BOOLEAN
    BY <1>4 DEF SkipChar, FindNewline, Enter, JobsOK
  <2> QED
    BY <1>4, <2>2, <2>3 DEF SkipChar, FindNewline, JobsOK
<1>5. CASE PushOffset(t)
  <2>1. Go(t, "scan", job[t].old + 1, job[t].new, 0) /\ job[t].old + 1 \in Nat
    BY <1>0, <1>5 DEF PushOffset
  <2>2. /\ job' \in [Threads -> Jobs]
        /\ \A u \in Threads : /\ job'[u].at = "offset" => job'[u].old < job'[u].new
                              /\ job'[u].at = "idle" => job'[u] = Idle
    BY <1>0, <2>1, GoKeepsJobs DEF Steps
  <2>3. LineOffsets' \in Seq(Nat \cup {Garbage}) /\ LineOffsets' # <<>>
    <3> DEFINE tail == <<job[t].old + 1>>
               S == Nat \cup {Garbage}
    <3>1. /\ tail \in Seq(S) /\ Len(tail) = 1 /\ LineOffsets \in Seq(S)
          /\ Garbage \in S /\ job[t].slot \in Nat
          /\ LineOffsets' = Put(LineOffsets, job[t].slot, tail)
      BY <1>0, <2>1, <1>5 DEF JobsOK, PushOffset
    <3> HIDE DEF tail, S
    <3>2. /\ Put(LineOffsets, job[t].slot, tail) \in Seq(S)
          /\ Len(Put(LineOffsets, job[t].slot, tail)) = job[t].slot + Len(tail)
      BY <3>1, PutMakesASequence
    <3>3. LineOffsets' # <<>>
      BY <3>1, <3>2
    <3> QED
      BY <3>1, <3>2, <3>3 DEF S
  <2>4. draw' \in Draws /\ draw'.at = draw.at
    BY <1>5, <1>10 DEF PushOffset
  <2> QED
    BY <1>5, <2>2, <2>3, <2>4 DEF PushOffset, JobsOK
<1>6. CASE EndScan(t)
  <2>1. Go(t, "color", 0, 0, Len(LineColors)) /\ torn' \in BOOLEAN
    BY <1>6 DEF EndScan, Enter, JobsOK
  <2>2. /\ job' \in [Threads -> Jobs]
        /\ \A u \in Threads : /\ job'[u].at = "offset" => job'[u].old < job'[u].new
                              /\ job'[u].at = "idle" => job'[u] = Idle
    BY <1>0, <2>1, GoKeepsJobs DEF Steps
  <2> QED
    BY <1>6, <2>1, <2>2 DEF EndScan, JobsOK
<1>7. CASE PushColor(t)
  <2>1. Idle \in Jobs
    BY DEF Idle, Jobs
  <2>2. /\ job' \in [Threads -> Jobs] /\ job'[t] = Idle
        /\ \A u \in Threads : u # t => job'[u] = job[u]
    BY <1>7, <2>1 DEF PushColor, JobsOK
  <2>3. Idle.at = "idle"
    BY DEF Idle
  <2>4. \A u \in Threads : /\ job'[u].at = "offset" => job'[u].old < job'[u].new
                           /\ job'[u].at = "idle" => job'[u] = Idle
    BY <2>2, <2>3 DEF JobsOK
  <2>5. LineColors' \in Seq(Severities \cup {White, Garbage})
    <3>1. /\ <<job[t].sev>> \in Seq(Severities \cup {White, Garbage})
          /\ LineColors \in Seq(Severities \cup {White, Garbage})
          /\ LineColors' = Put(LineColors, job[t].slot, <<job[t].sev>>)
      BY <1>0, <1>7 DEF JobsOK, PushColor, Jobs
    <3> QED
      BY <1>0, <3>1, PutMakesASequence
  <2> QED
    BY <1>7, <2>2, <2>4, <2>5 DEF PushColor, JobsOK
<1> QED
  BY <1>1, <1>2, <1>3, <1>4, <1>5, <1>6, <1>7

LEMMA DrawKeepsJobs ==
  ASSUME JobsOK,
         \/ BeginClear \/ ClearBuf \/ ClearOffsets \/ BeginFirst \/ PushFirst
         \/ ClearColors \/ BeginLines \/ EndDraw
  PROVE  JobsOK'
<1> USE DEF text, spoken, mishaps, Draws
<1>1. CASE BeginClear
  <2>1. /\ clears \in Nat /\ MaxClears \in Nat /\ clears < MaxClears
        /\ clears' = clears + 1 /\ logs \in Nat
    BY <1>1, TextsAssumption DEF BeginClear, JobsOK
  <2>2. clears' \in 0 .. MaxClears
    BY <2>1
  <2>3. said' \in Seq([sev: Severities, msg: Texts]) /\ Len(said') <= logs
    <3>1. said' = <<>>
      BY <1>1 DEF BeginClear
    <3> QED
      BY <2>1, <3>1
  <2>4. draw' \in Draws
    BY <1>1 DEF BeginClear, JobsOK
  <2>5. {overlapped', torn', guessed', clearedUnder'} \subseteq BOOLEAN
    BY <1>1 DEF BeginClear
  <2>6. UNCHANGED <<Buf, LineOffsets, LineColors, job, logs>>
    BY <1>1 DEF BeginClear
  <2>7. draw.at = "out" /\ draw'.at = "clearBuf"
    BY <1>1 DEF BeginClear, JobsOK
  <2> QED
    BY <2>2, <2>3, <2>4, <2>5, <2>6, <2>7 DEF JobsOK
<1>2. CASE ClearBuf
  <2>1. Buf' = <<>> /\ Buf' \in Seq(Chars) /\ draw.at = "clearBuf"
    BY <1>2 DEF ClearBuf
  <2>2. draw' \in Draws
    BY <1>2 DEF ClearBuf, JobsOK
  <2> QED
    BY <1>2, <2>1, <2>2 DEF ClearBuf, JobsOK
<1>3. CASE ClearOffsets \/ BeginFirst
  <2>1. draw' \in Draws /\ draw'.at \in {"first", "pushFirst"}
    <3>1. CASE ClearOffsets
      BY <3>1 DEF ClearOffsets, JobsOK
    <3>2. CASE BeginFirst
      <4>1. Len(LineOffsets) \in Nat /\ draw \in Draws
        BY DEF JobsOK
      <4>2. draw' = [draw EXCEPT !.at = "pushFirst", !.end = Len(LineOffsets)]
        BY <3>2 DEF BeginFirst
      <4> QED
        BY <4>1, <4>2
    <3> QED
      BY <1>3, <3>1, <3>2
  <2>2. LineOffsets' \in Seq(Nat \cup {Garbage})
    <3>1. CASE LineOffsets' = <<>>
      BY <3>1
    <3>2. CASE LineOffsets' = LineOffsets
      BY <3>2 DEF JobsOK
    <3> QED
      BY <1>3, <3>1, <3>2 DEF ClearOffsets, BeginFirst
  <2> QED
    BY <1>3, <2>1, <2>2 DEF ClearOffsets, BeginFirst, JobsOK
<1>6. CASE PushFirst
  <2>1. draw' \in Draws /\ draw.end \in Nat
    BY <1>6 DEF PushFirst, JobsOK
  <2>2. LineOffsets' \in Seq(Nat \cup {Garbage}) /\ LineOffsets' # <<>>
    <3> DEFINE tail == <<0>>
               S == Nat \cup {Garbage}
               slot == draw.end
    <3>1. /\ tail \in Seq(S) /\ Len(tail) = 1 /\ LineOffsets \in Seq(S) /\ Garbage \in S
          /\ LineOffsets' = Put(LineOffsets, slot, tail) /\ slot \in Nat
      BY <1>6, <2>1 DEF JobsOK, PushFirst
    <3> HIDE DEF tail, S, slot
    <3>2. LineOffsets' \in Seq(S) /\ Len(LineOffsets') = slot + Len(tail)
      BY <3>1, PutMakesASequence
    <3>3. LineOffsets' # <<>>
      BY <3>1, <3>2
    <3> QED
      BY <3>1, <3>2, <3>3 DEF S
  <2> QED
    BY <1>6, <2>1, <2>2 DEF PushFirst, JobsOK
<1>7. CASE ClearColors
  <2>1. draw' \in Draws /\ draw.at = "clearColors"
    BY <1>7 DEF ClearColors, JobsOK
  <2>2. LineColors' \in Seq(Severities \cup {White, Garbage})
    BY <1>7 DEF ClearColors
  <2> QED
    BY <1>7, <2>1, <2>2 DEF ClearColors, JobsOK
<1>4. CASE BeginLines
  <2>1. draw' \in Draws
    BY <1>4 DEF BeginLines, JobsOK
  <2> QED
    BY <1>4, <2>1 DEF BeginLines, JobsOK
<1>5. CASE EndDraw
  BY <1>5 DEF EndDraw, NotDrawing, JobsOK
<1> QED
  BY <1>1, <1>2, <1>3, <1>4, <1>5, <1>6, <1>7

LEMMA StepKeepsJobs == JobsOK /\ [ConsoleNext]_consoleVars => JobsOK'
<1> SUFFICES ASSUME JobsOK, [ConsoleNext]_consoleVars
             PROVE  JobsOK'
  OBVIOUS
<1>1. CASE UNCHANGED consoleVars
  BY <1>1 DEF consoleVars, text, spoken, mishaps, JobsOK
<1>2. CASE \E t \in Threads : \E sev \in Severities, msg \in Texts : BeginLog(t, sev, msg)
  BY <1>2, BeginLogKeepsJobs
<1>3. CASE \E t \in Threads :
             \/ BeginAppend(t) \/ Resize(t) \/ Format(t) \/ ReadNewSize(t)
             \/ SkipChar(t) \/ FindNewline(t) \/ PushOffset(t) \/ EndScan(t) \/ PushColor(t)
  BY <1>3, LogKeepsJobs
<1>4. CASE \/ BeginClear \/ ClearBuf \/ ClearOffsets \/ BeginFirst \/ PushFirst
           \/ ClearColors \/ BeginLines \/ EndDraw
  BY <1>4, DrawKeepsJobs
<1> QED
  BY <1>1, <1>2, <1>3, <1>4 DEF ConsoleNext

-----------------------------------------------------------------------------
(* The job a step leaves the thread with; the other threads' are as before. *)
Moved(t, at, old, new, slot) ==
  /\ job'[t].at = at /\ job'[t].old = old /\ job'[t].new = new /\ job'[t].slot = slot
  /\ job'[t].sev = job[t].sev /\ job'[t] # Idle
  /\ \A u \in Threads : u # t => job'[u] = job[u]

LEMMA GoIsAMove ==
  ASSUME JobsOK, NEW t \in Threads, NEW old, NEW new, NEW slot,
         NEW at \in Steps,
         Go(t, at, old, new, slot)
  PROVE  Moved(t, at, old, new, slot)
<1>1. /\ job'[t] = [at |-> at, sev |-> job[t].sev, msg |-> job[t].msg,
                    old |-> old, new |-> new, slot |-> slot]
      /\ \A u \in Threads : u # t => job'[u] = job[u]
  BY GoMoves DEF JobsOK
<1>2. Idle.at = "idle"
  BY DEF Idle
<1>3. /\ job'[t].at = at /\ job'[t].old = old /\ job'[t].new = new
      /\ job'[t].slot = slot /\ job'[t].sev = job[t].sev
  BY <1>1
<1> QED
  BY <1>1, <1>2, <1>3 DEF Moved, Steps

LEMMA IdleIsIdle == /\ Idle.at = "idle"
                    /\ JobsOK => \A t \in Threads : job[t] = Idle <=> job[t].at = "idle"
BY DEF Idle, JobsOK

(* What the steps of AddLog do, as far as the invariant is concerned. *)
LEMMA BeginLogMoves ==
  ASSUME JobsOK, NEW t \in Threads, NEW sev \in Severities, NEW msg \in Texts,
         BeginLog(t, sev, msg)
  PROVE  /\ job'[t].at = "size" /\ job'[t].old = Len(Buf) /\ job'[t].sev = sev
         /\ \A u \in Threads : u # t => job'[u] = job[u]
<1> DEFINE begun == [Idle EXCEPT !.at = "size", !.sev = sev, !.msg = msg, !.old = Len(Buf)]
<1>1. begun.at = "size" /\ begun.old = Len(Buf) /\ begun.sev = sev
  BY DEF Idle
<1>2. job' = [job EXCEPT ![t] = begun] /\ job \in [Threads -> Jobs]
  BY DEF BeginLog, JobsOK
<1> HIDE DEF begun
<1> QED
  BY <1>1, <1>2

LEMMA PutOne ==
  ASSUME NEW S, NEW s \in Seq(S), NEW x \in S
  PROVE  LET all == Put(s, Len(s), <<x>>) IN
         /\ DOMAIN all = 1 .. Len(s) + 1 /\ Len(all) = Len(s) + 1
         /\ \A k \in 1 .. Len(s) : all[k] = s[k]
         /\ all[Len(s) + 1] = x
         /\ {all[k] : k \in DOMAIN all} = {s[k] : k \in DOMAIN s} \cup {x}
<1> DEFINE one == <<x>>
           all == Put(s, Len(s), one)
<1>1. one \in Seq(S) /\ Len(one) = 1 /\ one[1] = x /\ Len(s) \in Nat /\ DOMAIN s = 1 .. Len(s)
  OBVIOUS
<1> HIDE DEF one
<1>2. /\ DOMAIN all = 1 .. Len(all) /\ Len(all) = Len(s) + Len(one)
      /\ \A k \in 1 .. Len(s) : all[k] = s[k]
      /\ \A k \in 1 .. Len(one) : all[Len(s) + k] = one[k]
  <2>1. Appended(s, one, all)
    BY <1>1, PutAppends
  <2> QED
    BY <2>1 DEF Appended
<1>3. all[Len(s) + 1] = x
  <2>1. 1 \in 1 .. Len(one)
    BY <1>1
  <2> QED
    BY <2>1, <1>1, <1>2
<1>4. DOMAIN all = 1 .. Len(s) + 1 /\ Len(all) = Len(s) + 1
  BY <1>1, <1>2
<1>5. \A k : k \in 1 .. Len(s) + 1 <=> k \in 1 .. Len(s) \/ k = Len(s) + 1
  BY <1>1
<1>6. \A k \in 1 .. Len(s) : all[k] = s[k]
  BY <1>2
<1> HIDE DEF all
<1>7. {all[k] : k \in DOMAIN all} = {s[k] : k \in DOMAIN s} \cup {x}
  BY <1>1, <1>3, <1>4, <1>5, <1>6
<1> QED
  BY <1>3, <1>4, <1>6, <1>7 DEF all, one

(* The first part of Found: a busy thread means nobody is clearing. *)
LEMMA BusyMeansNotClearing ==
  ASSUME JobsOK, Found, NEW t \in Threads, job[t].at # "idle", ~clearedUnder
  PROVE  ~Clearing
BY IdleIsIdle DEF Found, Emptied, AllIdle

LEMMA FoundWhenNotClearing ==
  ASSUME ~clearedUnder' => ~Clearing', ~clearedUnder' /\ ~torn' => Apart' /\ LinesKept'
  PROVE  Found'
BY DEF Found, Emptied, Clearing

(* Containers stay apart: the thread's own slot is the end it has just read, *)
(* or it has left the container it has grown.                                *)
LEMMA EnterKeepsApart ==
  ASSUME JobsOK, Apart, NEW t \in Threads, NEW old, NEW new, NEW slot, NEW steps,
         NEW at \in {"append", "offset", "color"}, Enter(t, at, old, new, slot, steps),
         ~torn', at \in steps, at = "append" => slot = Len(Buf) /\ "format" \in steps,
         at = "offset" => slot = Len(LineOffsets), at = "color" => slot = Len(LineColors),
         UNCHANGED text
  PROVE  Apart'
<1>1. Moved(t, at, old, new, slot)
  BY GoIsAMove DEF Enter, Steps
<1>2. \A u \in Threads : u # t => job[u].at \notin steps
  BY DEF Enter, Meets
<1>3. job'[t].at = at /\ job'[t].slot = slot /\ \A u \in Threads : u # t => job'[u] = job[u]
  BY <1>1 DEF Moved
<1>4. ASSUME NEW u \in Threads, NEW v \in Threads
      PROVE  /\ job'[u].at = job'[v].at /\ job'[u].at \in {"append", "format", "offset", "color"} =>
                  u = v
             /\ ~(job'[u].at = "append" /\ job'[v].at = "format")
  BY <1>2, <1>3 DEF Apart
<1>5. ASSUME NEW u \in Threads
      PROVE  /\ job'[u].at = "append" => job'[u].slot = Len(Buf')
             /\ job'[u].at = "format" => job'[u].slot + Len(job'[u].msg) = Len(Buf')
             /\ job'[u].at = "offset" => job'[u].slot = Len(LineOffsets')
             /\ job'[u].at = "color" => job'[u].slot = Len(LineColors')
  BY <1>3 DEF Apart, text
<1> QED
  BY <1>4, <1>5 DEF Apart

LEMMA LeaveKeepsApart ==
  ASSUME JobsOK, Apart, NEW t \in Threads,
         job'[t].at \in {"idle", "size", "newSize", "scan"},
         \A u \in Threads : u # t => job'[u] = job[u],
         UNCHANGED Buf \/ (job[t].at = "format" /\ Len(Buf') = Len(Buf)),
         UNCHANGED LineOffsets \/ job[t].at = "offset",
         UNCHANGED LineColors \/ job[t].at = "color"
  PROVE  Apart'
BY DEF Apart

(* A step that leaves the text alone must not forget a line it owes. *)
LEMMA ReadingKeepsLines ==
  ASSUME LinesKept, UNCHANGED <<Buf, LineOffsets>>, NEW t \in Threads,
         \A u \in Threads : u # t => job'[u] = job[u],
         job[t].at # "format", job'[t].at # "format", guessed => guessed',
         \A p \in LineStarts : Covers(t, p) => Covers(t, p)',
         OldAndNewFit(t)'
  PROVE  LinesKept'
<1>1. LineStarts' = LineStarts /\ Offsets' = Offsets
  BY DEF LineStarts, Offsets
<1>2. \A u \in Threads : OldAndNewFit(u)'
  BY DEF LinesKept, OldAndNewFit
<1>3. \A p \in LineStarts : p \in Offsets \/ \E u \in Threads : Covers(u, p)'
  <2> SUFFICES ASSUME NEW p \in LineStarts, p \notin Offsets
               PROVE  \E u \in Threads : Covers(u, p)'
    OBVIOUS
  <2>1. PICK u \in Threads : Covers(u, p)
    BY DEF LinesKept
  <2> QED
    BY <2>1 DEF Covers
<1>4. ASSUME NEW p
      PROVE  Unwritten(p)' <=> Unwritten(p)
  <2>1. \A u \in Threads : job[u].at = "format" <=> job'[u].at = "format"
    OBVIOUS
  <2>2. \A u \in Threads : job[u].at = "format" => job'[u] = job[u]
    OBVIOUS
  <2> QED
    BY <2>1, <2>2 DEF Unwritten
<1> QED
  BY <1>1, <1>2, <1>3, <1>4 DEF LinesKept

LEMMA BeginLogKeepsFound ==
  ASSUME JobsOK, Found, NEW t \in Threads, NEW sev \in Severities, NEW msg \in Texts,
         BeginLog(t, sev, msg)
  PROVE  Found'
<1>1. /\ job'[t].at = "size" /\ job'[t].old = Len(Buf)
      /\ \A u \in Threads : u # t => job'[u] = job[u]
  BY BeginLogMoves
<1>2. /\ UNCHANGED <<Buf, LineOffsets, LineColors, draw, torn, guessed>> /\ job[t] = Idle
      /\ clearedUnder' = (clearedUnder \/ Clearing)
  BY DEF BeginLog, text
<1>3. ~clearedUnder' => ~clearedUnder /\ ~Clearing /\ ~Clearing'
  BY <1>2 DEF Clearing, JobsOK
<1>4. ASSUME ~clearedUnder', ~torn'
      PROVE  Apart' /\ LinesKept'
  <2>1. Apart /\ LinesKept
    BY <1>2, <1>3, <1>4 DEF Found
  <2>2. Apart'
    BY <1>1, <1>2, <2>1, LeaveKeepsApart
  <2>3. \A p \in LineStarts : ~Covers(t, p)
    BY <1>2, IdleIsIdle DEF Covers
  <2>4. Len(Buf) \in Nat /\ job[t].at # "format"
    BY <1>2, IdleIsIdle DEF JobsOK
  <2>5. OldAndNewFit(t)'
    BY <1>1, <1>2, <2>4 DEF OldAndNewFit
  <2>6. LinesKept'
    BY <1>1, <1>2, <2>1, <2>3, <2>4, <2>5, ReadingKeepsLines
  <2> QED
    BY <2>2, <2>6
<1> QED
  BY <1>3, <1>4, FoundWhenNotClearing

LEMMA BeginAppendKeepsFound ==
  ASSUME JobsOK, Found, NEW t \in Threads, BeginAppend(t)
  PROVE  Found'
<1>1. /\ Enter(t, "append", job[t].old, 0, Len(Buf), {"append", "format"})
      /\ job[t].at = "size" /\ UNCHANGED <<text, guessed, clearedUnder>>
  BY DEF BeginAppend
<1>2. Moved(t, "append", job[t].old, 0, Len(Buf))
  BY <1>1, GoIsAMove DEF Enter, Steps
<1>3. ~clearedUnder' => ~Clearing /\ ~Clearing'
  BY <1>1, BusyMeansNotClearing DEF BeginAppend, Disturb, Clearing, JobsOK, Draws
<1>4. ASSUME ~clearedUnder', ~torn'
      PROVE  Apart' /\ LinesKept'
  <2>1. Apart /\ LinesKept
    BY <1>1, <1>3, <1>4 DEF Found, Enter, JobsOK
  <2>2. Apart'
    BY <1>1, <1>4, <2>1, EnterKeepsApart
  <2>3. \A p \in LineStarts : ~Covers(t, p)
    BY <1>1 DEF Covers
  <2>4. OldAndNewFit(t)'
    BY <1>1, <1>2, <2>1 DEF OldAndNewFit, LinesKept, Moved, text
  <2>5. LinesKept'
    BY <1>1, <1>2, <2>1, <2>3, <2>4, ReadingKeepsLines DEF Moved, text
  <2> QED
    BY <2>2, <2>5
<1> QED
  BY <1>3, <1>4, FoundWhenNotClearing

LEMMA ReadNewSizeKeepsFound ==
  ASSUME JobsOK, Found, NEW t \in Threads, ReadNewSize(t)
  PROVE  Found'
<1>1. /\ Go(t, "scan", job[t].old, Len(Buf), 0) /\ job[t].at = "newSize"
      /\ UNCHANGED <<text, draw, clearedUnder, guessed, torn>>
  BY DEF ReadNewSize, mishaps
<1>2. Moved(t, "scan", job[t].old, Len(Buf), 0)
  BY <1>1, GoIsAMove DEF Steps
<1>3. ~clearedUnder' => ~Clearing /\ ~Clearing'
  BY <1>1, BusyMeansNotClearing DEF Clearing
<1>4. ASSUME ~clearedUnder', ~torn'
      PROVE  Apart' /\ LinesKept'
  <2>1. Apart /\ LinesKept
    BY <1>1, <1>3, <1>4 DEF Found
  <2>2. Apart'
    BY <1>1, <1>2, <2>1, LeaveKeepsApart DEF Moved, text
  <2>3. Len(Buf) \in Nat
    BY DEF JobsOK
  <2>4. \A p \in LineStarts : Covers(t, p) => Covers(t, p)'
    <3>1. \A p \in LineStarts : p <= Len(Buf)
      BY <2>3 DEF LineStarts
    <3> QED
      BY <1>1, <1>2, <3>1 DEF Covers, Moved
  <2>5. OldAndNewFit(t)'
    BY <1>1, <1>2, <2>3 DEF OldAndNewFit, Moved, text
  <2>6. LinesKept'
    BY <1>1, <1>2, <2>1, <2>4, <2>5, ReadingKeepsLines DEF Moved, text
  <2> QED
    BY <2>2, <2>6
<1> QED
  BY <1>3, <1>4, FoundWhenNotClearing

(* Where a scan stands it reads what is there, until it meets an append. *)
LEMMA ScanReads ==
  ASSUME JobsOK, LinesKept, NEW t \in Threads, job[t].at = "scan",
         job[t].old < job[t].new, ~Meets(t, {"append"})
  PROVE  /\ Reads(t) = {Buf[job[t].old + 1]} /\ job[t].old + 1 \in 1 .. Len(Buf)
         /\ job[t].old \in Nat /\ job[t].new \in Nat
<1>1. /\ job[t].old \in Nat /\ job[t].new \in Nat /\ Len(Buf) \in Nat
      /\ job[t].new <= Len(Buf)
  BY DEF JobsOK, Jobs, LinesKept, OldAndNewFit
<1>2. job[t].old < Len(Buf) /\ job[t].old + 1 \in 1 .. Len(Buf)
  BY <1>1
<1>3. Reads(t) = {Buf[job[t].old + 1]}
  BY <1>2 DEF Reads
<1> QED
  BY <1>1, <1>2, <1>3

(* A character that is skipped is no newline: nothing owed lies before it.   *)
LEMMA SkipCharKeepsFound ==
  ASSUME JobsOK, Found, NEW t \in Threads, SkipChar(t)
  PROVE  Found'
<1>1. /\ Enter(t, "scan", job[t].old + 1, job[t].new, 0, {"append"})
      /\ job[t].at = "scan" /\ job[t].old < job[t].new /\ Reads(t) # {Newline}
      /\ UNCHANGED <<text, draw, guessed, clearedUnder>>
  BY DEF SkipChar
<1>2. Moved(t, "scan", job[t].old + 1, job[t].new, 0)
  BY <1>1, GoIsAMove DEF Enter, Steps
<1>3. ~clearedUnder' => ~Clearing /\ ~Clearing'
  BY <1>1, BusyMeansNotClearing DEF Clearing
<1>4. ASSUME ~clearedUnder', ~torn'
      PROVE  Apart' /\ LinesKept'
  <2>1. Apart /\ LinesKept /\ ~Meets(t, {"append"})
    BY <1>1, <1>3, <1>4 DEF Found, Enter, JobsOK
  <2>2. Apart'
    BY <1>1, <1>2, <2>1, LeaveKeepsApart DEF Moved, text
  <2>3. /\ job[t].old \in Nat /\ job[t].new \in Nat /\ Len(Buf) \in Nat
        /\ Buf[job[t].old + 1] # Newline
    BY <1>1, <2>1, ScanReads DEF JobsOK
  <2>4. \A p \in LineStarts : Covers(t, p) => Covers(t, p)'
    <3> SUFFICES ASSUME NEW p \in LineStarts, Covers(t, p)
                 PROVE  Covers(t, p)'
      OBVIOUS
    <3>1. p \in Nat /\ job[t].old < p /\ p <= job[t].new
      BY <1>1, <2>3 DEF Covers, LineStarts
    <3>2. p # job[t].old + 1
      BY <2>3, <3>1 DEF LineStarts
    <3>3. job[t].old + 1 < p
      BY <2>3, <3>1, <3>2
    <3> QED
      BY <1>2, <3>1, <3>3 DEF Covers, Moved
  <2>5. OldAndNewFit(t)'
    BY <1>1, <1>2, <2>1 DEF OldAndNewFit, LinesKept, Moved, text
  <2>6. LinesKept'
    BY <1>1, <1>2, <2>1, <2>4, <2>5, ReadingKeepsLines DEF Moved, text
  <2> QED
    BY <2>2, <2>6
<1> QED
  BY <1>3, <1>4, FoundWhenNotClearing

(* What is taken for a newline is one, or was not written yet. *)
LEMMA FindNewlineKeepsFound ==
  ASSUME JobsOK, Found, NEW t \in Threads, FindNewline(t)
  PROVE  Found'
<1>1. /\ Enter(t, "offset", job[t].old, job[t].new, Len(LineOffsets), {"append", "offset"})
      /\ job[t].at = "scan" /\ job[t].old < job[t].new
      /\ guessed' = (guessed \/ Newline \notin Reads(t))
      /\ UNCHANGED <<text, draw, clearedUnder>>
  BY DEF FindNewline
<1>2. Moved(t, "offset", job[t].old, job[t].new, Len(LineOffsets))
  BY <1>1, GoIsAMove DEF Enter, Steps
<1>3. ~clearedUnder' => ~Clearing /\ ~Clearing'
  BY <1>1, BusyMeansNotClearing DEF Clearing
<1>4. ASSUME ~clearedUnder', ~torn'
      PROVE  Apart' /\ LinesKept'
  <2>1. Apart /\ LinesKept /\ ~Meets(t, {"append"})
    BY <1>1, <1>3, <1>4 DEF Found, Enter, Meets, JobsOK
  <2>2. Apart'
    BY <1>1, <1>4, <2>1, EnterKeepsApart
  <2>3. Reads(t) = {Buf[job[t].old + 1]} /\ job[t].new <= Len(Buf)
    BY <1>1, <2>1, ScanReads DEF LinesKept, OldAndNewFit
  <2>4. \A p \in LineStarts : Covers(t, p) => Covers(t, p)'
    BY <1>1, <1>2 DEF Covers, Moved
  <2>5. ~guessed' => Buf[job[t].old + 1] = Newline
    BY <1>1, <2>3
  <2>6. OldAndNewFit(t)'
    BY <1>1, <1>2, <2>3, <2>5 DEF OldAndNewFit, Moved, text
  <2>7. guessed => guessed'
    BY <1>1
  <2>8. LinesKept'
    BY <1>1, <1>2, <2>1, <2>4, <2>6, <2>7, ReadingKeepsLines DEF Moved, text
  <2> QED
    BY <2>2, <2>8
<1> QED
  BY <1>3, <1>4, FoundWhenNotClearing

LEMMA EndScanKeepsFound ==
  ASSUME JobsOK, Found, NEW t \in Threads, EndScan(t)
  PROVE  Found'
<1>1. /\ Enter(t, "color", 0, 0, Len(LineColors), {"color"}) /\ job[t].at = "scan"
      /\ job[t].old >= job[t].new /\ UNCHANGED <<text, draw, guessed, clearedUnder>>
  BY DEF EndScan
<1>2. Moved(t, "color", 0, 0, Len(LineColors))
  BY <1>1, GoIsAMove DEF Enter, Steps
<1>3. ~clearedUnder' => ~Clearing /\ ~Clearing'
  BY <1>1, BusyMeansNotClearing DEF Clearing
<1>4. ASSUME ~clearedUnder', ~torn'
      PROVE  Apart' /\ LinesKept'
  <2>1. Apart /\ LinesKept
    BY <1>1, <1>3, <1>4 DEF Found, Enter, JobsOK
  <2>2. Apart'
    BY <1>1, <1>4, <2>1, EnterKeepsApart
  <2>3. \A p \in LineStarts : ~Covers(t, p)
    <3>1. job[t].old \in Nat /\ job[t].new \in Nat /\ \A p \in LineStarts : p \in Nat
      BY DEF JobsOK, Jobs, LineStarts
    <3> QED
      BY <1>1, <3>1 DEF Covers
  <2>4. OldAndNewFit(t)'
    BY <1>2 DEF OldAndNewFit, Moved
  <2>5. LinesKept'
    BY <1>1, <1>2, <2>1, <2>3, <2>4, ReadingKeepsLines DEF Moved, text
  <2> QED
    BY <2>2, <2>5
<1> QED
  BY <1>3, <1>4, FoundWhenNotClearing

(* The text grows by places without characters, which are no lines' ends.    *)
LEMMA ResizeKeepsFound ==
  ASSUME JobsOK, Found, NEW t \in Threads, Resize(t)
  PROVE  Found'
<1>1. /\ Go(t, "format", job[t].old, 0, job[t].slot) /\ job[t].at = "append" /\ Disturb
      /\ UNCHANGED <<LineOffsets, LineColors, clearedUnder, torn, guessed>>
  BY DEF Resize, mishaps
<1>2. Moved(t, "format", job[t].old, 0, job[t].slot) /\ job'[t].msg = job[t].msg
  <2>1. Moved(t, "format", job[t].old, 0, job[t].slot)
    BY <1>1, GoIsAMove DEF Steps
  <2>2. job'[t].msg = job[t].msg
    BY <1>1 DEF Go, JobsOK, Jobs
  <2> QED
    BY <2>1, <2>2
<1>3. ~clearedUnder' => ~Clearing /\ ~Clearing'
  BY <1>1, BusyMeansNotClearing DEF Clearing, Disturb, JobsOK, Draws
<1>4. ASSUME ~clearedUnder', ~torn'
      PROVE  Apart' /\ LinesKept'
  <2>1. Apart /\ LinesKept
    BY <1>1, <1>3, <1>4 DEF Found
  <2>2. /\ Len(Buf') = job[t].slot + Len(job[t].msg) /\ job[t].slot = Len(Buf)
        /\ \A k \in 1 .. Len(Buf') : Buf'[k] = IF k <= Len(Buf) THEN Buf[k] ELSE Garbage
    BY <1>1, <2>1, ResizeMakesText DEF Apart
  <2>3. Len(Buf) \in Nat /\ Len(job[t].msg) \in Nat
    BY MessagesAreText DEF JobsOK, Jobs
  <2>4. Len(Buf') \in Nat /\ Len(Buf) <= Len(Buf')
    BY <2>2, <2>3
  <2>5. \A u \in Threads : u # t => /\ job'[u] = job[u]
                                    /\ job[u].at \notin {"append", "format"}
    BY <1>1, <1>2, <2>1 DEF Apart, Moved
  <2>6. /\ job'[t].at = "format" /\ job'[t].slot = Len(Buf) /\ job'[t].old = job[t].old
        /\ job'[t].msg = job[t].msg
    BY <1>2, <2>2 DEF Moved
  <2>7. Apart'
    <3>1. \A u \in Threads : /\ job'[u].at = "append" => FALSE
                             /\ job'[u].at = "format" => u = t
      BY <2>5, <2>6
    <3>2. \A u, v \in Threads :
            job'[u].at = job'[v].at /\ job'[u].at \in {"offset", "color"} => u = v
      BY <2>1, <2>5, <2>6 DEF Apart
    <3>3. \A u \in Threads :
            /\ job'[u].at = "offset" => job'[u].slot = Len(LineOffsets')
            /\ job'[u].at = "color" => job'[u].slot = Len(LineColors')
      BY <1>1, <2>1, <2>5, <2>6 DEF Apart
    <3>4. job'[t].slot + Len(job'[t].msg) = Len(Buf')
      BY <2>2, <2>6
    <3>5. ASSUME NEW u \in Threads, NEW v \in Threads
          PROVE  /\ job'[u].at = job'[v].at /\ job'[u].at \in {"append", "format", "offset", "color"} =>
                      u = v
                 /\ ~(job'[u].at = "append" /\ job'[v].at = "format")
      BY <3>1, <3>2
    <3>6. ASSUME NEW u \in Threads, job'[u].at = "format"
          PROVE  job'[u].slot + Len(job'[u].msg) = Len(Buf')
      BY <3>1, <3>4, <3>6
    <3> QED
      BY <3>1, <3>3, <3>5, <3>6 DEF Apart
  <2>8. \A p \in 1 .. Len(Buf) : p \in 1 .. Len(Buf') /\ Buf'[p] = Buf[p] /\ Buf[p] # Garbage
    <3> SUFFICES ASSUME NEW p \in 1 .. Len(Buf)
                 PROVE  p \in 1 .. Len(Buf') /\ Buf'[p] = Buf[p] /\ Buf[p] # Garbage
      OBVIOUS
    <3>1. p \in 1 .. Len(Buf') /\ p <= Len(Buf)
      BY <2>3, <2>4
    <3>2. ~Unwritten(p)
      BY <1>1, <2>5 DEF Unwritten
    <3> QED
      BY <2>1, <2>2, <3>1, <3>2 DEF LinesKept
  <2>9. \A p \in 1 .. Len(Buf') : Buf'[p] = Garbage <=> Unwritten(p)'
    <3> SUFFICES ASSUME NEW p \in 1 .. Len(Buf')
                 PROVE  Buf'[p] = Garbage <=> Unwritten(p)'
      OBVIOUS
    <3>1. Unwritten(p)' <=> Len(Buf) < p
      BY <2>5, <2>6 DEF Unwritten
    <3>2. CASE p \in 1 .. Len(Buf)
      BY <2>3, <2>8, <3>1, <3>2
    <3>3. CASE p \notin 1 .. Len(Buf)
      <4>1. Len(Buf) < p /\ ~(p <= Len(Buf))
        BY <2>3, <2>4, <3>3
      <4> QED
        BY <2>2, <3>1, <4>1
    <3> QED
      BY <3>2, <3>3
  <2>10. LineStarts' = LineStarts /\ Offsets' = Offsets
    <3>1. \A p \in 1 .. Len(Buf') : p \notin 1 .. Len(Buf) => Buf'[p] # Newline
      <4> SUFFICES ASSUME NEW p \in 1 .. Len(Buf'), p \notin 1 .. Len(Buf)
                   PROVE  Buf'[p] # Newline
        OBVIOUS
      <4>1. ~(p <= Len(Buf))
        BY <2>3, <2>4
      <4> QED
        BY <2>2, <4>1, TextsAssumption
    <3> QED
      BY <1>1, <2>8, <3>1 DEF LineStarts, Offsets
  <2>11. ASSUME NEW u \in Threads
         PROVE  OldAndNewFit(u)'
    <3>1. CASE u = t
      <4>1. job[t].old \in Nat /\ job[t].old <= Len(Buf)
        BY <1>1, <2>1 DEF LinesKept, OldAndNewFit, JobsOK, Jobs
      <4>2. job[t].old <= Len(Buf')
        BY <2>3, <2>4, <4>1
      <4> QED
        BY <2>6, <3>1, <4>1, <4>2 DEF OldAndNewFit
    <3>2. CASE u # t
      <4>1. /\ job'[u] = job[u] /\ job[u].old \in Nat /\ job[u].new \in Nat
            /\ job[u].at \notin {"append", "format"} /\ OldAndNewFit(u)
        BY <2>1, <2>5, <3>2 DEF LinesKept, JobsOK, Jobs
      <4>2. job[u].at = "offset" => job[u].old + 1 \in 1 .. Len(Buf)
        <5>1. job[u].at = "offset" => job[u].old < job[u].new /\ job[u].new <= Len(Buf)
          BY <4>1 DEF JobsOK, OldAndNewFit
        <5> QED
          BY <2>3, <4>1, <5>1
      <4>3. job[u].at \in {"size", "newSize"} => job[u].old <= Len(Buf')
        BY <2>3, <2>4, <4>1 DEF OldAndNewFit
      <4>4. job[u].at \in {"scan", "offset"} => job[u].new <= Len(Buf')
        BY <2>3, <2>4, <4>1 DEF OldAndNewFit
      <4>5. job[u].at = "offset" /\ ~guessed => Buf'[job[u].old + 1] = Newline
        BY <2>8, <4>1, <4>2 DEF OldAndNewFit
      <4> QED
        BY <1>1, <4>1, <4>3, <4>4, <4>5 DEF OldAndNewFit
    <3> QED
      BY <3>1, <3>2
  <2>12. \A p \in LineStarts : p \in Offsets \/ \E u \in Threads : Covers(u, p)'
    <3> SUFFICES ASSUME NEW p \in LineStarts, p \notin Offsets
                 PROVE  \E u \in Threads : Covers(u, p)'
      OBVIOUS
    <3>1. PICK u \in Threads : Covers(u, p)
      BY <2>1 DEF LinesKept
    <3>2. u # t
      BY <1>1, <3>1 DEF Covers
    <3> QED
      BY <2>5, <3>1, <3>2 DEF Covers
  <2>13. 0 \in Offsets' /\ (~guessed' => Offsets' \subseteq LineStarts')
    BY <1>1, <2>1, <2>10 DEF LinesKept
  <2>14. LinesKept'
    BY <2>9, <2>10, <2>11, <2>12, <2>13 DEF LinesKept
  <2> QED
    BY <2>7, <2>14
<1> QED
  BY <1>3, <1>4, FoundWhenNotClearing

(* The characters come, and with them the lines the thread has yet to find.  *)
LEMMA FormatKeepsFound ==
  ASSUME JobsOK, Found, NEW t \in Threads, Format(t)
  PROVE  Found'
<1>1. /\ Go(t, "newSize", job[t].old, 0, 0) /\ job[t].at = "format" /\ Disturb
      /\ UNCHANGED <<LineOffsets, LineColors, clearedUnder, torn, guessed>>
  BY DEF Format, mishaps
<1>2. Moved(t, "newSize", job[t].old, 0, 0)
  BY <1>1, GoIsAMove DEF Steps
<1>3. ~clearedUnder' => ~Clearing /\ ~Clearing'
  BY <1>1, BusyMeansNotClearing DEF Clearing, Disturb, JobsOK, Draws
<1>4. ASSUME ~clearedUnder', ~torn'
      PROVE  Apart' /\ LinesKept'
  <2> DEFINE slot == job[t].slot
             m == job[t].msg
  <2>1. Apart /\ LinesKept
    BY <1>1, <1>3, <1>4 DEF Found
  <2>2. /\ Len(Buf') = Len(Buf) /\ slot + Len(m) = Len(Buf)
        /\ \A k \in 1 .. Len(Buf) : IF k - slot \in 1 .. Len(m)
                                    THEN Buf'[k] # Garbage ELSE Buf'[k] = Buf[k]
    BY <1>1, <2>1, FormatMakesText DEF Apart
  <2>3. Len(Buf) \in Nat /\ Len(m) \in Nat /\ slot \in Nat
    BY MessagesAreText DEF JobsOK, Jobs
  <2>4. Apart'
    BY <1>1, <1>2, <2>1, <2>2, LeaveKeepsApart DEF Moved
  <2>5. \A u \in Threads : u # t => job'[u] = job[u] /\ job[u].at # "format"
    BY <1>1, <1>2, <2>1 DEF Apart, Moved
  <2>6. job'[t].at = "newSize" /\ job'[t].old = job[t].old
    BY <1>2 DEF Moved
  <2> HIDE DEF slot, m
  <2>7. ASSUME NEW p \in 1 .. Len(Buf)
        PROVE  /\ p > slot => Buf[p] = Garbage /\ Buf'[p] # Garbage
               /\ ~(p > slot) => Buf[p] # Garbage /\ Buf'[p] = Buf[p]
    <3>1. p - slot \in 1 .. Len(m) <=> p > slot
      BY <2>2, <2>3
    <3>2. Unwritten(p) <=> p > slot
      <4>1. Unwritten(p) <=> slot < p
        BY <1>1, <2>5 DEF Unwritten, slot
      <4> QED
        BY <2>3, <4>1
    <3> QED
      BY <2>1, <2>2, <3>1, <3>2 DEF LinesKept
  <2>8. \A p \in 1 .. Len(Buf') : Buf'[p] = Garbage <=> Unwritten(p)'
    <3>1. \A p : ~Unwritten(p)'
      BY <2>5, <2>6 DEF Unwritten
    <3> QED
      BY <2>2, <2>7, <3>1
  <2>9. \A p \in 1 .. Len(Buf) : Buf[p] = Newline => Buf'[p] = Newline
    BY <2>7, TextsAssumption
  <2>10. LineStarts \subseteq LineStarts' /\ Offsets' = Offsets
    BY <1>1, <2>2, <2>9 DEF LineStarts, Offsets
  <2>11. ASSUME NEW u \in Threads
         PROVE  OldAndNewFit(u)'
    <3>1. CASE u = t
      BY <1>1, <2>1, <2>2, <2>6, <3>1 DEF LinesKept, OldAndNewFit
    <3>2. CASE u # t
      <4>1. /\ job'[u] = job[u] /\ job[u].old \in Nat /\ job[u].new \in Nat
            /\ OldAndNewFit(u)
        BY <2>1, <2>5, <3>2 DEF LinesKept, JobsOK, Jobs
      <4>2. job[u].at = "offset" => job[u].old + 1 \in 1 .. Len(Buf)
        <5>1. job[u].at = "offset" => job[u].old < job[u].new /\ job[u].new <= Len(Buf)
          BY <4>1 DEF JobsOK, OldAndNewFit
        <5> QED
          BY <2>3, <4>1, <5>1
      <4>3. job[u].at = "offset" /\ ~guessed => Buf'[job[u].old + 1] = Newline
        BY <2>9, <4>1, <4>2 DEF OldAndNewFit
      <4> QED
        BY <1>1, <2>2, <4>1, <4>3 DEF OldAndNewFit
    <3> QED
      BY <3>1, <3>2
  <2>12. ASSUME NEW p \in LineStarts', p \notin Offsets'
         PROVE  \E u \in Threads : Covers(u, p)'
    <3>1. CASE p \in LineStarts
      <4>1. PICK u \in Threads : Covers(u, p)
        BY <2>1, <2>10, <2>12, <3>1 DEF LinesKept
      <4>2. u # t
        BY <1>1, <4>1 DEF Covers
      <4> QED
        BY <2>5, <4>1, <4>2 DEF Covers
    <3>2. CASE p \notin LineStarts
      <4>1. p \in 1 .. Len(Buf) /\ Buf'[p] = Newline /\ Buf[p] # Newline
        BY <2>2, <3>2 DEF LineStarts
      <4>2. p > slot
        BY <2>7, <4>1
      <4>3. job[t].old \in Nat /\ job[t].old <= slot
        BY <1>1, <2>1 DEF LinesKept, OldAndNewFit, JobsOK, Jobs, slot
      <4>4. job[t].old < p
        BY <2>3, <4>1, <4>2, <4>3
      <4> QED
        BY <2>6, <4>4 DEF Covers
    <3> QED
      BY <3>1, <3>2
  <2>13. 0 \in Offsets' /\ (~guessed' => Offsets' \subseteq LineStarts')
    BY <1>1, <2>1, <2>10 DEF LinesKept
  <2>14. LinesKept'
    BY <2>8, <2>11, <2>12, <2>13 DEF LinesKept
  <2> QED
    BY <2>4, <2>14
<1> QED
  BY <1>3, <1>4, FoundWhenNotClearing

LEMMA PushOffsetKeepsFound ==
  ASSUME JobsOK, Found, NEW t \in Threads, PushOffset(t)
  PROVE  Found'
<1>1. /\ Go(t, "scan", job[t].old + 1, job[t].new, 0) /\ job[t].at = "offset" /\ Disturb
      /\ LineOffsets' = Put(LineOffsets, job[t].slot, <<job[t].old + 1>>)
      /\ UNCHANGED <<Buf, LineColors, clearedUnder, torn, guessed>>
  BY DEF PushOffset, mishaps
<1>2. Moved(t, "scan", job[t].old + 1, job[t].new, 0)
  BY <1>1, GoIsAMove DEF Steps
<1>3. ~clearedUnder' => ~Clearing /\ ~Clearing'
  BY <1>1, BusyMeansNotClearing DEF Clearing, Disturb, JobsOK, Draws
<1>4. ASSUME ~clearedUnder', ~torn'
      PROVE  Apart' /\ LinesKept'
  <2>1. Apart /\ LinesKept
    BY <1>1, <1>3, <1>4 DEF Found
  <2>2. Apart'
    BY <1>1, <1>2, <2>1, LeaveKeepsApart DEF Moved
  <2>3. /\ job[t].old \in Nat /\ job[t].new \in Nat /\ Len(Buf) \in Nat
        /\ job[t].old < job[t].new /\ job[t].new <= Len(Buf)
        /\ job[t].slot = Len(LineOffsets)
        /\ ~guessed => Buf[job[t].old + 1] = Newline
    BY <1>1, <2>1 DEF JobsOK, Jobs, LinesKept, OldAndNewFit, Apart
  <2>4. Offsets' = Offsets \cup {job[t].old + 1}
    <3> DEFINE S == Nat \cup {Garbage}
               x == job[t].old + 1
    <3>1. LineOffsets \in Seq(S) /\ x \in S
      BY <2>3 DEF JobsOK
    <3>2. LineOffsets' = Put(LineOffsets, Len(LineOffsets), <<x>>)
      BY <1>1, <2>3
    <3> HIDE DEF S, x
    <3>3. {LineOffsets'[k] : k \in DOMAIN LineOffsets'}
            = {LineOffsets[k] : k \in DOMAIN LineOffsets} \cup {x}
      BY <3>1, <3>2, PutOne
    <3> QED
      BY <3>3 DEF Offsets, x
  <2>5. ~guessed => job[t].old + 1 \in LineStarts
    <3>1. job[t].old + 1 \in 1 .. Len(Buf)
      BY <2>3
    <3> QED
      BY <3>1, <2>3 DEF LineStarts
  <2>6. LineStarts' = LineStarts
    BY <1>1 DEF LineStarts
  <2>7. ASSUME NEW p \in LineStarts, p \notin Offsets'
        PROVE  \E u \in Threads : Covers(u, p)'
    <3>1. PICK u \in Threads : Covers(u, p)
      BY <2>1, <2>4, <2>7 DEF LinesKept
    <3>2. CASE u = t
      <4>1. job[t].old < p /\ p <= job[t].new /\ p # job[t].old + 1
        BY <3>1, <3>2, <1>1, <2>4, <2>7 DEF Covers
      <4>2. p \in Nat
        BY <2>3 DEF LineStarts
      <4>3. job[t].old + 1 < p
        BY <4>1, <4>2, <2>3
      <4> QED
        BY <4>1, <4>3, <1>2 DEF Covers, Moved
    <3>3. CASE u # t
      BY <3>1, <3>3, <1>2 DEF Covers, Moved
    <3> QED
      BY <3>2, <3>3
  <2>8. ASSUME NEW u \in Threads
        PROVE  OldAndNewFit(u)'
    <3>1. CASE u = t
      BY <1>1, <1>2, <2>3, <3>1 DEF OldAndNewFit, Moved
    <3>2. CASE u # t
      BY <1>1, <1>2, <2>1, <3>2 DEF OldAndNewFit, LinesKept, Moved
    <3> QED
      BY <3>1, <3>2
  <2>9. 0 \in Offsets' /\ (~guessed' => Offsets' \subseteq LineStarts')
    BY <1>1, <2>1, <2>4, <2>5, <2>6 DEF LinesKept
  <2>10. ASSUME NEW p
         PROVE  Unwritten(p)' <=> Unwritten(p)
    <3>1. \A u \in Threads : job[u].at = "format" <=> job'[u].at = "format"
      BY <1>1, <1>2 DEF Moved
    <3>2. \A u \in Threads : job[u].at = "format" => job'[u] = job[u]
      BY <1>1, <1>2 DEF Moved
    <3> QED
      BY <3>1, <3>2 DEF Unwritten
  <2>11. \A p \in 1 .. Len(Buf') : Buf'[p] = Garbage <=> Unwritten(p)'
    BY <1>1, <2>1, <2>10 DEF LinesKept
  <2>12. LinesKept'
    BY <2>6, <2>7, <2>8, <2>9, <2>11 DEF LinesKept
  <2> QED
    BY <2>2, <2>12
<1> QED
  BY <1>3, <1>4, FoundWhenNotClearing

LEMMA PushColorKeepsFound ==
  ASSUME JobsOK, Found, NEW t \in Threads, PushColor(t)
  PROVE  Found'
<1>1. /\ job[t].at = "color" /\ UNCHANGED <<Buf, LineOffsets, draw>>
      /\ UNCHANGED <<clearedUnder, torn, guessed>>
      /\ job'[t].at = "idle" /\ \A u \in Threads : u # t => job'[u] = job[u]
  BY IdleIsIdle DEF PushColor, JobsOK, mishaps
<1>2. ~clearedUnder' => ~Clearing /\ ~Clearing'
  BY <1>1, BusyMeansNotClearing DEF Clearing
<1>3. ASSUME ~clearedUnder', ~torn'
      PROVE  Apart' /\ LinesKept'
  <2>1. Apart /\ LinesKept
    BY <1>1, <1>2, <1>3 DEF Found
  <2>2. Apart'
    BY <1>1, <2>1, LeaveKeepsApart
  <2>3. \A p \in LineStarts : ~Covers(t, p)
    BY <1>1 DEF Covers
  <2>4. OldAndNewFit(t)'
    BY <1>1 DEF OldAndNewFit
  <2>5. LinesKept'
    BY <1>1, <2>1, <2>3, <2>4, ReadingKeepsLines
  <2> QED
    BY <2>2, <2>5
<1> QED
  BY <1>2, <1>3, FoundWhenNotClearing

(* The presenting thread: Clear starts the invariant anew. *)
LEMMA ClearKeepsEmptied ==
  ASSUME JobsOK, ~clearedUnder => Emptied, Clearing, UNCHANGED <<job, clearedUnder>>,
         AllIdle /\ Emptied => Emptied' /\ (~Clearing' => LinesKept')
  PROVE  Found'
<1>1. ~clearedUnder => AllIdle
  BY DEF Emptied
<1>2. JobsOK /\ AllIdle => Apart'
  BY IdleIsIdle DEF AllIdle, Apart
<1> QED
  BY <1>1, <1>2 DEF Found

LEMMA DrawKeepsFound ==
  ASSUME JobsOK, Found,
         \/ BeginClear \/ ClearBuf \/ ClearOffsets \/ BeginFirst \/ PushFirst \/ ClearColors
         \/ BeginLines \/ EndDraw
  PROVE  Found'
<1> USE DEF text, mishaps
<1>0. ~clearedUnder => Emptied
  BY DEF Found
<1>1. CASE BeginClear
  <2>1. /\ clearedUnder' = (\E t \in Threads : job[t] # Idle) /\ job' = job
        /\ draw' = [draw EXCEPT !.at = "clearBuf"]
    BY <1>1 DEF BeginClear
  <2>2. draw'.at = "clearBuf"
    BY <2>1 DEF JobsOK, Draws
  <2>3. Clearing'
    BY <2>2 DEF Clearing
  <2>4. ~clearedUnder' => AllIdle'
    BY <2>1 DEF AllIdle
  <2>5. AllIdle' => Apart'
    BY <2>1, IdleIsIdle DEF AllIdle, Apart
  <2>6. AllIdle' => Emptied'
    BY <2>2 DEF Emptied
  <2> QED
    BY <2>3, <2>4, <2>5, <2>6 DEF Found
<1>2. CASE ClearBuf
  <2>1. /\ draw.at = "clearBuf" /\ draw'.at = "clearOffsets" /\ Buf' = <<>>
        /\ UNCHANGED <<job, clearedUnder>>
    BY <1>2 DEF ClearBuf, JobsOK, Draws
  <2>2. AllIdle => Emptied' /\ Clearing' /\ Clearing
    BY <2>1 DEF Emptied, Clearing, AllIdle
  <2> QED
    BY <1>0, <2>1, <2>2, ClearKeepsEmptied DEF Clearing
<1>3. CASE ClearOffsets
  <2>1. /\ draw.at = "clearOffsets" /\ draw'.at = "first" /\ LineOffsets' = <<>>
        /\ UNCHANGED <<Buf, job, clearedUnder>>
    BY <1>3 DEF ClearOffsets, JobsOK, Draws
  <2>2. AllIdle /\ Emptied => Emptied' /\ Clearing'
    BY <2>1 DEF Emptied, Clearing, AllIdle
  <2> QED
    BY <1>0, <2>1, <2>2, ClearKeepsEmptied DEF Clearing
<1>4. CASE BeginFirst
  <2>1. /\ draw.at = "first" /\ draw'.at = "pushFirst" /\ draw'.end = Len(LineOffsets)
        /\ UNCHANGED <<Buf, LineOffsets, job, clearedUnder>>
    BY <1>4 DEF BeginFirst, JobsOK, Draws
  <2>2. AllIdle /\ Emptied => Emptied' /\ Clearing'
    BY <2>1 DEF Emptied, Clearing, AllIdle
  <2> QED
    BY <1>0, <2>1, <2>2, ClearKeepsEmptied DEF Clearing
<1>5. CASE PushFirst
  <2>1. /\ draw.at = "pushFirst" /\ draw'.at = "clearColors"
        /\ LineOffsets' = Put(LineOffsets, draw.end, <<0>>)
        /\ UNCHANGED <<Buf, job, clearedUnder>>
    BY <1>5 DEF PushFirst, JobsOK, Draws
  <2>2. Put(<<>>, 0, <<0>>) = <<0>>
    BY DEF Put
  <2>3. AllIdle /\ Emptied => Emptied' /\ Clearing'
    BY <2>1, <2>2 DEF Emptied, Clearing, AllIdle
  <2> QED
    BY <1>0, <2>1, <2>3, ClearKeepsEmptied DEF Clearing
<1>6. CASE ClearColors
  <2>1. /\ draw.at = "clearColors" /\ draw'.at = "cleared"
        /\ UNCHANGED <<Buf, LineOffsets, job, clearedUnder>>
    BY <1>6 DEF ClearColors, JobsOK, Draws
  <2>2. Emptied'
    BY <2>1 DEF Emptied, Clearing
  <2>3. ASSUME AllIdle, Emptied
        PROVE  LinesKept'
    <3>1. Buf' = <<>> /\ LineOffsets' = <<0>>
      BY <2>1, <2>3 DEF Emptied
    <3>2. Offsets' = {0}
      BY <3>1 DEF Offsets
    <3>3. Len(Buf') = 0 /\ \A p : p \notin 1 .. Len(Buf')
      BY <3>1
    <3>4. LineStarts' = {0}
      BY <3>3 DEF LineStarts
    <3>5. \A t \in Threads : OldAndNewFit(t)'
      BY <2>1, <2>3, IdleIsIdle DEF AllIdle, OldAndNewFit
    <3> QED
      BY <3>2, <3>3, <3>4, <3>5 DEF LinesKept
  <2> QED
    BY <1>0, <2>1, <2>2, <2>3, ClearKeepsEmptied DEF Clearing
<1>7. CASE BeginLines \/ EndDraw
  <2>1. /\ UNCHANGED <<text, job, clearedUnder, torn, guessed>>
        /\ draw'.at \in {"lines", "out"} /\ ~Clearing
    BY <1>7 DEF BeginLines, EndDraw, NotDrawing, Clearing
  <2>2. ~Clearing'
    BY <2>1 DEF Clearing
  <2>3. Apart => Apart'
    BY <2>1 DEF Apart
  <2>4. LinesKept => LinesKept'
    BY <2>1 DEF LinesKept, Offsets, LineStarts, Covers, Unwritten, OldAndNewFit
  <2> QED
    BY <2>1, <2>2, <2>3, <2>4, FoundWhenNotClearing DEF Found
<1> QED
  BY <1>1, <1>2, <1>3, <1>4, <1>5, <1>6, <1>7

LEMMA StepKeepsFound ==
  ASSUME JobsOK, Found, [ConsoleNext]_consoleVars
  PROVE  Found'
<1>1. CASE UNCHANGED consoleVars
  BY <1>1 DEF consoleVars, text, spoken, mishaps, Found, Emptied, Apart, LinesKept, AllIdle,
              Clearing, Offsets, LineStarts, Covers, Unwritten, OldAndNewFit
<1>2. CASE \E t \in Threads : \E sev \in Severities, msg \in Texts : BeginLog(t, sev, msg)
  BY <1>2, BeginLogKeepsFound
<1>3. CASE \E t \in Threads : BeginAppend(t) \/ Resize(t) \/ Format(t) \/ ReadNewSize(t)
  BY <1>3, BeginAppendKeepsFound, ResizeKeepsFound, FormatKeepsFound, ReadNewSizeKeepsFound
<1>4. CASE \E t \in Threads : SkipChar(t) \/ FindNewline(t)
  BY <1>4, SkipCharKeepsFound, FindNewlineKeepsFound
<1>5. CASE \E t \in Threads : PushOffset(t) \/ EndScan(t) \/ PushColor(t)
  BY <1>5, PushOffsetKeepsFound, EndScanKeepsFound, PushColorKeepsFound
<1>6. CASE \/ BeginClear \/ ClearBuf \/ ClearOffsets \/ BeginFirst \/ PushFirst
           \/ ClearColors \/ BeginLines \/ EndDraw
  BY <1>6, DrawKeepsFound
<1> QED
  BY <1>1, <1>2, <1>3, <1>4, <1>5, <1>6 DEF ConsoleNext

-----------------------------------------------------------------------------
(* One log call at a time. *)
OneBusy == \A t, u \in Threads : job[t] # Idle /\ job[u] # Idle => t = u

(* What the steps of a lone log call have in common. *)
LEMMA LoneLog ==
  ASSUME JobsOK, Found, Alone, NEW t \in Threads, job[t].at # "idle",
         ~overlapped, ~clearedUnder
  PROVE  /\ ~torn /\ ~guessed /\ ~Clearing /\ Apart /\ LinesKept /\ Ascending /\ Colours
         /\ job[t] # Idle
         /\ \A u \in Threads : u # t => job[u] = Idle /\ job[u].at = "idle"
<1>1. job[t] # Idle
  BY IdleIsIdle
<1>2. ~Clearing /\ ~torn /\ ~guessed
  BY BusyMeansNotClearing DEF Alone
<1>3. \A u \in Threads : u # t => job[u] = Idle
  BY <1>1 DEF Alone
<1> QED
  BY <1>1, <1>2, <1>3, IdleIsIdle DEF Found, Alone

(* A lone thread that pushes nothing, and stays busy. *)
LEMMA LoneStep ==
  ASSUME JobsOK, Found, Alone, NEW t \in Threads, job[t].at # "idle",
         NEW at \in Steps,
         NEW old, NEW new, NEW slot, Go(t, at, old, new, slot),
         at # "color" => old \in Nat /\ job[t].at # "color" /\ job[t].old <= old,
         UNCHANGED <<LineOffsets, LineColors, overlapped, clearedUnder, clears, said>>,
         draw'.at = draw.at,
         ~overlapped /\ ~clearedUnder => ~torn' /\ ~guessed'
  PROVE  Alone'
<1> SUFFICES ASSUME ~overlapped, ~clearedUnder
             PROVE  /\ OneBusy' /\ ~Clearing' /\ Ascending' /\ Colours'
  BY DEF Alone, OneBusy
<1>1. /\ ~Clearing /\ ~guessed /\ LinesKept /\ Ascending /\ Colours /\ job[t] # Idle
      /\ \A u \in Threads : u # t => job[u] = Idle /\ job[u].at = "idle"
  BY LoneLog
<1>2. Moved(t, at, old, new, slot)
  BY GoIsAMove
<1>3. \A u \in Threads : u # t => job'[u] = Idle /\ job'[u].at = "idle"
  BY <1>1, <1>2 DEF Moved
<1>4. OneBusy' /\ ~Clearing'
  BY <1>1, <1>3 DEF OneBusy, Clearing
<1>5. Ascending'
  <2>1. ASSUME at # "color", NEW k \in DOMAIN LineOffsets
        PROVE  LineOffsets[k] <= old
    <3>1. LineOffsets[k] <= job[t].old /\ job[t].old \in Nat
      BY <1>1, <2>1 DEF Ascending, JobsOK, Jobs
    <3>2. LineOffsets[k] \in Nat
      <4>1. LineOffsets[k] \in LineStarts
        BY <1>1 DEF LinesKept, Offsets
      <4>2. Len(Buf) \in Nat
        BY DEF JobsOK
      <4> QED
        BY <4>1, <4>2 DEF LineStarts
    <3> QED
      BY <3>1, <3>2, <2>1
  <2>2. job'[t].at = at /\ job'[t].old = old
    BY <1>2 DEF Moved
  <2> QED
    BY <1>1, <1>3, <2>1, <2>2 DEF Ascending
<1>6. Colours'
  <2>1. job'[t].sev = job[t].sev /\ job'[t] # Idle
    BY <1>2 DEF Moved
  <2>2. /\ Len(said) >= 1 /\ Coloured(Len(said) - 1)
        /\ job[t].sev = said[Len(said)].sev
    BY <1>1 DEF Colours
  <2>3. Coloured(Len(said) - 1)'
    BY <2>2 DEF Coloured, Extra
  <2> QED
    BY <1>3, <2>1, <2>2, <2>3 DEF Colours, AllIdle
<1> QED
  BY <1>4, <1>5, <1>6

LEMMA BeginLogKeepsAlone ==
  ASSUME JobsOK, Found, Alone, NEW t \in Threads, NEW sev \in Severities,
         NEW msg \in Texts, BeginLog(t, sev, msg)
  PROVE  Alone'
<1> SUFFICES ASSUME ~overlapped', ~clearedUnder'
             PROVE  ~torn' /\ ~guessed' /\ OneBusy' /\ ~Clearing' /\ Ascending' /\ Colours'
  BY DEF Alone, OneBusy
<1>1. /\ overlapped' = (overlapped \/ \E u \in Threads : job[u] # Idle)
      /\ clearedUnder' = (clearedUnder \/ Clearing)
      /\ UNCHANGED <<Buf, LineOffsets, LineColors, draw, clears, torn, guessed>>
      /\ said' = Append(said, [sev |-> sev, msg |-> msg])
  BY DEF BeginLog, text
<1>2. AllIdle /\ ~overlapped /\ ~clearedUnder /\ ~Clearing
  BY <1>1 DEF AllIdle, JobsOK
<1>3. ~torn /\ ~guessed /\ Ascending /\ Colours /\ LinesKept
  BY <1>2 DEF Alone, Found
<1>4. /\ job'[t].at = "size" /\ job'[t].old = Len(Buf) /\ job'[t].sev = sev
      /\ \A u \in Threads : u # t => job'[u] = Idle /\ job'[u].at = "idle"
      /\ job'[t] # Idle
  BY <1>2, BeginLogMoves, IdleIsIdle DEF AllIdle
<1>5. OneBusy' /\ ~Clearing' /\ ~torn' /\ ~guessed'
  BY <1>1, <1>2, <1>3, <1>4 DEF OneBusy, Clearing
<1>6. Ascending'
  <2>1. \A k \in DOMAIN LineOffsets : LineOffsets[k] <= Len(Buf)
    <3>1. Len(Buf) \in Nat
      BY DEF JobsOK
    <3>2. \A k \in DOMAIN LineOffsets : LineOffsets[k] \in LineStarts
      BY <1>3 DEF LinesKept, Offsets
    <3> QED
      BY <3>1, <3>2 DEF LineStarts
  <2> QED
    BY <1>1, <1>3, <1>4, <2>1 DEF Ascending
<1>7. Colours'
  <2>1. Coloured(Len(said))
    BY <1>2, <1>3 DEF Colours
  <2>2. /\ Len(said) \in Nat /\ Len(said') = Len(said) + 1
        /\ \A k \in 1 .. Len(said) : said'[k] = said[k]
        /\ said'[Len(said')] = [sev |-> sev, msg |-> msg]
    BY <1>1 DEF JobsOK
  <2>3. Len(said') - 1 = Len(said) /\ Len(said') >= 1
    BY <2>2
  <2>4. Coloured(Len(said) - 1)'
    BY <2>1, <2>2, <2>3, <1>1 DEF Coloured, Extra
  <2>5. said'[Len(said')].sev = sev
    BY <2>2
  <2> QED
    BY <1>4, <2>3, <2>4, <2>5 DEF Colours, AllIdle
<1> QED
  BY <1>5, <1>6, <1>7

LEMMA LogKeepsAlone ==
  ASSUME JobsOK, Found, Alone, NEW t \in Threads,
         \/ BeginAppend(t) \/ Resize(t) \/ Format(t) \/ ReadNewSize(t)
         \/ SkipChar(t) \/ FindNewline(t) \/ EndScan(t)
  PROVE  Alone'
<1> USE DEF Steps
<1>0. job[t].old \in Nat /\ job[t].new \in Nat
  BY DEF JobsOK, Jobs
<1>1. ASSUME NEW at, NEW old, NEW new, NEW slot, NEW steps, "idle" \notin steps,
             Enter(t, at, old, new, slot, steps), job[t].at # "idle",
             ~overlapped, ~clearedUnder
      PROVE  ~torn'
  <2>1. ~torn /\ \A u \in Threads : u # t => job[u].at = "idle"
    BY <1>1, LoneLog
  <2> QED
    BY <1>1, <2>1 DEF Enter, Meets
<1>2. ~overlapped /\ ~clearedUnder /\ job[t].at # "idle" => ~torn /\ ~guessed
  BY LoneLog
<1>3. CASE BeginAppend(t)
  <2>1. /\ Enter(t, "append", job[t].old, 0, Len(Buf), {"append", "format"})
        /\ job[t].at = "size" /\ Disturb
        /\ UNCHANGED <<text, spoken, clears, guessed, clearedUnder>>
    BY <1>3 DEF BeginAppend
  <2>2. Go(t, "append", job[t].old, 0, Len(Buf)) /\ draw'.at = draw.at
    BY <2>1 DEF Enter, Disturb, JobsOK, Draws
  <2>3. ~overlapped /\ ~clearedUnder => ~torn' /\ ~guessed'
    BY <2>1, <1>1, <1>2
  <2> QED
    BY <1>0, <2>1, <2>2, <2>3, LoneStep DEF text, spoken
<1>4. CASE Resize(t)
  <2>1. /\ Go(t, "format", job[t].old, 0, job[t].slot) /\ job[t].at = "append" /\ Disturb
        /\ UNCHANGED <<LineOffsets, LineColors, spoken, clears, mishaps>>
    BY <1>4 DEF Resize
  <2>2. draw'.at = draw.at
    BY <2>1 DEF Disturb, JobsOK, Draws
  <2> QED
    BY <1>0, <1>2, <2>1, <2>2, LoneStep DEF spoken, mishaps
<1>5. CASE Format(t)
  <2>1. /\ Go(t, "newSize", job[t].old, 0, 0) /\ job[t].at = "format" /\ Disturb
        /\ UNCHANGED <<LineOffsets, LineColors, spoken, clears, mishaps>>
    BY <1>5 DEF Format
  <2>2. draw'.at = draw.at
    BY <2>1 DEF Disturb, JobsOK, Draws
  <2> QED
    BY <1>0, <1>2, <2>1, <2>2, LoneStep DEF spoken, mishaps
<1>6. CASE ReadNewSize(t)
  <2>1. /\ Go(t, "scan", job[t].old, Len(Buf), 0) /\ job[t].at = "newSize"
        /\ UNCHANGED <<text, draw, spoken, clears, mishaps>>
    BY <1>6 DEF ReadNewSize
  <2> QED
    BY <1>0, <1>2, <2>1, LoneStep DEF text, spoken, mishaps
<1>7. CASE SkipChar(t)
  <2>1. /\ Enter(t, "scan", job[t].old + 1, job[t].new, 0, {"append"}) /\ job[t].at = "scan"
        /\ UNCHANGED <<text, draw, spoken, clears, guessed, clearedUnder>>
    BY <1>7 DEF SkipChar
  <2>2. Go(t, "scan", job[t].old + 1, job[t].new, 0)
    BY <2>1 DEF Enter
  <2>3. ~overlapped /\ ~clearedUnder => ~torn' /\ ~guessed'
    BY <2>1, <1>1, <1>2
  <2>4. job[t].old + 1 \in Nat /\ job[t].old <= job[t].old + 1
    BY <1>0
  <2> QED
    BY <2>1, <2>2, <2>3, <2>4, LoneStep DEF text, spoken
<1>8. CASE FindNewline(t)
  <2>1. /\ Enter(t, "offset", job[t].old, job[t].new, Len(LineOffsets), {"append", "offset"})
        /\ job[t].at = "scan" /\ job[t].old < job[t].new
        /\ Reads(t) \cap {Newline, Garbage} # {}
        /\ guessed' = (guessed \/ Newline \notin Reads(t))
        /\ UNCHANGED <<text, draw, spoken, clears, clearedUnder>>
    BY <1>8 DEF FindNewline
  <2>2. Go(t, "offset", job[t].old, job[t].new, Len(LineOffsets))
    BY <2>1 DEF Enter
  <2>3. ~overlapped /\ ~clearedUnder => ~torn'
    BY <2>1, <1>1
  (* Nobody else logs, so everything the scan reads has been written. *)
  <2>4. ASSUME ~overlapped, ~clearedUnder
        PROVE  ~guessed'
    <3>1. /\ ~guessed /\ LinesKept /\ \A u \in Threads : u # t => job[u].at = "idle"
      BY <2>1, <2>4, LoneLog
    <3>2. ~Meets(t, {"append"})
      BY <3>1 DEF Meets
    <3>3. Reads(t) = {Buf[job[t].old + 1]} /\ job[t].old + 1 \in 1 .. Len(Buf)
      BY <2>1, <3>1, <3>2, ScanReads
    <3>4. ~Unwritten(job[t].old + 1)
      BY <2>1, <3>1 DEF Unwritten
    <3>5. Buf[job[t].old + 1] # Garbage
      BY <3>1, <3>3, <3>4 DEF LinesKept
    <3> QED
      BY <2>1, <3>1, <3>3, <3>5
  <2> QED
    BY <1>0, <2>1, <2>2, <2>3, <2>4, LoneStep DEF text, spoken
<1>9. CASE EndScan(t)
  <2>1. /\ Enter(t, "color", 0, 0, Len(LineColors), {"color"}) /\ job[t].at = "scan"
        /\ UNCHANGED <<text, draw, spoken, clears, guessed, clearedUnder>>
    BY <1>9 DEF EndScan
  <2>2. Go(t, "color", 0, 0, Len(LineColors))
    BY <2>1 DEF Enter
  <2>3. ~overlapped /\ ~clearedUnder => ~torn' /\ ~guessed'
    BY <2>1, <1>1, <1>2
  <2> QED
    BY <2>1, <2>2, <2>3, LoneStep DEF text, spoken
<1> QED
  BY <1>3, <1>4, <1>5, <1>6, <1>7, <1>8, <1>9

LEMMA PushOffsetKeepsAlone ==
  ASSUME JobsOK, Found, Alone, NEW t \in Threads, PushOffset(t)
  PROVE  Alone'
<1>1. /\ Go(t, "scan", job[t].old + 1, job[t].new, 0) /\ job[t].at = "offset" /\ Disturb
      /\ LineOffsets' = Put(LineOffsets, job[t].slot, <<job[t].old + 1>>)
      /\ UNCHANGED <<Buf, LineColors, spoken, clears, clearedUnder, torn, guessed>>
  BY DEF PushOffset, mishaps
<1> SUFFICES ASSUME ~overlapped, ~clearedUnder
             PROVE  ~torn' /\ ~guessed' /\ OneBusy' /\ ~Clearing' /\ Ascending' /\ Colours'
  BY <1>1 DEF Alone, OneBusy, spoken
<1>2. /\ ~torn /\ ~guessed /\ ~Clearing /\ Apart /\ LinesKept /\ Ascending /\ Colours
      /\ \A u \in Threads : u # t => job[u] = Idle /\ job[u].at = "idle"
  BY <1>1, LoneLog
<1>3. Moved(t, "scan", job[t].old + 1, job[t].new, 0)
  BY <1>1, GoIsAMove DEF Steps
<1>4. \A u \in Threads : u # t => job'[u] = Idle /\ job'[u].at = "idle"
  BY <1>2, <1>3 DEF Moved
<1>5. ~torn' /\ ~guessed' /\ OneBusy' /\ ~Clearing'
  BY <1>1, <1>2, <1>4 DEF OneBusy, Clearing, Disturb, JobsOK, Draws
<1> DEFINE x == job[t].old + 1  n == Len(LineOffsets)
<1>6. /\ DOMAIN LineOffsets' = 1 .. n + 1 /\ LineOffsets'[n + 1] = x
      /\ \A k \in 1 .. n : LineOffsets'[k] = LineOffsets[k]
      /\ n \in Nat /\ DOMAIN LineOffsets = 1 .. n /\ n >= 1
  <2>1. LineOffsets \in Seq(Nat \cup {Garbage}) /\ x \in Nat \cup {Garbage}
    BY DEF JobsOK, Jobs
  <2>2. LineOffsets' = Put(LineOffsets, Len(LineOffsets), <<x>>)
    BY <1>1, <1>2 DEF Apart
  <2> HIDE DEF x
  <2>3. n \in Nat /\ DOMAIN LineOffsets = 1 .. n
    BY <2>1
  <2>4. n >= 1
    <3>1. LineOffsets # <<>>
      BY <1>2 DEF JobsOK, Clearing
    <3> QED
      BY <2>1, <3>1
  <2> QED
    BY <2>1, <2>2, <2>3, <2>4, PutOne
<1>7. \A k \in 1 .. n : LineOffsets[k] \in Nat /\ LineOffsets[k] < x
  <2> SUFFICES ASSUME NEW k \in 1 .. n
               PROVE  LineOffsets[k] \in Nat /\ LineOffsets[k] < x
    OBVIOUS
  <2>1. LineOffsets[k] <= job[t].old /\ job[t].old \in Nat
    BY <1>1, <1>2, <1>6 DEF Ascending, JobsOK, Jobs
  <2>2. LineOffsets[k] \in LineStarts /\ Len(Buf) \in Nat
    BY <1>2, <1>6 DEF LinesKept, Offsets, JobsOK
  <2>3. LineOffsets[k] \in Nat
    BY <2>2 DEF LineStarts
  <2> QED
    BY <2>1, <2>3
<1>8. x \in Nat /\ job'[t].old = x
  BY <1>3 DEF Moved, JobsOK, Jobs
<1>9. Ascending'
  <2> HIDE DEF x, n
  <2>1. LineOffsets'[1] = 0
    BY <1>2, <1>6 DEF Ascending
  <2>2. ASSUME NEW k \in 1 .. n + 1, NEW l \in 1 .. n + 1, k < l
        PROVE  LineOffsets'[k] < LineOffsets'[l]
    <3>1. k \in 1 .. n /\ (l \in 1 .. n \/ l = n + 1)
      BY <2>2, <1>6
    <3>2. CASE l \in 1 .. n
      BY <2>2, <3>1, <3>2, <1>2, <1>6 DEF Ascending
    <3>3. CASE l = n + 1
      BY <3>1, <3>3, <1>6, <1>7
    <3> QED
      BY <3>1, <3>2, <3>3
  <2>3. ASSUME NEW k \in 1 .. n + 1
        PROVE  LineOffsets'[k] <= x
    <3>1. k \in 1 .. n \/ k = n + 1
      BY <1>6
    <3> QED
      BY <3>1, <1>6, <1>7, <1>8
  <2> QED
    BY <2>1, <2>2, <2>3, <1>4, <1>6, <1>8 DEF Ascending
<1>10. Colours'
  <2>1. job'[t].sev = job[t].sev /\ job'[t] # Idle /\ job[t] # Idle
    BY <1>1, <1>3, IdleIsIdle DEF Moved
  <2>2. /\ Len(said) >= 1 /\ Coloured(Len(said) - 1)
        /\ job[t].sev = said[Len(said)].sev
    BY <1>2, <2>1 DEF Colours
  <2>3. Coloured(Len(said) - 1)'
    BY <1>1, <2>2 DEF Coloured, Extra, spoken
  <2> QED
    BY <1>1, <1>4, <2>1, <2>2, <2>3 DEF Colours, AllIdle, spoken
<1> QED
  BY <1>5, <1>9, <1>10

LEMMA PushColorKeepsAlone ==
  ASSUME JobsOK, Found, Alone, NEW t \in Threads, PushColor(t)
  PROVE  Alone'
<1>1. /\ job[t].at = "color" /\ job' = [job EXCEPT ![t] = Idle]
      /\ LineColors' = Put(LineColors, job[t].slot, <<job[t].sev>>)
      /\ UNCHANGED <<Buf, LineOffsets, draw, spoken, clears, clearedUnder, torn, guessed>>
  BY DEF PushColor, mishaps
<1> SUFFICES ASSUME ~overlapped, ~clearedUnder
             PROVE  ~torn' /\ ~guessed' /\ OneBusy' /\ ~Clearing' /\ Ascending' /\ Colours'
  BY <1>1 DEF Alone, OneBusy, spoken
<1>2. /\ ~torn /\ ~guessed /\ ~Clearing /\ Apart /\ Ascending /\ Colours /\ job[t] # Idle
      /\ \A u \in Threads : u # t => job[u] = Idle
  BY <1>1, LoneLog
<1>3. \A u \in Threads : job'[u] = Idle /\ job'[u].at = "idle"
  BY <1>1, <1>2, IdleIsIdle DEF JobsOK
<1>4. ~torn' /\ ~guessed' /\ OneBusy' /\ ~Clearing' /\ Ascending'
  BY <1>1, <1>2, <1>3 DEF OneBusy, Clearing, Ascending
<1> DEFINE n == Len(LineColors)  sev == job[t].sev
<1>5. /\ Len(said) >= 1 /\ Len(said) \in Nat /\ Coloured(Len(said) - 1)
      /\ sev = said[Len(said)].sev
  BY <1>2 DEF Colours, JobsOK
<1>6. /\ Len(LineColors') = n + 1 /\ LineColors'[n + 1] = sev
      /\ \A k \in 1 .. n : LineColors'[k] = LineColors[k]
  <2>1. /\ LineColors \in Seq(Severities \cup {White, Garbage})
        /\ sev \in Severities \cup {White, Garbage}
    BY DEF JobsOK, Jobs
  <2>2. LineColors' = Put(LineColors, Len(LineColors), <<sev>>)
    BY <1>1, <1>2 DEF Apart
  <2> HIDE DEF sev
  <2> QED
    BY <2>1, <2>2, PutOne
<1>7. Extra \in {0, 1} /\ Extra' = Extra /\ said' = said
  BY <1>1 DEF Extra, spoken
<1>8. n = Len(said) - 1 + Extra /\ n \in Nat
  <2>1. n = Len(said) - 1 + Extra
    BY <1>5 DEF Coloured
  <2> QED
    BY <2>1, <1>5, <1>7
<1>9. Coloured(Len(said))'
  <2> HIDE DEF n, sev
  <2>1. Len(LineColors') = Len(said) + Extra
    BY <1>5, <1>6, <1>7, <1>8
  <2>2. ASSUME NEW k \in 1 .. Len(said)
        PROVE  LineColors'[k + Extra] = said[k].sev
    <3>1. CASE k = Len(said)
      <4>1. k + Extra = n + 1
        BY <3>1, <1>5, <1>7, <1>8
      <4> QED
        BY <3>1, <4>1, <1>5, <1>6
    <3>2. CASE k # Len(said)
      <4>1. k \in 1 .. Len(said) - 1 /\ k + Extra \in 1 .. n
        BY <3>2, <1>5, <1>7, <1>8
      <4> QED
        BY <4>1, <1>5, <1>6 DEF Coloured
    <3> QED
      BY <3>1, <3>2
  <2> QED
    BY <2>1, <2>2, <1>7 DEF Coloured
<1>10. Colours'
  BY <1>3, <1>7, <1>9 DEF Colours
<1> QED
  BY <1>4, <1>10

LEMMA DrawKeepsAlone ==
  ASSUME JobsOK, Found, Alone,
         \/ BeginClear \/ ClearBuf \/ ClearOffsets \/ BeginFirst \/ PushFirst \/ ClearColors
         \/ BeginLines \/ EndDraw
  PROVE  Alone'
<1> USE DEF text, spoken, mishaps
<1>1. CASE BeginClear
  <2>1. /\ clearedUnder' = (\E t \in Threads : job[t] # Idle) /\ job' = job
        /\ draw' = [draw EXCEPT !.at = "clearBuf"] /\ ~torn' /\ ~guessed' /\ said' = <<>>
        /\ clears' = clears + 1
    BY <1>1 DEF BeginClear
  <2>2. Clearing' /\ clears' # 0
    BY <2>1 DEF JobsOK, Draws, Clearing
  <2> QED
    BY <2>1, <2>2 DEF Alone
<1>2. CASE ClearBuf \/ ClearOffsets \/ BeginFirst \/ PushFirst
  <2>1. /\ Clearing /\ Clearing'
        /\ UNCHANGED <<job, clearedUnder, torn, guessed, overlapped, said, clears>>
    BY <1>2 DEF ClearBuf, ClearOffsets, BeginFirst, PushFirst, JobsOK, Draws, Clearing
  <2> QED
    BY <2>1 DEF Alone
<1>3. CASE ClearColors
  <2>1. /\ draw.at = "clearColors" /\ Clearing /\ ~Clearing' /\ LineColors' = <<>>
        /\ UNCHANGED <<LineOffsets, job, clearedUnder, torn, guessed, overlapped>>
        /\ UNCHANGED <<said, clears>>
    BY <1>3 DEF ClearColors, JobsOK, Draws, Clearing
  <2> SUFFICES ASSUME ~overlapped, ~clearedUnder
               PROVE  ~torn' /\ ~guessed' /\ OneBusy' /\ Ascending' /\ Colours'
    BY <2>1 DEF Alone, OneBusy
  <2>2. ~torn /\ ~guessed /\ said = <<>> /\ clears # 0 /\ OneBusy
    BY <2>1 DEF Alone, OneBusy
  <2>3. AllIdle /\ LineOffsets' = <<0>>
    BY <2>1 DEF Found, Emptied
  <2>4. \A t \in Threads : job'[t] = Idle /\ job'[t].at = "idle"
    BY <2>1, <2>3, IdleIsIdle DEF AllIdle
  <2>5. Ascending'
    BY <2>3, <2>4 DEF Ascending
  <2>6. Coloured(0)'
    <3>1. Extra' = 0 /\ Len(LineColors') = 0
      BY <2>1, <2>2 DEF Extra
    <3> QED
      BY <3>1 DEF Coloured
  <2>7. Len(said') = 0
    BY <2>1, <2>2
  <2> QED
    BY <2>1, <2>2, <2>4, <2>5, <2>6, <2>7 DEF Colours, OneBusy
<1>4. CASE BeginLines \/ EndDraw
  <2>1. /\ UNCHANGED <<text, job, clearedUnder, torn, guessed, overlapped, said, clears>>
        /\ ~Clearing /\ ~Clearing'
    BY <1>4 DEF BeginLines, EndDraw, NotDrawing, Clearing
  <2>2. Ascending => Ascending'
    BY <2>1 DEF Ascending
  <2>3. Colours => Colours'
    BY <2>1 DEF Colours, Coloured, Extra, AllIdle
  <2> QED
    BY <2>1, <2>2, <2>3 DEF Alone
<1> QED
  BY <1>1, <1>2, <1>3, <1>4

LEMMA StepKeepsAlone ==
  ASSUME JobsOK, Found, Alone, [ConsoleNext]_consoleVars
  PROVE  Alone'
<1>1. CASE UNCHANGED consoleVars
  BY <1>1 DEF consoleVars, text, spoken, mishaps, Alone, Ascending, Colours, Coloured, Extra,
              AllIdle, Clearing
<1>2. CASE \E t \in Threads : \E sev \in Severities, msg \in Texts : BeginLog(t, sev, msg)
  BY <1>2, BeginLogKeepsAlone
<1>3. CASE \E t \in Threads : \/ BeginAppend(t) \/ Resize(t) \/ Format(t) \/ ReadNewSize(t)
                              \/ SkipChar(t) \/ FindNewline(t) \/ EndScan(t)
  BY <1>3, LogKeepsAlone
<1>4. CASE \E t \in Threads : PushOffset(t) \/ PushColor(t)
  BY <1>4, PushOffsetKeepsAlone, PushColorKeepsAlone
<1>5. CASE \/ BeginClear \/ ClearBuf \/ ClearOffsets \/ BeginFirst \/ PushFirst
           \/ ClearColors \/ BeginLines \/ EndDraw
  BY <1>5, DrawKeepsAlone
<1> QED
  BY <1>1, <1>2, <1>3, <1>4, <1>5 DEF ConsoleNext

-----------------------------------------------------------------------------
LEMMA IdleLinesAreFound ==
  ASSUME Found, AllIdle, ~Clearing, ~torn, ~clearedUnder
  PROVE  LineStarts \subseteq Offsets /\ (~guessed => Offsets \subseteq LineStarts)
<1>1. LinesKept
  BY DEF Found
<1>2. \A t \in Threads : job[t].at = "idle"
  BY IdleIsIdle DEF AllIdle
<1>3. \A p \in LineStarts : p \in Offsets
  BY <1>1, <1>2 DEF LinesKept, Covers
<1> QED
  BY <1>1, <1>3 DEF LinesKept

LEMMA StepKeepsDrawing ==
  ASSUME JobsOK, Found, Alone, Drawing, [ConsoleNext]_consoleVars
  PROVE  Drawing'
<1> USE DEF text, spoken, mishaps
<1>1. CASE UNCHANGED <<Buf, LineOffsets, draw>> /\ (overlapped => overlapped')
           /\ (clearedUnder => clearedUnder')
  BY <1>1 DEF Drawing, Offsets, LineStarts
<1>2. CASE UNCHANGED consoleVars
  BY <1>1, <1>2 DEF consoleVars
<1>3. CASE \E t \in Threads :
             \/ \E sev \in Severities, msg \in Texts : BeginLog(t, sev, msg)
             \/ ReadNewSize(t) \/ SkipChar(t) \/ FindNewline(t) \/ EndScan(t) \/ PushColor(t)
  <2>1. PICK t \in Threads :
             \/ \E sev \in Severities, msg \in Texts : BeginLog(t, sev, msg)
             \/ ReadNewSize(t) \/ SkipChar(t) \/ FindNewline(t) \/ EndScan(t) \/ PushColor(t)
    BY <1>3
  <2>2. CASE \E sev \in Severities, msg \in Texts : BeginLog(t, sev, msg)
    BY <1>1, <2>2 DEF BeginLog
  <2>3. CASE ReadNewSize(t) \/ SkipChar(t) \/ FindNewline(t) \/ EndScan(t) \/ PushColor(t)
    BY <1>1, <2>3 DEF ReadNewSize, SkipChar, FindNewline, EndScan, PushColor
  <2> QED
    BY <2>1, <2>2, <2>3
<1>4. CASE \E t \in Threads : BeginAppend(t) \/ Resize(t) \/ Format(t) \/ PushOffset(t)
  <2>1. Disturb
    BY <1>4 DEF BeginAppend, Resize, Format, PushOffset
  <2>2. draw'.at = "lines" => draw'.disturbed
    BY <2>1 DEF Disturb, JobsOK, Draws
  <2> QED
    BY <2>2 DEF Drawing
<1>5. CASE BeginLines
  <2>1. /\ draw' = [at |-> "lines", end |-> Len(Buf),
                    disturbed |-> \E t \in Threads : job[t] # Idle]
        /\ UNCHANGED <<text, overlapped, clearedUnder>> /\ ~Clearing
    BY <1>5 DEF BeginLines, Clearing
  <2>2. draw'.end = Len(Buf)
    BY <2>1
  <2>3. ~draw'.disturbed => AllIdle
    BY <2>1 DEF AllIdle
  <2>4. Offsets' = Offsets /\ LineStarts' = LineStarts
    BY <2>1 DEF Offsets, LineStarts
  <2>5. AllIdle /\ ~overlapped /\ ~clearedUnder => Offsets = LineStarts
    BY <2>1, IdleLinesAreFound DEF Alone
  <2> QED
    BY <2>1, <2>2, <2>3, <2>4, <2>5 DEF Drawing
<1>6. CASE \/ BeginClear \/ ClearBuf \/ ClearOffsets \/ BeginFirst \/ PushFirst
           \/ ClearColors \/ EndDraw
  <2>1. draw'.at # "lines"
    <3>1. CASE EndDraw
      BY <3>1 DEF EndDraw, NotDrawing
    <3>2. CASE BeginClear \/ ClearBuf \/ ClearOffsets
      BY <3>2 DEF BeginClear, ClearBuf, ClearOffsets, JobsOK, Draws
    <3>3. CASE BeginFirst \/ PushFirst \/ ClearColors
      BY <3>3 DEF BeginFirst, PushFirst, ClearColors, JobsOK, Draws
    <3> QED
      BY <1>6, <3>1, <3>2, <3>3
  <2> QED
    BY <2>1 DEF Drawing
<1> QED
  BY <1>2, <1>3, <1>4, <1>5, <1>6 DEF ConsoleNext

THEOREM ConsoleInvHolds == ConsoleSpec => []ConsoleInv
<1>1. ConsoleInit => ConsoleInv
  <2> SUFFICES ASSUME ConsoleInit
               PROVE  ConsoleInv
    OBVIOUS
  <2>1. /\ Buf = <<>> /\ LineOffsets = <<0>> /\ LineColors = <<White>>
        /\ logs = 0 /\ said = <<>> /\ clears = 0 /\ draw = NotDrawing
        /\ overlapped = FALSE /\ torn = FALSE /\ guessed = FALSE
        /\ clearedUnder = FALSE
    BY DEF ConsoleInit
  <2>2. /\ job \in [Threads -> Jobs]
        /\ \A t \in Threads : job[t] = Idle /\ job[t].at = "idle"
    BY DEF ConsoleInit, Idle, Jobs
  <2>3. JobsOK
    <3>1. Buf \in Seq(Chars) /\ said \in Seq([sev: Severities, msg: Texts])
      BY <2>1
    <3>2. LineOffsets \in Seq(Nat \cup {Garbage}) /\ LineOffsets # <<>>
      BY <2>1
    <3>3. LineColors \in Seq(Severities \cup {White, Garbage})
      BY <2>1
    <3>4. logs \in 0 .. MaxLogs /\ clears \in 0 .. MaxClears /\ Len(said) <= logs
      BY <2>1, TextsAssumption
    <3>5. draw \in Draws
      BY <2>1 DEF NotDrawing, Draws
    <3> QED
      BY <2>1, <2>2, <3>1, <3>2, <3>3, <3>4, <3>5 DEF JobsOK
  <2>4. draw.at = "out" /\ ~Clearing /\ AllIdle
    BY <2>1, <2>2 DEF NotDrawing, Clearing, AllIdle
  <2>5. Found
    <3>1. Offsets = {0}
      BY <2>1 DEF Offsets
    <3>2. Len(Buf) = 0 /\ \A p : p \notin 1 .. Len(Buf)
      BY <2>1
    <3>3. LineStarts = {0}
      BY <3>2 DEF LineStarts
    <3>4. LinesKept
      <4>1. \A t \in Threads : OldAndNewFit(t)
        BY <2>2 DEF OldAndNewFit
      <4> QED
        BY <3>1, <3>2, <3>3, <4>1 DEF LinesKept
    <3>5. Apart
      BY <2>2 DEF Apart
    <3> QED
      BY <3>4, <3>5, <2>4 DEF Found, Emptied, Clearing
  <2>6. Alone
    <3>1. Ascending
      BY <2>1, <2>2 DEF Ascending
    <3>2. Coloured(0) /\ Len(said) = 0
      BY <2>1 DEF Coloured, Extra
    <3>3. Colours
      BY <2>2, <3>2 DEF Colours
    <3> QED
      BY <2>1, <2>2, <2>4, <3>1, <3>3 DEF Alone
  <2> QED
    BY <2>3, <2>4, <2>5, <2>6 DEF ConsoleInv, Drawing
<1>2. ConsoleInv /\ [ConsoleNext]_consoleVars => ConsoleInv'
  BY StepKeepsJobs, StepKeepsFound, StepKeepsAlone, StepKeepsDrawing DEF ConsoleInv
<1> QED
  BY <1>1, <1>2, PTL DEF ConsoleSpec

(* Whatever runs at once, the containers keep their types, and the drawing  *)
(* loops always find a first line.                                          *)
THEOREM ConsoleTypeIsCorrect == ConsoleSpec => []ConsoleTypeOK
<1>1. ConsoleInv => ConsoleTypeOK
  <2> SUFFICES ASSUME JobsOK
               PROVE  ConsoleTypeOK
    BY DEF ConsoleInv
  <2>1. Buf \in Seq({Newline, Garbage} \cup UNION {{m[k] : k \in DOMAIN m} : m \in Texts})
    BY DEF JobsOK, Chars
  <2>2. \A t \in Threads :
          /\ job[t].at \in {"idle", "size", "append", "format", "newSize", "scan",
                            "offset", "color"}
          /\ job[t].old \in Nat /\ job[t].new \in Nat /\ job[t].slot \in Nat
          /\ job[t].at = "offset" => job[t].old < job[t].new
    BY DEF JobsOK, Jobs, Steps
  <2> QED
    BY <2>1, <2>2 DEF JobsOK, ConsoleTypeOK
<1> QED
  BY <1>1, ConsoleInvHolds, PTL

(* Log calls that overlap lose no line, as long as no two of them are in    *)
(* the middle of one container and the user does not clear it under them;   *)
(* and they invent none, unless a scan took unwritten text for a newline.   *)
THEOREM EveryLineIsFound == ConsoleSpec => []LinesAreFound
<1>1. ConsoleInv => LinesAreFound
  BY IdleLinesAreFound DEF ConsoleInv, LinesAreFound, Quiet, AllIdle, Offsets
<1> QED
  BY <1>1, ConsoleInvHolds, PTL

(* One log call at a time keeps the offsets ascending, each a line's start. *)
THEOREM OffsetsKeepAscending == ConsoleSpec => []OffsetsAscend
<1>1. ConsoleInv => OffsetsAscend
  <2> SUFFICES ASSUME ConsoleInv, ~overlapped, ~clearedUnder, ~Clearing
               PROVE  /\ LineOffsets[1] = 0
                      /\ \A k \in DOMAIN LineOffsets :
                           /\ LineOffsets[k] \in LineStarts
                           /\ k > 1 => LineOffsets[k - 1] < LineOffsets[k]
    BY DEF OffsetsAscend
  <2>1. Ascending /\ LinesKept /\ ~guessed
    BY DEF ConsoleInv, Alone, Found
  <2>2. \A k \in DOMAIN LineOffsets : LineOffsets[k] \in LineStarts
    BY <2>1 DEF LinesKept, Offsets
  <2>3. ASSUME NEW k \in DOMAIN LineOffsets, k > 1
        PROVE  LineOffsets[k - 1] < LineOffsets[k]
    <3>1. k - 1 \in DOMAIN LineOffsets /\ k - 1 < k
      <4>1. LineOffsets \in Seq(Nat \cup {Garbage})
        BY DEF ConsoleInv, JobsOK
      <4> QED
        BY <2>3, <4>1
    <3> QED
      BY <3>1, <2>1 DEF Ascending
  <2> QED
    BY <2>1, <2>2, <2>3 DEF Ascending
<1> QED
  BY <1>1, ConsoleInvHolds, PTL

(* A draw that no log call disturbs shows whole lines: every stretch between *)
(* two offsets is one, and so is what follows the last.                      *)
THEOREM DrawingShowsLines == ConsoleSpec => []DrawnLinesAreLines
<1>1. ConsoleInv => DrawnLinesAreLines
  <2> SUFFICES ASSUME ConsoleInv, draw.at = "lines", ~draw.disturbed, ~overlapped,
                      ~clearedUnder, NEW n \in DOMAIN LineOffsets
               PROVE  LET from == LineOffsets[n]  to == LineEnd(n) IN
                      /\ from \in LineStarts /\ from <= to /\ to <= Len(Buf)
                      /\ to = Len(Buf) \/ Buf[to + 1] = Newline
                      /\ \A k \in from + 1 .. to : Buf[k] # Newline
    BY DEF DrawnLinesAreLines
  <2>1. draw.end = Len(Buf) /\ Offsets = LineStarts /\ Ascending /\ Len(Buf) \in Nat
    BY DEF ConsoleInv, Drawing, Alone, Clearing, JobsOK
  <2>2. /\ \A k \in DOMAIN LineOffsets : LineOffsets[k] \in LineStarts
        /\ \A k \in LineStarts : k \in Nat /\ k <= Len(Buf)
    BY <2>1 DEF Offsets, LineStarts
  <2>3. DOMAIN LineOffsets = 1 .. Len(LineOffsets) /\ Len(LineOffsets) \in Nat
    <3>1. LineOffsets \in Seq(Nat \cup {Garbage})
      BY DEF ConsoleInv, JobsOK
    <3> QED
      BY <3>1
  <2> DEFINE from == LineOffsets[n]
             to == LineEnd(n)
  <2>4. from \in LineStarts /\ from \in Nat
    BY <2>2
  <2>5. ASSUME NEW k \in from + 1 .. Len(Buf), Buf[k] = Newline
        PROVE  n < Len(LineOffsets) /\ LineOffsets[n + 1] <= k
    <3>1. k \in LineStarts /\ from < k
      BY <2>1, <2>4, <2>5 DEF LineStarts
    <3>2. PICK m \in DOMAIN LineOffsets : LineOffsets[m] = k
      BY <2>1, <3>1 DEF Offsets
    <3>3. m \in Nat /\ n \in Nat /\ 1 <= n /\ n <= Len(LineOffsets) /\ m <= Len(LineOffsets)
      BY <2>3
    <3>4. n < m
      <4>1. ~(m < n)
        BY <2>1, <2>4, <3>1, <3>2 DEF Ascending
      <4>2. m # n
        BY <2>4, <3>1, <3>2
      <4> QED
        BY <4>1, <4>2, <3>3
    <3>5. n + 1 = m \/ n + 1 < m
      BY <3>3, <3>4
    <3>6. n + 1 \in DOMAIN LineOffsets
      BY <2>3, <3>3, <3>4
    <3>7. LineOffsets[n + 1] \in Nat
      BY <2>2, <3>6
    <3>8. LineOffsets[n + 1] <= k
      BY <2>1, <2>2, <3>1, <3>2, <3>5, <3>6, <3>7 DEF Ascending
    <3> QED
      BY <3>3, <3>4, <3>8
  <2>6. CASE n < Len(LineOffsets)
    <3> DEFINE next == LineOffsets[n + 1]
    <3>1. n + 1 \in DOMAIN LineOffsets /\ n < n + 1
      BY <2>3, <2>6
    <3>2. next \in LineStarts /\ next \in Nat /\ next <= Len(Buf) /\ from < next
      BY <2>1, <2>2, <3>1 DEF Ascending
    <3>3. to = next - 1
      BY <2>6 DEF LineEnd
    <3>4. Buf[next] = Newline
      BY <3>2, <2>4 DEF LineStarts
    <3> HIDE DEF from, to, next
    <3>5. from <= to /\ to <= Len(Buf) /\ to + 1 = next
      BY <2>1, <2>4, <3>2, <3>3
    <3>6. ASSUME NEW k \in from + 1 .. to, Buf[k] = Newline
          PROVE  FALSE
      <4>1. k \in from + 1 .. Len(Buf) /\ ~(next <= k)
        BY <2>1, <2>4, <3>2, <3>3, <3>6
      <4> QED
        BY <4>1, <2>5, <3>6 DEF next
    <3> QED
      BY <2>4, <3>4, <3>5, <3>6 DEF from, to
  <2>7. CASE ~(n < Len(LineOffsets))
    <3>1. to = Len(Buf)
      BY <2>1, <2>7 DEF LineEnd
    <3>2. from <= to
      BY <2>2, <3>1
    <3> HIDE DEF from, to
    <3>3. \A k \in from + 1 .. to : Buf[k] # Newline
      BY <2>5, <2>7, <3>1
    <3> QED
      BY <2>1, <2>4, <3>1, <3>2, <3>3 DEF from, to
  <2> QED
    BY <2>6, <2>7
<1> QED
  BY <1>1, ConsoleInvHolds, PTL

(* Every message has one colour, in the order of the messages, behind the   *)
(* one the constructor pushed until the user clears it away.                *)
THEOREM ColoursFollowMessages == ConsoleSpec => []ColorsLineUp
<1>1. ConsoleInv => ColorsLineUp
  <2> SUFFICES ASSUME ConsoleInv, Quiet, ~overlapped, ~clearedUnder
               PROVE  /\ Len(LineColors) = Len(said) + Extra
                      /\ \A k \in DOMAIN said :
                           LineColors[IF clears = 0 THEN k + 1 ELSE k] = said[k].sev
    BY DEF ColorsLineUp, Extra
  <2>1. Coloured(Len(said))
    BY DEF ConsoleInv, Alone, Quiet, AllIdle, Colours
  <2>2. DOMAIN said = 1 .. Len(said)
    BY DEF ConsoleInv, JobsOK
  <2>3. \A k \in 1 .. Len(said) : (IF clears = 0 THEN k + 1 ELSE k) = k + Extra
    BY DEF Extra
  <2> QED
    BY <2>1, <2>2, <2>3 DEF Coloured
<1> QED
  BY <1>1, ConsoleInvHolds, PTL
=============================================================================
