---------------------------- MODULE ImGuiInput ----------------------------
(***************************************************************************)
(* One pad for the game and for the plugins' windows.  The thread that     *)
(* presents reads the pad at the start of each frame                       *)
(* (helpers/InputHelper.cpp), decides whom it belongs to and passes edges  *)
(* on to ImGui (imgui_backend/imgui_impl_nvn.cpp); hooks on the system's   *)
(* pad functions (program/imgui_nvn.cpp) blank what the game's threads     *)
(* read.  The helper goes through the same hooks: isReadInput lets its own *)
(* read pass, and with it whatever the game reads meanwhile.  ImGui starts *)
(* once the graphics objects it needs have been seen.                      *)
(***************************************************************************)
EXTENDS Naturals

CONSTANTS GameThreads,      \* threads of the game that read the pad
          StickL, StickR,   \* pressing both hands the pad over
          PadLeft,          \* shows and hides the windows
          Others,           \* further buttons
          Mapped            \* the buttons of npad_mapping

Buttons == {StickL, StickR, PadLeft} \cup Others

ASSUME ButtonsAssumption ==
  /\ Mapped \subseteq Buttons
  /\ StickL # StickR

VARIABLES
  captured, hasInitImGui,   \* the objects nvn has initialised; is ImGui up?
  pad,                      \* the buttons somebody holds down
  prev, cur,                \* prevControllerState, curControllerState
  isReadInput, toggleInput,
  keys,                     \* the keys ImGui believes to be down
  isEnabled,                \* procDraw's static: are windows drawn?
  frame,                    \* where the presenting thread is
  game,                     \* per game thread: the read it is in
  sample, before,           \* history: the pad as last read, and the time before
  missed,                   \* history: buttons that last changed while the game had them
  chords, lefts             \* history: parity of chords and of PadLeft's presses

start == <<captured, hasInitImGui>>
helper == <<prev, cur, isReadInput, toggleInput>>
shown == <<keys, isEnabled>>
history == <<sample, before, missed, chords, lefts>>
vars == <<start, pad, helper, shown, frame, game, history>>

(* got: what is in the game's buffer; owner, window: history, whose the    *)
(* pad was during the read, and whether the helper was reading as well.    *)
NotReading == [at |-> "out", got |-> "pad", owner |-> {}, window |-> FALSE]

Init ==
  /\ captured = {} /\ hasInitImGui = FALSE
  /\ pad = {} /\ prev = {} /\ cur = {}
  /\ isReadInput = TRUE /\ toggleInput = FALSE
  /\ keys = {} /\ isEnabled = FALSE
  /\ frame = "out" /\ game = [g \in GameThreads |-> NotReading]
  /\ sample = {} /\ before = {} /\ missed = {} /\ chords = FALSE /\ lefts = FALSE

-----------------------------------------------------------------------------
(* deviceInit, queueInit, cmdBufInit.  A command buffer starts ImGui if the*)
(* others have been seen; if it came too early the next one does.          *)

Initialize(object) ==
  /\ captured' = captured \cup {object}
  /\ hasInitImGui' = \/ hasInitImGui
                     \/ object = "cmdBuf" /\ {"device", "queue"} \subseteq captured
  /\ UNCHANGED <<pad, helper, shown, frame, game, history>>

UsePad(b) ==
  /\ pad' = IF b \in pad THEN pad \ {b} ELSE pad \cup {b}
  /\ UNCHANGED <<start, helper, shown, frame, game, history>>

-----------------------------------------------------------------------------
(* The presenting thread.                                                  *)

(* Mutant: the last frame's state is not kept.                             *)
BeginUpdateMutant ==
  /\ frame = "out" /\ hasInitImGui
  /\ frame' = "style"
  /\ UNCHANGED <<start, pad, helper, shown, game, history>>

BeginUpdate ==
  /\ frame = "out" /\ hasInitImGui
  /\ prev' = cur
  /\ frame' = "style"
  /\ UNCHANGED <<start, pad, cur, isReadInput, toggleInput, shown, game, history>>

InHelper == frame \in {"hid", "close"}

(* Whatever a game thread is reading, it reads while the helper does.      *)
Meet == game' = [g \in GameThreads |->
                   IF game[g].at = "out" THEN game[g]
                   ELSE [game[g] EXCEPT !.window = TRUE]]

OpenWindow ==
  /\ frame = "style"
  /\ isReadInput' = TRUE
  /\ frame' = "hid" /\ Meet
  /\ UNCHANGED <<start, pad, prev, cur, toggleInput, shown, history>>

(* disableButtons, for a thread whose two tests nothing comes between.     *)
Disabled(buttons) == IF ~isReadInput /\ toggleInput THEN {} ELSE buttons

(* A pad of none of the five styles leaves curControllerState as it was.   *)
ReadPad ==
  /\ frame = "hid"
  /\ \/ cur' = Disabled(pad) /\ sample' = pad
     \/ UNCHANGED <<cur, sample>>
  /\ before' = sample
  /\ frame' = "close"
  /\ UNCHANGED <<start, pad, prev, isReadInput, toggleInput, shown, game,
                 missed, chords, lefts>>

(* Mutant: the window stays open.                                          *)
CloseWindowMutant ==
  /\ frame = "close" /\ frame' = "finish"
  /\ UNCHANGED <<start, pad, helper, shown, game, history>>

CloseWindow ==
  /\ frame = "close"
  /\ isReadInput' = FALSE
  /\ frame' = "finish"
  /\ UNCHANGED <<start, pad, prev, cur, toggleInput, shown, game, history>>

Presses == cur \ prev
Releases == prev \ cur

(* Mutant: holding both sticks is enough.                                  *)
IsChordMutant == {StickL, StickR} \subseteq cur

IsChord ==
  \/ StickL \in cur /\ StickR \in Presses
  \/ StickR \in cur /\ StickL \in Presses

Both(buttons) == {StickL, StickR} \subseteq buttons

(* The rest of updatePadState, updateGamepad and procDraw's switch.        *)
FinishUpdate ==
  LET changed == (sample \ before) \cup (before \ sample) IN
  /\ frame = "finish"
  /\ toggleInput' = IF IsChord THEN ~toggleInput ELSE toggleInput
  /\ keys' = IF toggleInput' THEN (keys \cup (Presses \cap Mapped)) \ Releases ELSE keys
  /\ isEnabled' = IF PadLeft \in Presses THEN ~isEnabled ELSE isEnabled
  /\ frame' = "out"
  /\ game' = [g \in GameThreads |->
                IF game[g].at = "out" THEN game[g]
                ELSE [game[g] EXCEPT !.owner = @ \cup {toggleInput'}]]
  /\ missed' = IF toggleInput' THEN missed \ changed ELSE missed \cup changed
  /\ chords' = IF Both(sample) /\ ~Both(before) THEN ~chords ELSE chords
  /\ lefts' = IF PadLeft \in sample \ before THEN ~lefts ELSE lefts
  /\ UNCHANGED <<start, pad, prev, cur, isReadInput, sample, before>>

-----------------------------------------------------------------------------
(* A game thread reads the pad: the system fills its buffer, disableButtons*)
(* tests isReadInput, then toggleInput, and blanks the buffer.             *)

GameReads(g) ==
  /\ game[g].at = "out"
  /\ game' = [game EXCEPT ![g] = [at |-> "test", got |-> "pad",
                                  owner |-> {toggleInput}, window |-> InHelper]]
  /\ UNCHANGED <<start, pad, helper, shown, frame, history>>

TestRead(g) ==
  /\ game[g].at = "test"
  /\ game' = [game EXCEPT ![g].at = IF isReadInput THEN "done" ELSE "toggle"]
  /\ UNCHANGED <<start, pad, helper, shown, frame, history>>

TestToggle(g) ==
  /\ game[g].at = "toggle"
  /\ game' = [game EXCEPT ![g] = [at |-> "done",
                                  got |-> IF toggleInput THEN "blank" ELSE game[g].got,
                                  owner |-> game[g].owner, window |-> game[g].window]]
  /\ UNCHANGED <<start, pad, helper, shown, frame, history>>

GameUses(g) ==
  /\ game[g].at = "done"
  /\ game' = [game EXCEPT ![g] = NotReading]
  /\ UNCHANGED <<start, pad, helper, shown, frame, history>>

-----------------------------------------------------------------------------
Next ==
  \/ \E object \in {"device", "queue", "cmdBuf"} : Initialize(object)
  \/ \E b \in Buttons : UsePad(b)
  \/ BeginUpdate \/ OpenWindow \/ ReadPad \/ CloseWindow \/ FinishUpdate
  \/ \E g \in GameThreads :
       GameReads(g) \/ TestRead(g) \/ TestToggle(g) \/ GameUses(g)

Spec == Init /\ [][Next]_vars

-----------------------------------------------------------------------------
(* Every variable has its type; ImGui gets no key that no button has, and  *)
(* no frame runs before ImGui does.                                        *)
TypeOK ==
  /\ captured \subseteq {"device", "queue", "cmdBuf"}
  /\ hasInitImGui \in BOOLEAN
  /\ hasInitImGui => captured = {"device", "queue", "cmdBuf"}
  /\ frame \in {"out", "style", "hid", "close", "finish"} /\ (frame = "out" \/ hasInitImGui)
  /\ \A s \in {pad, prev, cur, sample, before, missed} : s \subseteq Buttons
  /\ keys \subseteq Mapped
  /\ \A b \in {isReadInput, toggleInput, isEnabled, chords, lefts} : b \in BOOLEAN
  /\ game \in [GameThreads -> [at : {"out", "test", "toggle", "done"}, got : {"pad", "blank"},
                               owner : SUBSET BOOLEAN, window : BOOLEAN]]

(* The pad belongs to one side: a game thread gets the buttons if the      *)
(* windows did not have them at any time of its read, and nothing if they  *)
(* had them all the time; except for a read that met the helper's own,     *)
(* which may get the buttons too (imgui_nvn.cpp 105-112, InputHelper.cpp   *)
(* 89-106).                                                                *)
PadHasOneOwner ==
  \A g \in GameThreads : game[g].at = "done" =>
    /\ TRUE \notin game[g].owner => game[g].got = "pad"
    /\ FALSE \notin game[g].owner /\ ~game[g].window => game[g].got = "blank"

(* Between frames ImGui's keys are the buttons as last read, but for those *)
(* that changed while the game had the pad, until they change again: a     *)
(* button released then stays down for ImGui.  No edge is lost or doubled  *)
(* by a frame that finds no pad (imgui_impl_nvn.cpp 577-600).              *)
KeysFollowThePad ==
  frame = "out" =>
    \A b \in Mapped \ missed : b \in keys <=> b \in sample

(* The pad changes hands once for each time both sticks go down, in either *)
(* order or at once, however long they are held, and in both directions:   *)
(* the helper is not blinded by its own hooks.  The windows likewise       *)
(* switch once per press of PadLeft (InputHelper.cpp 81-83, imgui_nvn.cpp  *)
(* 183-186).                                                               *)
SwitchesCountPresses ==
  frame = "out" => toggleInput = chords /\ isEnabled = lefts
=============================================================================
