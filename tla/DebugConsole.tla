---------------------------- MODULE DebugConsole ----------------------------
(***************************************************************************)
(* The log window (ui/ImGuiDebugConsole.cpp): one text buffer, the offsets *)
(* of its lines and a colour per message.  Any thread of the game logs into*)
(* it through Logger::sendLog, the thread that presents draws and clears   *)
(* it, and nothing is locked.  A character is ordinary or a newline; the   *)
(* severity's prefix and the time stamp are part of the first one.         *)
(***************************************************************************)
EXTENDS Naturals, Sequences

CONSTANTS Threads,     \* threads that log
          Severities,  \* the colours of LogInfo, LogWarn and LogError
          White,       \* the colour the constructor pushes
          Texts,       \* the messages, as sequences of characters
          Newline,
          Garbage,     \* memory nobody wrote
          MaxLogs,     \* bound: number of messages
          MaxClears    \* bound: how often the user clears

(* No message holds what stands for unwritten memory. *)
ASSUME TextsAssumption ==
  /\ \A m \in Texts : m \in Seq({m[k] : k \in DOMAIN m} \ {Garbage})
  /\ Garbage # Newline /\ MaxLogs \in Nat /\ MaxClears \in Nat

VARIABLES
  Buf, LineOffsets, LineColors,
  job,         \* per thread: the AddLog it is in, or Idle
  draw,        \* the presenting thread
  logs,        \* number of messages so far
  said,        \* history: messages whose AddLog began since the last Clear
  clears,      \* how often the user has cleared
  overlapped,  \* history: two AddLogs ran at once since the last Clear
  torn,        \* history: ... and met in a container one of them was growing
  guessed,     \* history: ... and one took unwritten text for a newline
  clearedUnder \* history: the last Clear ran while an AddLog did

text == <<Buf, LineOffsets, LineColors>>
spoken == <<logs, said, overlapped>>
mishaps == <<torn, guessed, clearedUnder>>
consoleVars == <<text, job, draw, spoken, clears, mishaps>>

Idle == [at |-> "idle", sev |-> White, msg |-> <<>>, old |-> 0, new |-> 0, slot |-> 0]
NotDrawing == [at |-> "out", end |-> 0, disturbed |-> FALSE]

ConsoleInit ==
  /\ Buf = <<>> /\ LineOffsets = <<0>> /\ LineColors = <<White>>
  /\ job = [t \in Threads |-> Idle] /\ draw = NotDrawing
  /\ logs = 0 /\ said = <<>> /\ clears = 0
  /\ overlapped = FALSE /\ torn = FALSE /\ guessed = FALSE /\ clearedUnder = FALSE

(* ImGui's vectors: an append reads the size, and writes behind it and      *)
(* stores the new size later.  What another thread did in between is lost, *)
(* and what it removed comes back as garbage.                              *)
Put(s, slot, tail) ==
  [k \in 1 .. slot + Len(tail) |->
     IF k > slot THEN tail[k - slot] ELSE IF k <= Len(s) THEN s[k] ELSE Garbage]

Clearing == draw.at \in {"clearBuf", "clearOffsets", "first", "pushFirst", "clearColors"}

Disturb == draw' = [draw EXCEPT !.disturbed = @ \/ draw.at = "lines"]

-----------------------------------------------------------------------------
(* AddLog.  Go(t, at, f) moves thread t on with the fields f of its job.   *)

Go(t, at, old, new, slot) ==
  job' = [job EXCEPT ![t] =
            [@ EXCEPT !.at = at, !.old = old, !.new = new, !.slot = slot]]

(* Another thread is at one of these steps. *)
Meets(t, steps) == \E u \in Threads \ {t} : job[u].at \in steps

(* Thread t read the size of a container and will store behind it, or move  *)
(* it first: it must not meet a thread at one of these steps.               *)
Enter(t, at, old, new, slot, steps) ==
  /\ Go(t, at, old, new, slot)
  /\ torn' = (torn \/ Meets(t, steps))

BeginLog(t, sev, msg) ==
  /\ job[t] = Idle /\ logs < MaxLogs
  /\ job' = [job EXCEPT ![t] = [Idle EXCEPT !.at = "size", !.sev = sev, !.msg = msg,
                                            !.old = Len(Buf)]]
  /\ logs' = logs + 1 /\ said' = Append(said, [sev |-> sev, msg |-> msg])
  /\ overlapped' = (overlapped \/ \E u \in Threads : job[u] # Idle)
  /\ clearedUnder' = (clearedUnder \/ Clearing)
  /\ UNCHANGED <<text, draw, clears, torn, guessed>>

(* appendfv reads the size, and may then move the text to a larger buffer.  *)
BeginAppend(t) ==
  /\ job[t].at = "size"
  /\ Enter(t, "append", job[t].old, 0, Len(Buf), {"append", "format"}) /\ Disturb
  /\ UNCHANGED <<text, spoken, clears, guessed, clearedUnder>>

(* It stores the new size ... *)
Resize(t) ==
  /\ job[t].at = "append"
  /\ Buf' = [k \in 1 .. job[t].slot + Len(job[t].msg) |->
               IF k <= Len(Buf) THEN Buf[k] ELSE Garbage]
  /\ Go(t, "format", job[t].old, 0, job[t].slot) /\ Disturb
  /\ UNCHANGED <<LineOffsets, LineColors, spoken, clears, mishaps>>

(* ... and writes the characters after that. *)
Format(t) ==
  /\ job[t].at = "format"
  /\ Buf' = [k \in 1 .. Len(Buf) |->
               IF k - job[t].slot \in 1 .. Len(job[t].msg)
               THEN job[t].msg[k - job[t].slot] ELSE Buf[k]]
  /\ Go(t, "newSize", job[t].old, 0, 0) /\ Disturb
  /\ UNCHANGED <<LineOffsets, LineColors, spoken, clears, mishaps>>

(* Mutant: the scan goes to the end this message would have had alone.     *)
ReadNewSizeMutant(t) ==
  /\ job[t].at = "newSize"
  /\ Go(t, "scan", job[t].old, job[t].old + Len(job[t].msg), 0)
  /\ UNCHANGED <<text, draw, spoken, clears, mishaps>>

ReadNewSize(t) ==
  /\ job[t].at = "newSize"
  /\ Go(t, "scan", job[t].old, Len(Buf), 0)
  /\ UNCHANGED <<text, draw, spoken, clears, mishaps>>

(* What the scan may read at its place.  Behind the text is garbage, which  *)
(* may look like anything, and so does text another append moves.           *)
Reads(t) ==
  {IF job[t].old < Len(Buf) THEN Buf[job[t].old + 1] ELSE Garbage}
    \cup (IF Meets(t, {"append"}) THEN {Garbage} ELSE {})

SkipChar(t) ==
  /\ job[t].at = "scan" /\ job[t].old < job[t].new
  /\ Reads(t) # {Newline}
  /\ Enter(t, "scan", job[t].old + 1, job[t].new, 0, {"append"})
  /\ UNCHANGED <<text, draw, spoken, clears, guessed, clearedUnder>>

FindNewline(t) ==
  /\ job[t].at = "scan" /\ job[t].old < job[t].new
  /\ Reads(t) \cap {Newline, Garbage} # {}
  /\ guessed' = (guessed \/ Newline \notin Reads(t))
  /\ Enter(t, "offset", job[t].old, job[t].new, Len(LineOffsets), {"append", "offset"})
  /\ UNCHANGED <<text, draw, spoken, clears, clearedUnder>>

(* Mutant: the offset of the newline itself is pushed.                     *)
PushOffsetMutant(t) ==
  /\ job[t].at = "offset"
  /\ LineOffsets' = Put(LineOffsets, job[t].slot, <<job[t].old>>)
  /\ Go(t, "scan", job[t].old + 1, job[t].new, 0) /\ Disturb
  /\ UNCHANGED <<Buf, LineColors, spoken, clears, mishaps>>

PushOffset(t) ==
  /\ job[t].at = "offset"
  /\ LineOffsets' = Put(LineOffsets, job[t].slot, <<job[t].old + 1>>)
  /\ Go(t, "scan", job[t].old + 1, job[t].new, 0) /\ Disturb
  /\ UNCHANGED <<Buf, LineColors, spoken, clears, mishaps>>

EndScan(t) ==
  /\ job[t].at = "scan" /\ job[t].old >= job[t].new
  /\ Enter(t, "color", 0, 0, Len(LineColors), {"color"})
  /\ UNCHANGED <<text, draw, spoken, clears, guessed, clearedUnder>>

PushColor(t) ==
  /\ job[t].at = "color"
  /\ LineColors' = Put(LineColors, job[t].slot, <<job[t].sev>>)
  /\ job' = [job EXCEPT ![t] = Idle]
  /\ UNCHANGED <<Buf, LineOffsets, draw, spoken, clears, mishaps>>

-----------------------------------------------------------------------------
(* Draw, on the presenting thread: Clear, call by call, if its button was   *)
(* pressed, then the end of the text is taken, and until EndDraw lines are *)
(* read, at any time and the visible ones only; reading changes nothing.   *)

BeginClear ==
  /\ draw.at = "out" /\ clears < MaxClears
  /\ draw' = [draw EXCEPT !.at = "clearBuf"]
  /\ clearedUnder' = \E t \in Threads : job[t] # Idle
  /\ overlapped' = FALSE /\ torn' = FALSE /\ guessed' = FALSE
  /\ said' = <<>> /\ clears' = clears + 1
  /\ UNCHANGED <<text, job, logs>>

ClearBuf ==
  /\ draw.at = "clearBuf"
  /\ Buf' = <<>> /\ draw' = [draw EXCEPT !.at = "clearOffsets"]
  /\ UNCHANGED <<LineOffsets, LineColors, job, spoken, clears, mishaps>>

ClearOffsets ==
  /\ draw.at = "clearOffsets"
  /\ LineOffsets' = <<>> /\ draw' = [draw EXCEPT !.at = "first"]
  /\ UNCHANGED <<Buf, LineColors, job, spoken, clears, mishaps>>

(* The first line's offset is pushed behind the size read here. *)
BeginFirst ==
  /\ draw.at = "first"
  /\ draw' = [draw EXCEPT !.at = "pushFirst", !.end = Len(LineOffsets)]
  /\ UNCHANGED <<text, job, spoken, clears, mishaps>>

(* Mutant: the first line's offset is not pushed.                          *)
PushFirstMutant ==
  /\ draw.at = "pushFirst"
  /\ draw' = [draw EXCEPT !.at = "clearColors"]
  /\ UNCHANGED <<text, job, spoken, clears, mishaps>>

PushFirst ==
  /\ draw.at = "pushFirst"
  /\ LineOffsets' = Put(LineOffsets, draw.end, <<0>>)
  /\ draw' = [draw EXCEPT !.at = "clearColors"]
  /\ UNCHANGED <<Buf, LineColors, job, spoken, clears, mishaps>>

(* Mutant: the list starts with a white line again, as after construction. *)
ClearColorsMutant ==
  /\ draw.at = "clearColors"
  /\ LineColors' = <<White>> /\ draw' = [draw EXCEPT !.at = "cleared"]
  /\ UNCHANGED <<Buf, LineOffsets, job, spoken, clears, mishaps>>

ClearColors ==
  /\ draw.at = "clearColors"
  /\ LineColors' = <<>> /\ draw' = [draw EXCEPT !.at = "cleared"]
  /\ UNCHANGED <<Buf, LineOffsets, job, spoken, clears, mishaps>>

BeginLines ==
  /\ draw.at \in {"out", "cleared"}
  /\ draw' = [at |-> "lines", end |-> Len(Buf),
               disturbed |-> \E t \in Threads : job[t] # Idle]
  /\ UNCHANGED <<text, job, spoken, clears, mishaps>>

(* Mutant: the newline is taken for a part of its line.                    *)
LineEndMutant(n) ==
  IF n < Len(LineOffsets) THEN LineOffsets[n + 1] ELSE draw.end

LineEnd(n) ==
  IF n < Len(LineOffsets) THEN LineOffsets[n + 1] - 1 ELSE draw.end

EndDraw ==
  /\ draw.at = "lines"
  /\ draw' = NotDrawing
  /\ UNCHANGED <<text, job, spoken, clears, mishaps>>

-----------------------------------------------------------------------------
ConsoleNext ==
  \/ \E t \in Threads :
       \/ \E sev \in Severities, msg \in Texts : BeginLog(t, sev, msg)
       \/ BeginAppend(t) \/ Resize(t) \/ Format(t) \/ ReadNewSize(t)
       \/ SkipChar(t) \/ FindNewline(t) \/ PushOffset(t) \/ EndScan(t)
       \/ PushColor(t)
  \/ BeginClear \/ ClearBuf \/ ClearOffsets \/ BeginFirst \/ PushFirst \/ ClearColors
  \/ BeginLines \/ EndDraw

ConsoleSpec == ConsoleInit /\ [][ConsoleNext]_consoleVars

-----------------------------------------------------------------------------
Quiet == ~Clearing /\ \A t \in Threads : job[t] = Idle

LineStarts == {0} \cup {k \in 1 .. Len(Buf) : Buf[k] = Newline}

(* Every variable has its type; there is always a line to draw, whatever   *)
(* runs at once (the clipper's loops index LineOffsets without asking):    *)
(* the list is empty only inside Clear (lines 17-18).                      *)
ConsoleTypeOK ==
  /\ Buf \in Seq({Newline, Garbage} \cup UNION {{m[k] : k \in DOMAIN m} : m \in Texts})
  /\ LineOffsets \in Seq(Nat \cup {Garbage})
  /\ draw.at \in {"first", "pushFirst"} \/ LineOffsets # <<>>
  /\ LineColors \in Seq(Severities \cup {White, Garbage})
  /\ logs \in 0 .. MaxLogs /\ Len(said) <= logs /\ clears \in 0 .. MaxClears
  /\ \A t \in Threads :
       /\ job[t].at \in {"idle", "size", "append", "format", "newSize", "scan",
                         "offset", "color"}
       /\ job[t].old \in Nat /\ job[t].new \in Nat /\ job[t].slot \in Nat
       /\ job[t].at = "offset" => job[t].old < job[t].new

(* Log calls of several threads may run at once and still no line is lost: *)
(* when all have returned, an offset leads to every line, to some perhaps  *)
(* twice.  An offset that leads nowhere is left only by a thread that read *)
(* the text of another before it was written.  Unless two threads met in a *)
(* container one was growing, or the user cleared it under a log call      *)
(* (AddLog, lines 25-29).                                                  *)
LinesAreFound ==
  Quiet /\ ~torn /\ ~clearedUnder =>
    LET offsets == {LineOffsets[k] : k \in DOMAIN LineOffsets} IN
    LineStarts \subseteq offsets /\ (~guessed => offsets \subseteq LineStarts)

(* One log call at a time: at every moment the offsets ascend inside the   *)
(* text, each behind a newline, which is what the drawing loops subtract   *)
(* from each other (lines 168-169, 203-204).                               *)
OffsetsAscend ==
  ~overlapped /\ ~clearedUnder /\ ~Clearing =>
    /\ LineOffsets[1] = 0
    /\ \A k \in DOMAIN LineOffsets :
         /\ LineOffsets[k] \in LineStarts
         /\ k > 1 => LineOffsets[k - 1] < LineOffsets[k]

(* A draw no log call comes between shows whole lines and nothing else.    *)
DrawnLinesAreLines ==
  draw.at = "lines" /\ ~draw.disturbed /\ ~overlapped /\ ~clearedUnder =>
    \A n \in DOMAIN LineOffsets :
      LET from == LineOffsets[n]  to == LineEnd(n) IN
      /\ from \in LineStarts /\ from <= to /\ to <= Len(Buf)
      /\ to = Len(Buf) \/ Buf[to + 1] = Newline
      /\ \A k \in from + 1 .. to : Buf[k] # Newline

(* One-line messages are drawn in their colours once the user has cleared  *)
(* the window.  Until then each is drawn in the colour of the message      *)
(* before it, because the constructor pushed one colour too many (lines    *)
(* 6-12 and 31).                                                           *)
ColorsLineUp ==
  /\ Quiet /\ ~overlapped /\ ~clearedUnder
  /\ \A k \in DOMAIN said : \A c \in DOMAIN said[k].msg :
       said[k].msg[c] = Newline <=> c = Len(said[k].msg)
  => /\ Len(LineColors) = Len(said) + IF clears = 0 THEN 1 ELSE 0
     /\ \A k \in DOMAIN said :
          LineColors[IF clears = 0 THEN k + 1 ELSE k] = said[k].sev
=============================================================================
