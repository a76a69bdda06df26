----------------------- MODULE ExceptionHandlerProofs -----------------------
(***************************************************************************)
(* Proofs about ExceptionHandler for any number of threads and any nesting *)
(* of tryCatch.  Each thread's frames follow its nesting whatever the      *)
(* other threads do; the one stack and the one exceptionInfo belong to one *)
(* thread as long as no fault is stored over an answer.                    *)
(***************************************************************************)
EXTENDS ExceptionHandler, SequenceTheorems, TLAPS

(* The frames of t are those of a nesting of d levels. *)
Nested(t, d) ==
  /\ Len(frames[t]) = d
  /\ \A n \in 1 .. Len(frames[t]) : frames[t][n].depth = d - n

Nesting ==
  \A t \in Threads :
    /\ pc[t] \notin {"popCatch", "lost"} => Nested(t, depth[t])
    /\ pc[t] = "popCatch" => Nested(t, depth[t] + 1)

(* A context of t in exceptionInfo is where t faulted, or, once a frame has  *)
(* caught the fault, the caller of that frame's tryCatch.                    *)
Saved ==
  \A t \in Threads : Handling(t) /\ kernelPart.thread = t =>
    /\ kernelPart.caught =>
         Answered(t) /\ depth[t] > 0 /\ kernelPart.depth = depth[t] - 1
    /\ ~kernelPart.caught => kernelPart.depth = depth[t]

(* While nothing is clobbered, exceptionState and the two halves of          *)
(* exceptionInfo tell which thread is being handled and how far.             *)
Owned ==
  alive /\ ~clobbered =>
    \A t \in Threads :
      /\ OnHandlerStack(t) => exceptionState = "SecondChance"
      /\ Answered(t) => exceptionState \in {"Continue", "Exit"}
      /\ Handling(t) => kernelPart.thread = t
      /\ pc[t] \in {"phaseThree", "phaseFour", "trap"} => userPart.thread = t
      /\ pc[t] # "strayTrap"

IInv ==
  /\ TypeOK /\ Nesting /\ Saved
  /\ Owned /\ HandlerStackIsExclusive /\ ResumesOwnContext

(* What a push and a pop do to a list of frames. *)
LEMMA Push ==
  ASSUME NEW list \in Seq(Frames), NEW frame \in Frames
  PROVE  LET longer == <<frame>> \o list IN
         /\ longer \in Seq(Frames) /\ Len(longer) = Len(list) + 1
         /\ longer[1] = frame
         /\ \A n \in 2 .. Len(longer) : longer[n] = list[n - 1]
OBVIOUS

LEMMA Pop ==
  ASSUME NEW list \in Seq(Frames), list # <<>>
  PROVE  /\ Head(list) \in Frames /\ Head(list) = list[1]
         /\ Tail(list) \in Seq(Frames) /\ Len(Tail(list)) = Len(list) - 1
         /\ Len(list) > 0
         /\ \A n \in 1 .. Len(Tail(list)) : Tail(list)[n] = list[n + 1]
OBVIOUS

LEMMA InitIInv == Init => IInv
<1> SUFFICES ASSUME Init PROVE IInv
  OBVIOUS
<1> USE ThreadsAssumption DEF ThreadsAssumption, Init
<1>1. TypeOK
  <2>1. 0 \in Levels
    BY DEF Levels
  <2>2. kernelPart \in Contexts /\ userPart \in Registers
    BY <2>1 DEF Contexts, Registers
  <2>3. frames \in [Threads -> Seq(Frames)]
    OBVIOUS
  <2>4. pc \in [Threads -> PCs] /\ depth \in [Threads -> Levels] /\ regs \in [Threads -> Levels]
    BY <2>1 DEF PCs
  <2> QED
    BY <2>2, <2>3, <2>4 DEF TypeOK
<1>2. Nesting /\ Saved
  BY DEF Nesting, Nested, Saved, Handling, OnHandlerStack, Answered
<1>3. Owned /\ HandlerStackIsExclusive /\ ResumesOwnContext
  BY DEF Owned, HandlerStackIsExclusive, ResumesOwnContext, Handling,
         OnHandlerStack, Answered
<1> QED
  BY <1>1, <1>2, <1>3 DEF IInv

-----------------------------------------------------------------------------
(* tryCatch pushes a frame of the level it leaves ... *)
LEMMA EnterTryStep == ASSUME IInv, NEW t \in Threads, EnterTry(t) PROVE IInv'
<1> USE ThreadsAssumption
    DEF ThreadsAssumption, IInv, Nesting, Nested, Saved, Owned,
        HandlerStackIsExclusive, ResumesOwnContext, Handling, OnHandlerStack,
        Answered, Context, thread, exceptionInfo, vars, EnterTry
<1> DEFINE frame == [depth |-> depth[t], regs |-> regs[t]]
<1>0. /\ frame \in Frames /\ frames[t] \in Seq(Frames) /\ depth[t] + 1 \in Levels
      /\ frames \in [Threads -> Seq(Frames)]
  <2>1. depth[t] \in Levels /\ regs[t] \in Levels /\ depth[t] + 1 \in Levels
    BY DEF TypeOK, Levels
  <2>2. frame \in Frames
    BY <2>1 DEF Frames
  <2>3. frames[t] \in Seq(Frames) /\ frames \in [Threads -> Seq(Frames)]
    BY DEF TypeOK
  <2> QED
    BY <2>1, <2>2, <2>3
<1>5. frames' = [frames EXCEPT ![t] = <<frame>> \o frames[t]]
  OBVIOUS
<1>1. TypeOK'
  <2>1. frames' \in [Threads -> Seq(Frames)]
    <3> HIDE DEF frame, EnterTry, IInv
    <3> QED
      BY <1>0, <1>5, Push
  <2>2. depth' \in [Threads -> Levels] /\ regs' \in [Threads -> Levels]
    BY <1>0 DEF TypeOK
  <2> QED
    BY <2>1, <2>2 DEF TypeOK
<1>2. Nesting'
  <2> SUFFICES ASSUME NEW u \in Threads
               PROVE  /\ pc'[u] \notin {"popCatch", "lost"} => Nested(u, depth[u])'
                      /\ pc'[u] = "popCatch" => Nested(u, depth[u] + 1)'
    OBVIOUS
  <2>1. CASE u = t
    <3>1. frames'[t] = <<frame>> \o frames[t] /\ depth'[t] = depth[t] + 1 /\ pc'[t] = "run"
      BY <1>0 DEF TypeOK
    <3>2. /\ Len(frames'[t]) = Len(frames[t]) + 1
          /\ frames'[t][1].depth = depth[t]
          /\ \A n \in 2 .. Len(frames'[t]) : frames'[t][n] = frames[t][n - 1]
      BY <1>0, <3>1, Push
    <3>3. depth[t] \in Nat /\ Len(frames[t]) \in Nat
      BY <1>0 DEF TypeOK, Levels
    <3>4. Nested(t, depth[t])
      OBVIOUS
    <3> HIDE DEF IInv, EnterTry, frame
    <3>5. \A n \in 2 .. Len(frames'[t]) : frames[t][n - 1].depth = depth[t] - (n - 1)
      <4> SUFFICES ASSUME NEW n \in 2 .. Len(frames'[t])
                   PROVE  frames[t][n - 1].depth = depth[t] - (n - 1)
        OBVIOUS
      <4>1. n - 1 \in 1 .. Len(frames[t])
        BY <3>2, <3>3
      <4> QED
        BY <3>4, <4>1
    <3>6. Nested(t, depth[t])'
      BY <3>1, <3>2, <3>3, <3>4, <3>5
    <3> HIDE DEF Nested
    <3> QED
      BY <2>1, <3>1, <3>6
  <2>2. CASE u # t
    BY <2>2 DEF TypeOK
  <2> QED
    BY <2>1, <2>2
<1>3. Saved' /\ Owned'
  BY DEF TypeOK, Levels, Contexts, Registers
<1>4. HandlerStackIsExclusive' /\ ResumesOwnContext'
  BY DEF TypeOK, Levels, Contexts, Registers
<1> QED
  BY <1>1, <1>2, <1>3, <1>4

(* ... and takes the level of the innermost frame when it returns. *)
LEMMA LeaveTryStep == ASSUME IInv, NEW t \in Threads, LeaveTry(t) PROVE IInv'
<1> USE ThreadsAssumption
    DEF ThreadsAssumption, IInv, Nesting, Nested, Saved, Owned,
        HandlerStackIsExclusive, ResumesOwnContext, Handling, OnHandlerStack,
        Answered, Context, thread, exceptionInfo, vars, LeaveTry
<1>0. /\ frames[t] \in Seq(Frames) /\ frames[t] # <<>>
      /\ frames \in [Threads -> Seq(Frames)]
      /\ Head(frames[t]) \in Frames /\ Tail(frames[t]) \in Seq(Frames)
  BY Pop DEF TypeOK
<1>1. TypeOK'
  BY <1>0 DEF TypeOK, PCs, Frames
<1>2. Nesting'
  <2> SUFFICES ASSUME NEW u \in Threads
               PROVE  /\ pc'[u] \notin {"popCatch", "lost"} => Nested(u, depth[u])'
                      /\ pc'[u] = "popCatch" => Nested(u, depth[u] + 1)'
    OBVIOUS
  <2>1. CASE u = t
    <3>1. frames'[t] = Tail(frames[t]) /\ pc'[t] = "run"
      BY <1>0 DEF TypeOK
    <3>2. /\ Len(frames'[t]) = Len(frames[t]) - 1 /\ Len(frames[t]) > 0
          /\ Len(frames[t]) \in Nat
          /\ \A n \in 1 .. Len(frames'[t]) : frames'[t][n] = frames[t][n + 1]
      BY <1>0, <3>1, Pop
    <3>3. Nested(t, depth[t]) /\ depth[t] \in Nat
      <4>1. Nested(t, depth[t])
        OBVIOUS
      <4>2. depth[t] \in Nat
        BY DEF TypeOK, Levels
      <4> HIDE DEF Nested
      <4> QED
        BY <4>1, <4>2
    <3>4. depth'[t] = depth[t] - 1
      <4>1. depth'[t] = frames[t][1].depth
        BY <1>0, Pop DEF TypeOK
      <4> QED
        BY <3>2, <3>3, <4>1
    <3> HIDE DEF IInv, LeaveTry
    <3> QED
      BY <2>1, <3>1, <3>2, <3>3, <3>4
  <2>2. CASE u # t
    BY <2>2 DEF TypeOK
  <2> QED
    BY <2>1, <2>2
<1>3. Saved' /\ Owned'
  BY DEF TypeOK, Levels, Contexts, Registers
<1>4. HandlerStackIsExclusive' /\ ResumesOwnContext'
  BY DEF TypeOK, Levels, Contexts, Registers
<1> QED
  BY <1>1, <1>2, <1>3, <1>4

(* A caught thread drops the frame whose caller it has landed in. *)
LEMMA popCatchStep == ASSUME IInv, NEW t \in Threads, popCatch(t) PROVE IInv'
<1> USE ThreadsAssumption
    DEF ThreadsAssumption, IInv, Nesting, Nested, Saved, Owned,
        HandlerStackIsExclusive, ResumesOwnContext, Handling, OnHandlerStack,
        Answered, Context, thread, exceptionInfo, vars, popCatch
<1>0. /\ frames[t] \in Seq(Frames) /\ frames[t] # <<>>
      /\ frames \in [Threads -> Seq(Frames)]
      /\ Head(frames[t]) \in Frames /\ Tail(frames[t]) \in Seq(Frames)
  BY Pop DEF TypeOK
<1>1. TypeOK'
  BY <1>0 DEF TypeOK, PCs, Frames
<1>2. Nesting'
  <2> SUFFICES ASSUME NEW u \in Threads
               PROVE  /\ pc'[u] \notin {"popCatch", "lost"} => Nested(u, depth[u])'
                      /\ pc'[u] = "popCatch" => Nested(u, depth[u] + 1)'
    OBVIOUS
  <2>1. CASE u = t
    <3>1. frames'[t] = Tail(frames[t]) /\ pc'[t] = "run"
      BY <1>0 DEF TypeOK
    <3>2. /\ Len(frames'[t]) = Len(frames[t]) - 1 /\ Len(frames[t]) > 0
          /\ Len(frames[t]) \in Nat
          /\ \A n \in 1 .. Len(frames'[t]) : frames'[t][n] = frames[t][n + 1]
      BY <1>0, <3>1, Pop
    <3>3. Nested(t, depth[t] + 1) /\ depth[t] \in Nat
      BY DEF TypeOK, Levels
    <3>4. depth'[t] = depth[t]
      OBVIOUS
    <3> HIDE DEF IInv, popCatch
    <3> QED
      BY <2>1, <3>1, <3>2, <3>3, <3>4
  <2>2. CASE u # t
    BY <2>2 DEF TypeOK
  <2> QED
    BY <2>1, <2>2
<1>3. Saved'
  BY DEF TypeOK
<1>4. Owned'
  BY DEF TypeOK
<1>5. HandlerStackIsExclusive'
  BY DEF TypeOK
<1>6. ResumesOwnContext'
  BY DEF TypeOK
<1> QED
  BY <1>1, <1>2, <1>3, <1>4, <1>5, <1>6

(* A catch function that accepts: the answer is the frame's level. *)
LEMMA CatchContinuesStep == ASSUME IInv, NEW t \in Threads, CatchContinues(t) PROVE IInv'
<1> USE ThreadsAssumption
    DEF ThreadsAssumption, IInv, Nesting, Nested, Saved, Owned,
        HandlerStackIsExclusive, ResumesOwnContext, Handling, OnHandlerStack,
        Answered, Context, thread, exceptionInfo, vars, CatchContinues
<1>0. /\ Head(frames[t]) \in Frames /\ depth[t] > 0
      /\ Head(frames[t]).depth = depth[t] - 1
  <2>1. frames[t] \in Seq(Frames) /\ frames[t] # <<>> /\ depth[t] \in Nat
    BY DEF TypeOK, Levels
  <2>3. Nested(t, depth[t])
    OBVIOUS
  <2>2. Head(frames[t]) \in Frames /\ Head(frames[t]) = frames[t][1] /\ Len(frames[t]) > 0
    BY <2>1, Pop
  <2> HIDE DEF IInv, CatchContinues
  <2> QED
    BY <2>1, <2>2, <2>3
<1>1. TypeOK'
  <2>1. kernelPart' \in Contexts
    BY <1>0 DEF Contexts, Frames
  <2> QED
    BY <2>1 DEF TypeOK, PCs
<1>2. Nesting'
  BY DEF TypeOK
<1>3. Saved'
  BY <1>0 DEF TypeOK
<1>4. Owned' /\ HandlerStackIsExclusive' /\ ResumesOwnContext'
  BY DEF TypeOK, Contexts
<1> QED
  BY <1>1, <1>2, <1>3, <1>4

(* A thread resumes where its own context says, or is lost. *)
LEMMA ResumeStep == ASSUME IInv, NEW t \in Threads, Resume(t) PROVE IInv'
<1> USE ThreadsAssumption
    DEF ThreadsAssumption, IInv, Nesting, Nested, Saved, Owned,
        HandlerStackIsExclusive, ResumesOwnContext, Handling, OnHandlerStack,
        Answered, Context, thread, exceptionInfo, vars, Resume
<1> DEFINE Own == pc[t] = "trap" /\ kernelPart.thread = t
<1>0. /\ Own => /\ pc' = [pc EXCEPT ![t] = IF kernelPart.caught THEN "popCatch" ELSE "run"]
                 /\ depth' = [depth EXCEPT ![t] = kernelPart.depth]
      /\ ~Own => pc' = [pc EXCEPT ![t] = "lost"] /\ depth' = depth
  BY DEF TypeOK
<1>1. TypeOK'
  <2>1. pc' \in [Threads -> PCs]
    BY <1>0 DEF TypeOK, PCs
  <2>2. depth' \in [Threads -> Levels]
    BY <1>0 DEF TypeOK, Contexts
  <2> QED
    BY <2>1, <2>2 DEF TypeOK
<1>2. Nesting'
  <2>1. CASE ~Own
    BY <1>0, <2>1 DEF TypeOK
  <2>2. CASE Own
    <3>1. Nested(t, depth[t]) /\ depth[t] \in Nat
      BY DEF TypeOK, Levels
    <3>2. IF kernelPart.caught THEN depth'[t] + 1 = depth[t] ELSE depth'[t] = depth[t]
      <4>1. depth'[t] = kernelPart.depth
        BY <1>0, <2>2 DEF TypeOK
      <4>2. IF kernelPart.caught THEN kernelPart.depth = depth[t] - 1
                                 ELSE kernelPart.depth = depth[t]
        BY <2>2
      <4> HIDE DEF IInv, Resume
      <4> QED
        BY <3>1, <4>1, <4>2
    <3>3. pc'[t] = IF kernelPart.caught THEN "popCatch" ELSE "run"
      BY <1>0, <2>2 DEF TypeOK
    <3>4. \A u \in Threads \ {t} : pc'[u] = pc[u] /\ depth'[u] = depth[u]
      BY <1>0, <2>2 DEF TypeOK
    <3>5. frames' = frames
      OBVIOUS
    <3>6. Nesting
      OBVIOUS
    <3>7. \A u \in Threads \ {t} :
            /\ pc'[u] \notin {"popCatch", "lost"} => Nested(u, depth[u])'
            /\ pc'[u] = "popCatch" => Nested(u, depth[u] + 1)'
      BY <3>4, <3>5, <3>6
    <3> HIDE DEF IInv, Resume
    <3>8. CASE kernelPart.caught
      BY <3>1, <3>2, <3>3, <3>5, <3>7, <3>8
    <3>9. CASE ~kernelPart.caught
      BY <3>1, <3>2, <3>3, <3>5, <3>7, <3>9
    <3> QED
      BY <3>8, <3>9
  <2> QED
    BY <2>1, <2>2
<1>3. Saved'
  BY <1>0 DEF TypeOK, Contexts
<1>4. Owned'
  BY DEF TypeOK, Contexts
<1>5. HandlerStackIsExclusive'
  <2>1. \A u \in Threads : OnHandlerStack(u)' => OnHandlerStack(u)
    BY <1>0 DEF TypeOK
  <2> QED
    BY <2>1
<1>6. ResumesOwnContext'
  <2>1. ~clobbered => Own
    OBVIOUS
  <2>2. Own => \A u \in Threads : pc'[u] = "lost" => pc[u] = "lost"
    BY <1>0 DEF TypeOK
  <2> QED
    BY <2>1, <2>2
<1> QED
  BY <1>1, <1>2, <1>3, <1>4, <1>5, <1>6

(* The other steps move one thread from one phase to the next. *)
LEMMA OtherSteps ==
  ASSUME IInv, NEW t \in Threads,
         \/ SecondFault(t) \/ FirstFault(t) \/ PhaseTwo(t) \/ CatchExits(t)
         \/ HandlerDecides(t) \/ PhaseFour(t) \/ Exit(t)
  PROVE  IInv'
<1> USE ThreadsAssumption
    DEF ThreadsAssumption, IInv, Nesting, Nested, Saved, Owned,
        HandlerStackIsExclusive, ResumesOwnContext, Handling, OnHandlerStack,
        Answered, Context, thread, exceptionInfo, vars, TypeOK
<1>1. CASE SecondFault(t)
  <2> USE <1>1 DEF SecondFault
  <2>1. TypeOK'
    BY DEF PCs, Levels, Contexts, Registers
  <2>2. Nesting'
    OBVIOUS
  <2>3. Saved'
    BY DEF Contexts
  <2>4. Owned'
    BY DEF Contexts, Registers
  <2>5. HandlerStackIsExclusive' /\ ResumesOwnContext'
    BY <2>4
  <2> QED
    BY <2>1, <2>2, <2>3, <2>4, <2>5
<1>2. CASE FirstFault(t)
  <2> USE <1>2 DEF FirstFault
  <2>1. TypeOK'
    BY DEF PCs, Levels, Contexts, Registers
  <2>2. Nesting'
    OBVIOUS
  <2>3. Saved'
    BY DEF Contexts
  <2>4. Owned'
    BY DEF Contexts, Registers
  <2>5. HandlerStackIsExclusive' /\ ResumesOwnContext'
    BY <2>4
  <2> QED
    BY <2>1, <2>2, <2>3, <2>4, <2>5
<1>3. CASE PhaseTwo(t)
  <2> USE <1>3 DEF PhaseTwo
  <2>1. TypeOK'
    BY DEF PCs, Levels, Contexts, Registers
  <2>2. Nesting'
    OBVIOUS
  <2>3. Saved'
    BY DEF Contexts
  <2>4. Owned'
    BY DEF Contexts, Registers
  <2>5. HandlerStackIsExclusive' /\ ResumesOwnContext'
    BY <2>4
  <2> QED
    BY <2>1, <2>2, <2>3, <2>4, <2>5
<1>4. CASE CatchExits(t)
  <2> USE <1>4 DEF CatchExits
  <2>1. TypeOK'
    BY DEF PCs, Levels, Contexts, Registers
  <2>2. Nesting'
    OBVIOUS
  <2>3. Saved'
    BY DEF Contexts
  <2>4. Owned'
    BY DEF Contexts, Registers
  <2>5. HandlerStackIsExclusive' /\ ResumesOwnContext'
    BY <2>4
  <2> QED
    BY <2>1, <2>2, <2>3, <2>4, <2>5
<1>5. CASE HandlerDecides(t)
  <2> USE <1>5 DEF HandlerDecides
  <2>1. TypeOK'
    BY DEF PCs, Levels, Contexts, Registers
  <2>2. Nesting'
    OBVIOUS
  <2>3. Saved'
    BY DEF Contexts
  <2>4. Owned'
    BY DEF Contexts, Registers
  <2>5. HandlerStackIsExclusive' /\ ResumesOwnContext'
    BY <2>4
  <2> QED
    BY <2>1, <2>2, <2>3, <2>4, <2>5
<1>6. CASE PhaseFour(t)
  <2> USE <1>6 DEF PhaseFour
  <2>1. TypeOK'
    BY DEF PCs, Levels, Contexts, Registers
  <2>2. Nesting'
    OBVIOUS
  <2>3. Saved'
    BY DEF Contexts
  <2>4. Owned'
    BY DEF Contexts, Registers
  <2>5. HandlerStackIsExclusive' /\ ResumesOwnContext'
    BY <2>4
  <2> QED
    BY <2>1, <2>2, <2>3, <2>4, <2>5
<1>7. CASE Exit(t)
  <2> USE <1>7 DEF Exit
  <2>1. TypeOK'
    BY DEF PCs, Levels, Contexts, Registers
  <2>2. Nesting'
    OBVIOUS
  <2>3. Saved'
    BY DEF Contexts
  <2>4. Owned'
    BY DEF Contexts, Registers
  <2>5. HandlerStackIsExclusive' /\ ResumesOwnContext'
    BY <2>4
  <2> QED
    BY <2>1, <2>2, <2>3, <2>4, <2>5
<1> QED
  BY <1>1, <1>2, <1>3, <1>4, <1>5, <1>6, <1>7

LEMMA IInvHolds == Spec => []IInv
<1>1. IInv /\ [Next]_vars => IInv'
  <2> SUFFICES ASSUME IInv, [Next]_vars PROVE IInv'
    OBVIOUS
  <2>1. ASSUME NEW t \in Threads, Phases(t) \/ Program(t)
        PROVE  IInv'
    BY <2>1, EnterTryStep, LeaveTryStep, popCatchStep, CatchContinuesStep,
       ResumeStep, OtherSteps DEF Phases, Program
  <2>2. CASE UNCHANGED vars
    BY <2>2 DEF IInv, TypeOK, Nesting, Nested, Saved, Owned, HandlerStackIsExclusive,
                ResumesOwnContext, Handling, OnHandlerStack, Answered, vars, thread,
                exceptionInfo
  <2> QED
    BY <2>1, <2>2 DEF Next, Terminated
<1> QED
  BY <1>1, InitIInv, PTL DEF Spec

-----------------------------------------------------------------------------
(* Every variable keeps its type, whatever the order of faults. *)
THEOREM TypeCorrect == Spec => []TypeOK
BY IInvHolds, PTL DEF IInv

(* The one handler stack holds one thread at a time, unless a fault was      *)
(* stored over an answer that had not been resumed.                          *)
THEOREM OneThreadOnTheStack == Spec => []HandlerStackIsExclusive
BY IInvHolds, PTL DEF IInv

(* No thread resumes with another's context, under the same condition.       *)
THEOREM OwnContexts == Spec => []ResumesOwnContext
BY IInvHolds, PTL DEF IInv

(* Frames follow the nesting of tryCatch, whatever other threads do to       *)
(* exceptionInfo.                                                            *)
THEOREM FramesAreRight == Spec => []FramesFollowNesting
<1>1. IInv => FramesFollowNesting
  BY DEF IInv, Nesting, Nested, FramesFollowNesting
<1> QED
  BY <1>1, IInvHolds, PTL

(* A caught thread lands in the caller of its innermost tryCatch.            *)
THEOREM CaughtLandsRight == Spec => []CaughtLandsInCaller
<1>1. IInv => CaughtLandsInCaller
  <2> SUFFICES ASSUME IInv, NEW t \in Threads, pc[t] = "popCatch"
               PROVE  frames[t] # <<>> /\ Head(frames[t]).depth = depth[t]
    BY DEF CaughtLandsInCaller
  <2>1. frames[t] \in Seq(Frames) /\ depth[t] \in Nat /\ Nested(t, depth[t] + 1)
    BY DEF IInv, TypeOK, Nesting, Levels
  <2>2. frames[t] # <<>>
    BY <2>1 DEF Nested
  <2>3. Head(frames[t]) = frames[t][1] /\ 1 \in 1 .. Len(frames[t])
    BY <2>1, <2>2, Pop
  <2>4. frames[t][1].depth = depth[t] + 1 - 1
    BY <2>1, <2>3 DEF Nested
  <2> QED
    BY <2>1, <2>2, <2>3, <2>4
<1> QED
  BY <1>1, IInvHolds, PTL
=============================================================================
