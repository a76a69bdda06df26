-------------------------- MODULE ExceptionHandler --------------------------
(***************************************************************************)
(* The CPU exception handler of src/src/program/exception.  Phase one runs *)
(* in the kernel's user exception entry and copies the faulting context to *)
(* the one global exceptionInfo; phase two (assembly) adds x9-x29 and      *)
(* switches to the one handlerStack; phase three asks the thread's         *)
(* innermost catch frame, or the installed handler; phase four reloads     *)
(* x9-x29 and traps with svc #0xBEEF, which brings phase one back to       *)
(* restore the rest.                                                       *)
(*                                                                         *)
(* A thread's context is its nesting of tryCatch calls, and whose callee-  *)
(* saved registers (x19-x28) it has: those of the nesting level `regs`.    *)
(* The kernel lets one thread at a time into the exception entry, so phase *)
(* one is one step; it is free again as soon as phase one has returned.    *)
(***************************************************************************)
EXTENDS Integers, Sequences, FiniteSets

CONSTANTS Threads,
          MaxDepth    \* bound: nesting of tryCatch in one thread

ASSUME ThreadsAssumption == Threads # {} /\ MaxDepth \in Nat \ {0}

VARIABLES
  pc,              \* where each thread is
  depth,           \* nesting of tryCatch around the running code
  regs,            \* the nesting level x19-x28 belong to
  frames,          \* the list of CatchStackFrames in thread-local storage
  kernelPart,      \* exceptionInfo: r0-r8, lr, sp, pc
  userPart,        \* exceptionInfo: x9-x29
  exceptionState,  \* exceptionInfo.exceptionState
  alive,           \* the process has not been terminated
  clobbered        \* history: a fault was stored over an answer not yet resumed

thread == <<pc, depth, regs, frames>>
exceptionInfo == <<kernelPart, userPart, exceptionState>>
vars == <<thread, exceptionInfo, alive, clobbered>>

Levels == 0 .. MaxDepth

(* What phase one saves: the thread, its nesting, and whether the context   *)
(* resumes in popCatch instead of at the faulting instruction.              *)
Context(t, d, caught) == [thread |-> t, depth |-> d, caught |-> caught]
Contexts == [thread: Threads, depth: Levels, caught: BOOLEAN]

(* What phase two saves. *)
Registers == [thread: Threads, level: Levels]

(* A CatchStackFrame: the nesting and the registers of tryCatch's caller. *)
Frames == [depth: Levels, regs: Levels]

Init ==
  /\ pc = [t \in Threads |-> "run"]
  /\ depth = [t \in Threads |-> 0]
  /\ regs = [t \in Threads |-> 0]
  /\ frames = [t \in Threads |-> <<>>]
  /\ kernelPart \in [thread: Threads, depth: {0}, caught: {FALSE}]
  /\ userPart \in [thread: {kernelPart.thread}, level: {0}]
  /\ exceptionState = "FirstChance"
  /\ alive = TRUE
  /\ clobbered = FALSE

-----------------------------------------------------------------------------
(* tryCatch.                                                               *)

(* tryCatch up to the call of tryFunc; inside, x19-x28 are the callee's. *)
EnterTry(t) ==
  /\ alive /\ pc[t] = "run" /\ depth[t] < MaxDepth
  /\ frames' = [frames EXCEPT ![t] =
                  <<[depth |-> depth[t], regs |-> regs[t]]>> \o @]
  /\ depth' = [depth EXCEPT ![t] = @ + 1]
  /\ regs' = [regs EXCEPT ![t] = depth[t] + 1]
  /\ UNCHANGED <<pc, exceptionInfo, alive, clobbered>>

(* tryFunc returned: tryCatch reloads x19-x28 from the frame and pops it. *)
LeaveTry(t) ==
  /\ alive /\ pc[t] = "run" /\ frames[t] # <<>>
  /\ depth' = [depth EXCEPT ![t] = Head(frames[t]).depth]
  /\ regs' = [regs EXCEPT ![t] = Head(frames[t]).regs]
  /\ frames' = [frames EXCEPT ![t] = Tail(@)]
  /\ UNCHANGED <<pc, exceptionInfo, alive, clobbered>>

(* Mutant: popCatch leaves one level too many. *)
popCatchMutant(t) ==
  /\ alive /\ pc[t] = "popCatch" /\ frames[t] # <<>>
  /\ frames' = [frames EXCEPT ![t] = Tail(@)]
  /\ depth' = [depth EXCEPT ![t] = @ - 1]
  /\ pc' = [pc EXCEPT ![t] = "run"]
  /\ UNCHANGED <<regs, exceptionInfo, alive, clobbered>>

(* A caught thread resumes in popCatch, which drops the frame and returns  *)
(* to tryCatch's caller.                                                   *)
popCatch(t) ==
  /\ alive /\ pc[t] = "popCatch" /\ frames[t] # <<>>
  /\ frames' = [frames EXCEPT ![t] = Tail(@)]
  /\ pc' = [pc EXCEPT ![t] = "run"]
  /\ UNCHANGED <<depth, regs, exceptionInfo, alive, clobbered>>

-----------------------------------------------------------------------------
(* The four phases.                                                        *)

(* Phase one, another exception being handled: the process ends. *)
SecondFault(t) ==
  /\ alive /\ pc[t] \in {"run", "phaseThree"}
  /\ exceptionState = "SecondChance"
  /\ alive' = FALSE
  /\ UNCHANGED <<thread, exceptionInfo, clobbered>>

(* Mutant: a fault is taken while another is being handled. *)
FirstFaultMutant(t) ==
  /\ alive /\ pc[t] \in {"run", "phaseThree"}
  /\ exceptionState' = "SecondChance"
  /\ kernelPart' = Context(t, depth[t], FALSE)
  /\ pc' = [pc EXCEPT ![t] = "phaseTwo"]
  /\ clobbered' = (clobbered \/ exceptionState \in {"Continue", "Exit"})
  /\ UNCHANGED <<depth, regs, frames, userPart, alive>>

(* Phase one: the context is saved, whatever exceptionInfo held. *)
FirstFault(t) ==
  /\ alive /\ pc[t] \in {"run", "phaseThree"}
  /\ exceptionState # "SecondChance"
  /\ exceptionState' = "SecondChance"
  /\ kernelPart' = Context(t, depth[t], FALSE)
  /\ pc' = [pc EXCEPT ![t] = "phaseTwo"]
  /\ clobbered' = (clobbered \/ exceptionState \in {"Continue", "Exit"})
  /\ UNCHANGED <<depth, regs, frames, userPart, alive>>

PhaseTwo(t) ==
  /\ alive /\ pc[t] = "phaseTwo"
  /\ userPart' = [thread |-> t, level |-> regs[t]]
  /\ pc' = [pc EXCEPT ![t] = "phaseThree"]
  /\ UNCHANGED <<depth, regs, frames, kernelPart, exceptionState, alive, clobbered>>

(* Mutant: the stack pointer is not taken from the frame. *)
CatchContinuesMutant(t) ==
  /\ alive /\ pc[t] = "phaseThree" /\ frames[t] # <<>>
  /\ kernelPart' = Context(t, depth[t], TRUE)
  /\ exceptionState' = "Continue"
  /\ pc' = [pc EXCEPT ![t] = "phaseFour"]
  /\ UNCHANGED <<depth, regs, frames, userPart, alive, clobbered>>

(* tryCallCatch accepts: sp, fp, lr and pc come from the frame.  x19-x28   *)
(* do not: the copy's destination is the frame's own array, not info.r.    *)
CatchContinues(t) ==
  /\ alive /\ pc[t] = "phaseThree" /\ frames[t] # <<>>
  /\ kernelPart' = Context(t, Head(frames[t]).depth, TRUE)
  /\ exceptionState' = "Continue"
  /\ pc' = [pc EXCEPT ![t] = "phaseFour"]
  /\ UNCHANGED <<depth, regs, frames, userPart, alive, clobbered>>

(* The catch function refuses; outer frames and the handler are not asked. *)
CatchExits(t) ==
  /\ alive /\ pc[t] = "phaseThree" /\ frames[t] # <<>>
  /\ exceptionState' = "Exit"
  /\ pc' = [pc EXCEPT ![t] = "phaseFour"]
  /\ UNCHANGED <<depth, regs, frames, kernelPart, userPart, alive, clobbered>>

(* No frame: handlerFunc decides. *)
HandlerDecides(t) ==
  /\ alive /\ pc[t] = "phaseThree" /\ frames[t] = <<>>
  /\ exceptionState' \in {"Continue", "Exit"}
  /\ pc' = [pc EXCEPT ![t] = "phaseFour"]
  /\ UNCHANGED <<depth, regs, frames, kernelPart, userPart, alive, clobbered>>

(* Mutant: phase four does not trap. *)
PhaseFourMutant(t) ==
  /\ alive /\ pc[t] = "phaseFour"
  /\ regs' = [regs EXCEPT ![t] = userPart.level]
  /\ UNCHANGED <<pc, depth, frames, exceptionInfo, alive, clobbered>>

PhaseFour(t) ==
  /\ alive /\ pc[t] = "phaseFour"
  /\ regs' = [regs EXCEPT ![t] = userPart.level]
  /\ pc' = [pc EXCEPT ![t] = IF userPart.thread = t THEN "trap" ELSE "strayTrap"]
  /\ UNCHANGED <<depth, frames, exceptionInfo, alive, clobbered>>

(* Phase one again, for svc #0xBEEF: the thread gets whatever context      *)
(* exceptionInfo holds now.  With another thread's it is lost.             *)
Resume(t) ==
  /\ alive /\ pc[t] \in {"trap", "strayTrap"}
  /\ exceptionState # "Exit"
  /\ exceptionState' = "FirstChance"
  /\ IF pc[t] = "strayTrap" \/ kernelPart.thread # t
     THEN /\ pc' = [pc EXCEPT ![t] = "lost"]
          /\ UNCHANGED depth
     ELSE /\ pc' = [pc EXCEPT ![t] = IF kernelPart.caught THEN "popCatch" ELSE "run"]
          /\ depth' = [depth EXCEPT ![t] = kernelPart.depth]
  /\ UNCHANGED <<regs, frames, kernelPart, userPart, alive, clobbered>>

Exit(t) ==
  /\ alive /\ pc[t] \in {"trap", "strayTrap"}
  /\ exceptionState = "Exit"
  /\ exceptionState' = "FirstChance"
  /\ alive' = FALSE
  /\ UNCHANGED <<thread, kernelPart, userPart, clobbered>>

(* The process is gone, or no thread runs code of its own any more. *)
Terminated ==
  /\ ~alive \/ \A t \in Threads : pc[t] = "lost"
  /\ UNCHANGED vars

-----------------------------------------------------------------------------
Phases(t) ==
  \/ PhaseTwo(t) \/ CatchContinues(t) \/ CatchExits(t) \/ HandlerDecides(t)
  \/ PhaseFour(t) \/ Resume(t) \/ Exit(t) \/ popCatch(t)

Program(t) == EnterTry(t) \/ LeaveTry(t) \/ FirstFault(t) \/ SecondFault(t)

Next == (\E t \in Threads : Phases(t) \/ Program(t)) \/ Terminated

(* The phases are straight-line code around a catch function that returns; *)
(* nothing obliges a thread to fault or to enter a try.                    *)
Fairness == \A t \in Threads : WF_vars(Phases(t))

Spec == Init /\ [][Next]_vars /\ Fairness

-----------------------------------------------------------------------------
(* Properties.                                                             *)

PCs == {"run", "phaseTwo", "phaseThree", "phaseFour", "trap", "strayTrap",
        "popCatch", "lost"}

TypeOK ==
  /\ pc \in [Threads -> PCs]
  /\ depth \in [Threads -> Levels]
  /\ regs \in [Threads -> Levels]
  /\ frames \in [Threads -> Seq(Frames)]
  /\ kernelPart \in Contexts
  /\ userPart \in Registers
  /\ exceptionState \in {"FirstChance", "SecondChance", "Continue", "Exit"}
  /\ alive \in BOOLEAN /\ clobbered \in BOOLEAN

OnHandlerStack(t) == pc[t] \in {"phaseTwo", "phaseThree"}
Answered(t) == pc[t] \in {"phaseFour", "trap", "strayTrap"}
Handling(t) == OnHandlerStack(t) \/ Answered(t)

(* One stack and one exceptionInfo serve every thread, and no lock guards    *)
(* them: exceptionState keeps a second thread off the stack, unless a fault  *)
(* was stored between an answer and its resumption.                          *)
HandlerStackIsExclusive ==
  ~clobbered => \A t, u \in Threads : OnHandlerStack(t) /\ OnHandlerStack(u) => t = u

(* A thread resumes with its own context and never with another's, under     *)
(* the same condition: that window is the only one.                          *)
ResumesOwnContext == ~clobbered => \A t \in Threads : pc[t] # "lost"

(* The list of frames follows the nesting of tryCatch through returns,       *)
(* faults that resume and faults that are caught at any level.               *)
FramesFollowNesting ==
  \A t \in Threads : pc[t] \in {"run", "phaseTwo", "phaseThree"} =>
    /\ Len(frames[t]) = depth[t]
    /\ \A n \in 1 .. Len(frames[t]) : frames[t][n].depth = depth[t] - n

(* A caught exception lands in the caller of the innermost tryCatch, even    *)
(* when another thread's fault came between the answer and the landing.      *)
CaughtLandsInCaller ==
  \A t \in Threads : pc[t] = "popCatch" =>
    frames[t] # <<>> /\ Head(frames[t]).depth = depth[t]

(* "caught exceptions will do this bit on their own" (ExceptionHandler.s     *)
(* l.80-81, of the reload of x19-x28 that LeaveTry performs): code between   *)
(* handled exceptions has the callee-saved registers of its own level.       *)
CalleeSavedRestored == \A t \in Threads : pc[t] = "run" => regs[t] = depth[t]

(* A fault is answered: the thread goes on, or the process ends.             *)
FaultIsAnswered ==
  \A t \in Threads :
    pc[t] = "phaseTwo" ~> (pc[t] \in {"run", "lost"} \/ ~alive)
=============================================================================
