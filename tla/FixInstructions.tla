--------------------------- MODULE FixInstructions ---------------------------
(***************************************************************************)
(* The relocation of a hooked function's first instructions into its       *)
(* trampoline: __fix_instructions of src/src/lib/hook/nx64/hook_impl.cpp.   *)
(* What depends on the program counter is rewritten for its new place, the *)
(* rest is copied, and a jump back to the function ends the trampoline.     *)
(* An address is the number of its 32-bit word; only adr has bytes below.   *)
(***************************************************************************)
EXTENDS Integers, Sequences, FiniteSets

CONSTANTS Count,         \* instructions that move: 1, 4 or 5
          Instructions,  \* the ones to choose from
          InBase,        \* where the function begins
          OutBases,      \* where its trampoline may
          RwDelta        \* from there to its writable alias

BranchOps == {"b", "bl"}
CondOps == {"b.c", "tbz"}
LoadOps == {"ldr", "ldrv", "ldrsw"}
Ops == BranchOps \cup CondOps \cup LoadOps \cup {"prfm", "adr", "adrp", "other"}

(* off is the signed offset in words, of adrp in pages; size the words a    *)
(* load's literal is copied in; lsb the bytes of an adr below the word.     *)
Instruction == [op : Ops, off : Int, size : {1, 2, 4}, lsb : 0 .. 3]

MaxReferences == 10

(* Mutant: room for a long jump each, and neither padding nor literals. *)
TrampolineSizeMutant == 5 * 4

TrampolineSize == 5 * 10
PageWords == 1024

ASSUME WindowAssumption ==
  /\ Count \in 1 .. 5 /\ Instructions \subseteq Instruction
  /\ InBase \in Nat /\ OutBases \subseteq Nat /\ RwDelta \in Int

VARIABLES
  outBase,  \* where the trampoline is
  window,   \* the instructions fixed so far
  code,     \* the trampoline's words
  dat,      \* context::dat[].ins: the new address of each instruction
  fmap,     \* context::dat[].fmap: words that wait for that address
  start,    \* history: where the words of each instruction, and the jump, begin
  done      \* the jump back has been written

vars == <<outBase, window, code, dat, fmap, start, done>>

Init ==
  /\ outBase \in OutBases
  /\ window = <<>> /\ code = <<>> /\ start = <<>> /\ done = FALSE
  /\ dat = [i \in 0 .. Count - 1 |-> 0]
  /\ fmap = [i \in 0 .. Count - 1 |-> {}]

-----------------------------------------------------------------------------
(* The context.                                                            *)

Current == Len(window)
At(i) == InBase + i
Here == outBase + Len(code)
Abs(x) == IF x < 0 THEN -x ELSE x
InFixingRange(a) == a \in InBase .. InBase + Count - 1
RefIndex(a) == a - InBase

(* A word of the trampoline; arg is an offset in words or a literal. *)
WordOps == Ops \cup {"nop", "lit", "data", "ldr17", "br17", "adr30", "ldrx"}
Words == [op : WordOps, arg : Int, size : Nat, rd : Nat]
Word(op, arg) == [op |-> op, arg |-> arg, size |-> 2, rd |-> 0]
Nops(n) == [k \in 1 .. n |-> Word("nop", 0)]
Literal(a) == <<Word("lit", a), Word("lit", a)>>

(* What a field of that many bits reads back as. *)
Bits(op) == IF op \in BranchOps THEN 26 ELSE IF op = "tbz" THEN 14 ELSE 19
Field(op, off) ==
  LET half == 2 ^ (Bits(op) - 1) IN ((off + half) % (2 * half)) - half

(* A conditional branch has its offset in such a field.                     *)
ASSUME OffsetsAssumption ==
  \A ins \in Instructions :
    ins.op \in CondOps => LET half == 2 ^ (Bits(ins.op) - 1) IN ins.off \in -half .. half - 1

(* The trampolines are the hook library's memory, no function's literals.   *)
ASSUME LiteralsAssumption ==
  \A ins \in Instructions, i \in 0 .. Count - 1, base \in OutBases :
    ins.op \in LoadOps => At(i) + ins.off \notin base .. base + TrampolineSize - 1

(* An int32_t that "& ~3u" made unsigned before it joined an int64_t. *)
ZeroExtended(off) == IF off < 0 THEN off + 2 ^ 30 ELSE off

(* Mutant: the page is that of the trampoline. *)
AbsoluteAddrMutant(ins) ==
  LET pc == At(Current)
      page == (Here \div PageWords) * PageWords
  IN CASE ins.op \in BranchOps -> pc + ins.off
       [] ins.op \in CondOps   -> pc + (ins.off % 2 ^ Bits(ins.op))
       [] ins.op = "adrp"      -> page + ZeroExtended(ins.off * PageWords)
       [] OTHER                -> pc + ZeroExtended(ins.off)

(* absolute_addr: sign-extended for branches alone. *)
AbsoluteAddr(ins) ==
  LET pc == At(Current)
      page == (pc \div PageWords) * PageWords
  IN CASE ins.op \in BranchOps -> pc + ins.off
       [] ins.op \in CondOps   -> pc + (ins.off % 2 ^ Bits(ins.op))
       [] ins.op = "adrp"      -> page + ZeroExtended(ins.off * PageWords)
       [] OTHER                -> pc + ZeroExtended(ins.off)

ProcessFixMap(words, i, address) ==
  [k \in 1 .. Len(words) |->
     IF k \in fmap[i]
     THEN [words[k] EXCEPT
             !.arg = Field(words[k].op, address - (outBase + k - 1))]
     ELSE words[k]]

InsertFixMap(i, k) ==
  IF Cardinality(fmap[i]) < MaxReferences
  THEN [fmap EXCEPT ![i] = @ \cup {k}]
  ELSE fmap

(* Every fixer ends like this: its words are out, address is where the      *)
(* instruction is now, and the words that waited for it are completed.      *)
Emit(ins, words, address, map) ==
  /\ code' = ProcessFixMap(code \o words, Current, address)
  /\ dat' = [dat EXCEPT ![Current] = address]
  /\ fmap' = [map EXCEPT ![Current] = {}]
  /\ window' = Append(window, ins)
  /\ start' = Append(start, Here)
  /\ UNCHANGED <<outBase, done>>

(* A nop where the literal that follows n words on is not aligned. *)
Padding(n) == (Here + n) % 2

(* An instruction that keeps its form and refers to the window: an earlier  *)
(* target has its address, a later one will complete the word.              *)
RefOffset(ins) ==
  LET ref == RefIndex(AbsoluteAddr(ins))
  IN IF ref < Current THEN dat[ref] - Here ELSE 0

RefMap(ins) ==
  LET ref == RefIndex(AbsoluteAddr(ins))
  IN IF ref > Current THEN InsertFixMap(ref, Len(code) + 1) ELSE fmap

Reencode(ins, rd) ==
  LET target == AbsoluteAddr(ins)
      special == InFixingRange(target)
      off == IF special THEN RefOffset(ins) ELSE target - Here
  IN Emit(ins,
          <<[Word(ins.op, Field(ins.op, off)) EXCEPT !.rd = rd]>>,
          Here, IF special THEN RefMap(ins) ELSE fmap)

IsFar(ins, reach) ==
  LET target == AbsoluteAddr(ins)
  IN ~InFixingRange(target) /\ Abs(target - Here) >= reach

-----------------------------------------------------------------------------
(* The fixers.                                                             *)

(* The literal of the long bl is one word further on. *)
FixBranchImm(ins) ==
  /\ ins.op \in BranchOps
  /\ IF ~IsFar(ins, 2 ^ 25 - 1)
     THEN Reencode(ins, 0)
     ELSE LET n == Padding(IF ins.op = "b" THEN 2 ELSE 3)
              words == IF ins.op = "b"
                       THEN <<Word("ldr17", 2), Word("br17", 0)>>
                       ELSE <<Word("ldr17", 3), Word("adr30", 4), Word("br17", 0)>>
          IN Emit(ins, Nops(n) \o words \o Literal(AbsoluteAddr(ins)), Here + n, fmap)

(* Mutant: the branch around the long jump falls short of its literal. *)
FixCondBranchMutant(ins) ==
  /\ ins.op \in CondOps
  /\ IF ~IsFar(ins, 2 ^ (Bits(ins.op) - 1) - 1)
     THEN Reencode(ins, 0)
     ELSE Emit(ins,
               Nops(Padding(4))
                 \o <<Word(ins.op, 2), Word("b", 4), Word("ldr17", 2), Word("br17", 0)>>
                 \o Literal(AbsoluteAddr(ins)),
               Here, fmap)

(* The condition leads to a long jump, its negation around it. *)
FixCondBranch(ins) ==
  /\ ins.op \in CondOps
  /\ IF ~IsFar(ins, 2 ^ (Bits(ins.op) - 1) - 1)
     THEN Reencode(ins, 0)
     ELSE Emit(ins,
               Nops(Padding(4))
                 \o <<Word(ins.op, 2), Word("b", 5), Word("ldr17", 2), Word("br17", 0)>>
                 \o Literal(AbsoluteAddr(ins)),
               Here, fmap)

(* A prefetch is dropped. *)
FixPrefetch(ins) == ins.op = "prfm" /\ Emit(ins, <<>>, Here, fmap)

(* The mask leaves the width's bits to a negative offset: a 32-bit load     *)
(* becomes one of 64 bits, one of a vector register an invalid one.         *)
WidthAfter(ins, off) ==
  CASE off >= 0 \/ ins.op = "ldrsw" -> ins.size
    [] off < 0 /\ ins.op = "ldr"    -> 2
    [] off < 0 /\ ins.op = "ldrv"   -> 8

(* A literal out of reach, or in the window, is copied behind the load. *)
FixLoadLit(ins) ==
  /\ ins.op \in LoadOps
  /\ LET target == AbsoluteAddr(ins)
         copied == \/ InFixingRange(target)
                   \/ Abs(target - Here) + ins.size - 1 >= 2 ^ 18 - 1
         n == IF copied THEN (0 - Here - 2) % ins.size
                        ELSE (target - Here) % ins.size
         off == target - Here - n
         load == IF copied
                 THEN <<[Word("ldr", 2) EXCEPT !.size = ins.size],
                        Word("b", 1 + ins.size)>>
                      \o [k \in 1 .. ins.size |-> Word("data", target)]
                 ELSE <<[Word("ldr", Field("ldr", off)) EXCEPT
                           !.size = WidthAfter(ins, off)]>>
     IN Emit(ins, Nops(n) \o load, Here + n, fmap)

(* The long form of adr and adrp: a literal of 64 bits. *)
LoadAddress(a) == <<Word("ldrx", 2), Word("b", 3)>> \o Literal(a)

(* The low bits of a new offset end up in the register's number. *)
FixAdr(ins) ==
  /\ ins.op = "adr"
  /\ LET target == AbsoluteAddr(ins)
         far == /\ ~InFixingRange(target)
                /\ LET off == target - Here
                   IN Abs(off) > 2 ^ 18 \/ Abs(4 * off + ins.lsb) >= 2 ^ 20 - 1
         n == Padding(2)
     IN IF far
        THEN Emit(ins, Nops(n) \o LoadAddress(target), Here + n, fmap)
        ELSE Reencode(ins, IF InFixingRange(target) THEN 0 ELSE 8 * ins.lsb)

(* The address that is noted is the writable alias's, unless a nop resets   *)
(* it.  A page that begins in the window is left to the copied instruction. *)
FixAdrp(ins) ==
  /\ ins.op = "adrp"
  /\ LET page == AbsoluteAddr(ins)
         n == Padding(2)
     IN IF InFixingRange(page)
        THEN Emit(ins, <<Word("adrp", ins.off)>>, Here + RwDelta, fmap)
        ELSE Emit(ins, Nops(n) \o LoadAddress(page),
                  Here + (IF n = 1 THEN 1 ELSE RwDelta), fmap)

CopyInstruction(ins) ==
  ins.op = "other" /\ Emit(ins, <<Word("other", 0)>>, Here, fmap)

FixInstruction(ins) ==
  \/ FixBranchImm(ins) \/ FixCondBranch(ins)
  \/ FixPrefetch(ins) \/ FixLoadLit(ins)
  \/ FixAdr(ins) \/ FixAdrp(ins)
  \/ CopyInstruction(ins)

(* Mutant: a trampoline next to its function returns one word early. *)
JumpBackMutant ==
  /\ Current = Count /\ ~done
  /\ LET callback == At(Count)
         n == Padding(2)
     IN code' = code \o
          (IF Abs(callback - Here) >= 2 ^ 25 - 1
           THEN Nops(n) \o <<Word("ldr17", 2), Word("br17", 0)>> \o Literal(callback)
           ELSE <<Word("b", callback - Here - 1)>>)
  /\ start' = start \o <<Here, outBase + Len(code')>>
  /\ done' = TRUE
  /\ UNCHANGED <<outBase, window, dat, fmap>>

JumpBack ==
  /\ Current = Count /\ ~done
  /\ LET callback == At(Count)
         n == Padding(2)
     IN code' = code \o
          (IF Abs(callback - Here) >= 2 ^ 25 - 1
           THEN Nops(n) \o <<Word("ldr17", 2), Word("br17", 0)>> \o Literal(callback)
           ELSE <<Word("b", callback - Here)>>)
  /\ start' = start \o <<Here, outBase + Len(code')>>
  /\ done' = TRUE
  /\ UNCHANGED <<outBase, window, dat, fmap>>

Finished == done /\ UNCHANGED vars

Next ==
  \/ Current < Count /\ \E ins \in Instructions : FixInstruction(ins)
  \/ JumpBack
  \/ Finished

Spec == Init /\ [][Next]_vars

-----------------------------------------------------------------------------
(* What the processor does with the trampoline's words; on data it stays.   *)

InCode(a) == a \in outBase .. outBase + Len(code) - 1
WordAt(a) == code[a - outBase + 1]

Execute(r, taken) ==
  LET w == WordAt(r.pc)
      to == r.pc + w.arg
      next == [r EXCEPT !.pc = @ + 1]
  IN CASE w.op = "b"      -> [r EXCEPT !.pc = to]
       [] w.op = "bl"     -> [r EXCEPT !.pc = to, !.x30 = r.pc + 1]
       [] w.op \in CondOps -> IF taken THEN [r EXCEPT !.pc = to] ELSE next
       [] w.op = "ldr17"  -> [next EXCEPT !.x17 = WordAt(to).arg]
       [] w.op = "adr30"  -> [next EXCEPT !.x30 = to]
       [] w.op = "br17"   -> [r EXCEPT !.pc = r.x17]
       [] w.op = "ldrx"   -> [next EXCEPT !.value = WordAt(to).arg]
       [] w.op = "ldr"    -> [next EXCEPT !.size = w.size,
                                !.value = IF InCode(to) THEN WordAt(to).arg ELSE to]
       [] w.op = "adr"    -> [next EXCEPT !.value = to, !.rd = w.rd]
       [] w.op = "adrp"   -> [next EXCEPT !.value =
                                (r.pc \div PageWords + w.arg) * PageWords]
       [] w.op \in {"nop", "other"} -> next
       [] OTHER            -> r

(* The state in which control leaves the words of the i-th instruction.     *)
Outcome(i, taken) ==
  LET own == start[i + 1] .. start[i + 2] - 1
      run[n \in 0 .. 8] ==
        IF n = 0
        THEN [pc |-> start[i + 1], x17 |-> 0, x30 |-> 0, value |-> 0, size |-> 0, rd |-> 0]
        ELSE LET r == run[n - 1] IN IF r.pc \in own THEN Execute(r, taken) ELSE r
  IN run[8]

(* Where the instruction at i would have gone, or looked.                   *)
Target(i) ==
  LET ins == window[i + 1]
  IN IF ins.op = "adrp" THEN (At(i) \div PageWords + ins.off) * PageWords
                        ELSE At(i) + ins.off

(* The address a, or its place in the trampoline if a has moved.            *)
IsAt(a, target) ==
  IF InFixingRange(target)
  THEN LET j == RefIndex(target)
       IN /\ a \in start[j + 1] .. start[j + 2]
          /\ \A b \in start[j + 1] .. a - 1 : WordAt(b).op = "nop"
  ELSE a = target

Indices(ops) == {i \in 0 .. Count - 1 : window[i + 1].op \in ops}

ReachesTarget(i) ==
  /\ IsAt(Outcome(i, TRUE).pc, Target(i))
  /\ window[i + 1].op \in CondOps => Outcome(i, FALSE).pc = start[i + 2]
  /\ window[i + 1].op = "bl" => Outcome(i, TRUE).x30 = start[i + 2]

GetsValue(i) ==
  LET r == Outcome(i, TRUE)
      ins == window[i + 1]
  IN /\ r.pc = start[i + 2]
     /\ IF ins.op \in LoadOps
        THEN r.value = Target(i) /\ r.size = ins.size
        ELSE IsAt(r.value, Target(i)) /\ r.rd = 0

-----------------------------------------------------------------------------
(* Properties.                                                             *)

TypeOK ==
  /\ outBase \in OutBases
  /\ window \in Seq(Instructions) /\ Len(window) <= Count
  /\ start \in Seq(Int) /\ Len(start) = Len(window) + (IF done THEN 2 ELSE 0)
  /\ code \in Seq(Words)
  /\ dat \in [0 .. Count - 1 -> Int]
  /\ fmap \in [0 .. Count - 1 -> SUBSET (1 .. Len(code))]
  /\ done \in BOOLEAN

(* The words of every window, padding and the jump back included, fit the   *)
(* trampoline: the check in front of it counts ten words an instruction     *)
(* and none for the jump.                                                   *)
TrampolineFits == Len(code) <= TrampolineSize

(* A word waits for an instruction that is still to come, and no reference  *)
(* is dropped because a map is full: at the end nothing is incomplete.      *)
ReferencesAreCompleted ==
  /\ \A i \in 0 .. Count - 1 :
       i < Current => fmap[i] = {}
  /\ \A i \in 0 .. Count - 1 : Cardinality(fmap[i]) <= Current

(* A branch in the trampoline goes where it went in the function, or to its *)
(* target's new place; its return address and its other way lead on to the  *)
(* next instruction.  Conditional branches backwards, whose offset loses    *)
(* its sign, and targets that are an adrp (noted at the alias) are left out. *)
BranchesReachTheirTargets ==
  done => \A i \in Indices(BranchOps \cup CondOps) :
    \/ window[i + 1].op \in CondOps /\ window[i + 1].off < 0
    \/ InFixingRange(Target(i)) /\ window[RefIndex(Target(i)) + 1].op = "adrp"
    \/ ReachesTarget(i)

(* A register gets in the trampoline what it got in the function.  Left out *)
(* are negative offsets, which lose their sign; a near load that is too     *)
(* narrow for its new negative offset; a near adr below the word; the       *)
(* address of an adrp; and a page that begins in the window.                *)
ValuesAreKept ==
  done => \A i \in Indices(LoadOps \cup {"adr", "adrp"}) :
    LET ins == window[i + 1]
    IN \/ ins.off < 0
       \/ /\ ins.op \in LoadOps /\ WidthAfter(ins, -1) # ins.size
          /\ Target(i) < start[i + 1]
       \/ ins.op = "adr" /\ ins.lsb # 0 /\ WordAt(start[i + 1]).op = "adr"
       \/ /\ InFixingRange(Target(i))
          /\ ins.op = "adrp" \/ window[RefIndex(Target(i)) + 1].op = "adrp"
       \/ GetsValue(i)

(* The trampoline goes on in the function behind the window, after its last *)
(* instruction as after every other that does not branch.                   *)
LeadsBackToFunction ==
  done => /\ \A i \in Indices({"prfm", "other"}) : Outcome(i, TRUE).pc = start[i + 2]
          /\ Outcome(Count, TRUE).pc = At(Count)

(* hook_impl.cpp:215-224 and 371-381: conditional branches, adr and adrp    *)
(* are relative to the program counter, in both directions, and stay so.    *)
PcRelativeFormsAreKept ==
  done => \A i \in Indices(CondOps \cup {"adr", "adrp"}) :
    \/ InFixingRange(Target(i)) /\ window[RefIndex(Target(i)) + 1].op = "adrp"
    \/ IF window[i + 1].op \in CondOps THEN ReachesTarget(i) ELSE GetsValue(i)
=============================================================================
