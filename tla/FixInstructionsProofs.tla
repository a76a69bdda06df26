------------------------ MODULE FixInstructionsProofs ------------------------
(***************************************************************************)
(* Proofs about FixInstructions for any instructions, any place of the     *)
(* function and of its trampoline, and any window of up to five: what is   *)
(* written fits the trampoline, no reference is lost, and when the result  *)
(* is executed, branches reach their targets, loads get their values, and  *)
(* control returns to the function.                                        *)
(***************************************************************************)
EXTENDS FixInstructions, FiniteSetTheorems, SequenceTheorems, TLAPS

(* Nine words an instruction at the most: a load of 128 bits is aligned to  *)
(* 16 bytes in front of its literal.  The jump back is five at the most.    *)
LengthOK ==
  /\ ~done => Len(code) <= 9 * Current
  /\ done => Current = Count /\ Len(code) <= 9 * Count + 5

IInv == TypeOK /\ LengthOK /\ ReferencesAreCompleted

(* What a fixer passes on: references to words that are there, at most one  *)
(* more than before, none to an instruction that is already fixed.          *)
MapGrows(map, n) ==
  /\ map \in [0 .. Count - 1 -> SUBSET (1 .. Len(code) + n)]
  /\ \A i \in 0 .. Count - 1 : i < Current => map[i] = {}
  /\ \A i \in 0 .. Count - 1 : Cardinality(map[i]) <= Current + 1

LEMMA InitInv == Init => IInv
<1> SUFFICES ASSUME Init PROVE IInv
  OBVIOUS
<1> USE WindowAssumption DEF Init
<1>1. TypeOK
  <2>1. <<>> \in Seq(Instructions) /\ <<>> \in Seq(Words) /\ <<>> \in Seq(Int)
    OBVIOUS
  <2> QED
    BY <2>1 DEF TypeOK
<1>2. LengthOK
  BY DEF LengthOK, Current
<1>3. ReferencesAreCompleted
  BY FS_EmptySet DEF ReferencesAreCompleted, Current
<1> QED
  BY <1>1, <1>2, <1>3 DEF IInv

-----------------------------------------------------------------------------
(* The operators.                                                          *)

LEMMA WordType ==
  ASSUME NEW op \in WordOps, NEW arg \in Int PROVE Word(op, arg) \in Words
BY DEF Word, Words

LEMMA OpsAreWords ==
  {"nop", "lit", "data", "ldr17", "br17", "adr30", "ldrx", "b", "ldr", "adrp", "other"} \subseteq WordOps
BY DEF WordOps, Ops, BranchOps, LoadOps

LEMMA NopsType == ASSUME NEW n \in Nat PROVE Nops(n) \in Seq(Words) /\ Len(Nops(n)) = n
<1>1. Word("nop", 0) \in Words
  BY WordType, OpsAreWords
<1>2. Nops(n) \in [1 .. n -> Words]
  BY <1>1 DEF Nops
<1> QED
  BY <1>2, SeqDef, LenProperties


LEMMA LiteralType ==
  ASSUME NEW a \in Int PROVE Literal(a) \in Seq(Words) /\ Len(Literal(a)) = 2
BY WordType, OpsAreWords DEF Literal

LEMMA FieldType == ASSUME NEW op, NEW x \in Int PROVE Field(op, x) \in Int
BY DEF Field, Bits

LEMMA ConcatWords ==
  ASSUME NEW v \in Seq(Words), NEW w \in Seq(Words)
  PROVE  v \o w \in Seq(Words) /\ Len(v \o w) = Len(v) + Len(w)
BY ConcatProperties

(* Where the next word goes, and the alignment it may need. *)
LEMMA HereType == ASSUME TypeOK PROVE Here \in Nat /\ Current \in Nat
BY WindowAssumption, LenProperties DEF TypeOK, Here, Current

LEMMA PaddingType ==
  ASSUME TypeOK, NEW n \in Nat PROVE Padding(n) \in 0 .. 1
BY HereType DEF Padding

LEMMA AddressType ==
  ASSUME TypeOK, NEW ins \in Instruction PROVE AbsoluteAddr(ins) \in Int
<1>1. At(Current) \in Int /\ ins.off \in Int
  BY HereType, WindowAssumption DEF At, Instruction
<1>2. ins.off % 2 ^ Bits(ins.op) \in Int
  BY <1>1 DEF Bits
<1>3. \A x \in Int : ZeroExtended(x) \in Int
  BY DEF ZeroExtended
<1>4. At(Current) \div PageWords \in Int /\ PageWords \in Int
  BY <1>1 DEF PageWords
<1>5. ins.off * PageWords \in Int /\ (At(Current) \div PageWords) * PageWords \in Int
  BY <1>1, <1>4
<1>6. ZeroExtended(ins.off * PageWords) \in Int /\ ZeroExtended(ins.off) \in Int
  BY <1>1, <1>3, <1>5
<1> HIDE DEF PageWords
<1> QED
  BY <1>1, <1>2, <1>5, <1>6 DEF AbsoluteAddr

(* The completed words are as many and of the same kind. *)
LEMMA ProcessType ==
  ASSUME TypeOK, NEW words \in Seq(Words), NEW i, NEW address \in Int
  PROVE  /\ ProcessFixMap(words, i, address) \in Seq(Words)
         /\ Len(ProcessFixMap(words, i, address)) = Len(words)
<1>1. ASSUME NEW k \in 1 .. Len(words)
      PROVE  [words[k] EXCEPT !.arg = Field(words[k].op, address - (outBase + k - 1))] \in Words
  <2>1. words[k] \in Words /\ k \in Int
    BY ElementOfSeq
  <2>2. address - (outBase + k - 1) \in Int
    BY WindowAssumption DEF TypeOK
  <2>3. Field(words[k].op, address - (outBase + k - 1)) \in Int
    BY <2>2, FieldType
  <2> QED
    BY <2>1, <2>3 DEF Words
<1>2. ProcessFixMap(words, i, address) \in [1 .. Len(words) -> Words]
  BY <1>1, ElementOfSeq DEF ProcessFixMap
<1>3. Len(words) \in Nat
  BY LenProperties
<1> QED
  BY <1>2, <1>3, SeqDef, LenProperties

-----------------------------------------------------------------------------
(* The references.                                                         *)

LEMMA FiniteMap ==
  ASSUME IInv
  PROVE  \A i \in 0 .. Count - 1 : IsFiniteSet(fmap[i]) /\ Cardinality(fmap[i]) \in Nat
<1>1. Len(code) \in Nat
  BY LenProperties DEF IInv, TypeOK
<1>2. IsFiniteSet(1 .. Len(code))
  BY <1>1, FS_Interval
<1> SUFFICES ASSUME NEW i \in 0 .. Count - 1
             PROVE  IsFiniteSet(fmap[i]) /\ Cardinality(fmap[i]) \in Nat
  OBVIOUS
<1>3. fmap[i] \in SUBSET (1 .. Len(code))
  BY DEF IInv, TypeOK
<1>4. IsFiniteSet(fmap[i])
  BY <1>2, <1>3, FS_Subset
<1> QED
  BY <1>4, FS_CardinalityType

LEMMA SameMapGrows ==
  ASSUME IInv, NEW n \in Nat PROVE MapGrows(fmap, n)
<1>1. Len(code) \in Nat /\ Current \in Nat
  BY LenProperties, HereType DEF IInv, TypeOK
<1>2. 1 .. Len(code) \subseteq 1 .. Len(code) + n
  BY <1>1
<1>3. \A i \in 0 .. Count - 1 : Cardinality(fmap[i]) \in Nat
  BY FiniteMap
<1> QED
  BY <1>1, <1>2, <1>3 DEF IInv, TypeOK, ReferencesAreCompleted, MapGrows

LEMMA InsertedMapGrows ==
  ASSUME IInv, NEW ref \in 0 .. Count - 1, ref > Current
  PROVE  MapGrows(InsertFixMap(ref, Len(code) + 1), 1)
<1> DEFINE k == Len(code) + 1
<1>1. Len(code) \in Nat /\ Current \in Nat /\ Count \in Nat
  BY LenProperties, HereType, WindowAssumption DEF IInv, TypeOK
<1>2. \A i \in 0 .. Count - 1 : IsFiniteSet(fmap[i]) /\ Cardinality(fmap[i]) \in Nat
  BY FiniteMap
<1>3. Cardinality(fmap[ref] \cup {k}) <= Current + 1
  <2>1. IsFiniteSet(fmap[ref]) /\ Cardinality(fmap[ref]) <= Current
    BY <1>2 DEF IInv, ReferencesAreCompleted
  <2>2. Cardinality(fmap[ref] \cup {k}) \in {Cardinality(fmap[ref]), Cardinality(fmap[ref]) + 1}
    BY <2>1, FS_AddElement
  <2> QED
    BY <1>1, <1>2, <2>1, <2>2
<1>4. MapGrows(fmap, 1)
  BY SameMapGrows
<1>5. fmap[ref] \cup {k} \in SUBSET (1 .. Len(code) + 1)
  BY <1>1, <1>4 DEF MapGrows
<1>6. MapGrows([fmap EXCEPT ![ref] = fmap[ref] \cup {k}], 1)
  <2> HIDE DEF k
  <2> QED
    BY <1>1, <1>3, <1>4, <1>5 DEF MapGrows
<1> QED
  BY <1>4, <1>6 DEF InsertFixMap

-----------------------------------------------------------------------------
(* The steps.                                                              *)

LEMMA EmitInv ==
  ASSUME IInv, NEW ins \in Instructions, Current < Count,
         NEW words \in Seq(Words), Len(words) <= 9, NEW address \in Int,
         NEW map, MapGrows(map, Len(words)), Emit(ins, words, address, map)
  PROVE  IInv'
<1> USE DEF IInv
<1>1. /\ Len(code) \in Nat /\ Len(words) \in Nat /\ Current \in Nat /\ Count \in Nat
      /\ Here \in Int /\ Current \in 0 .. Count - 1
  BY LenProperties, HereType, WindowAssumption DEF TypeOK
<1>2. code \o words \in Seq(Words) /\ Len(code \o words) = Len(code) + Len(words)
  BY ConcatProperties DEF TypeOK
<1>3. code' \in Seq(Words) /\ Len(code') = Len(code) + Len(words)
  BY <1>2, ProcessType DEF Emit
<1>4. window' \in Seq(Instructions) /\ Len(window') = Len(window) + 1 /\ Current' = Current + 1
  BY AppendProperties DEF Emit, TypeOK, Current
<1>5. start' \in Seq(Int) /\ Len(start') = Len(start) + 1
  BY <1>1, AppendProperties DEF Emit, TypeOK
<1>6. /\ fmap' \in [0 .. Count - 1 -> SUBSET (1 .. Len(code'))]
      /\ \A i \in 0 .. Count - 1 : fmap'[i] = IF i = Current THEN {} ELSE map[i]
  BY <1>1, <1>3 DEF Emit, MapGrows
<1>7. TypeOK'
  <2>1. dat' \in [0 .. Count - 1 -> Int] /\ outBase' = outBase /\ done' = done
    BY DEF Emit, TypeOK
  <2>2. outBase' \in OutBases /\ done' \in BOOLEAN
    BY <2>1 DEF TypeOK
  <2>3. Len(window') <= Count
    BY <1>1, <1>4 DEF Current
  <2>4. Len(start') = Len(window') + (IF done' THEN 2 ELSE 0)
    <3>1. Len(start) = Len(window) + (IF done THEN 2 ELSE 0) /\ Len(window) \in Nat
      BY <1>1 DEF TypeOK, Current
    <3> QED
      BY <1>4, <1>5, <2>1, <3>1
  <2> QED
    BY <1>3, <1>4, <1>5, <1>6, <2>1, <2>2, <2>3, <2>4 DEF TypeOK
<1>8. LengthOK'
  BY <1>1, <1>3, <1>4 DEF LengthOK, Emit
<1>9. ReferencesAreCompleted'
  <2>1. ASSUME NEW i \in 0 .. Count - 1, i < Current + 1 PROVE fmap'[i] = {}
    BY <1>1, <1>6, <2>1 DEF MapGrows
  <2>2. ASSUME NEW i \in 0 .. Count - 1 PROVE Cardinality(fmap'[i]) <= Current + 1
    <3>1. CASE i = Current
      <4>1. fmap'[i] = {} /\ Cardinality({}) = 0
        BY <1>6, <3>1, FS_EmptySet
      <4> QED
        BY <1>1, <4>1
    <3>2. CASE i # Current
      <4>1. fmap'[i] = map[i]
        BY <1>6, <3>2
      <4> QED
        BY <4>1 DEF MapGrows
    <3> QED
      BY <3>1, <3>2
  <2> QED
    BY <1>4, <2>1, <2>2 DEF ReferencesAreCompleted
<1> QED
  BY <1>7, <1>8, <1>9

LEMMA ReencodeInv ==
  ASSUME IInv, NEW ins \in Instructions, Current < Count, NEW rd \in Nat, Reencode(ins, rd)
  PROVE  IInv'
<1> DEFINE target == AbsoluteAddr(ins)
           ref == RefIndex(target)
           off == IF InFixingRange(target) THEN RefOffset(ins) ELSE target - Here
           word == [Word(ins.op, Field(ins.op, off)) EXCEPT !.rd = rd]
           map == IF InFixingRange(target) THEN RefMap(ins) ELSE fmap
           words == <<word>>
<1>1. /\ ins \in Instruction /\ target \in Int /\ Here \in Int
      /\ Current \in Int /\ InBase \in Int /\ Count \in Int
  BY AddressType, HereType, WindowAssumption DEF IInv
<1>2. InFixingRange(target) => ref \in 0 .. Count - 1
  BY <1>1 DEF InFixingRange, RefIndex
<1>3. off \in Int
  <2> HIDE DEF target
  <2>1. CASE InFixingRange(target)
    <3>1. ref < Current => dat[ref] \in Int
      BY <1>2, <2>1 DEF IInv, TypeOK
    <3> QED
      BY <1>1, <2>1, <3>1 DEF RefOffset, target
  <2> QED
    BY <1>1, <2>1
<1>4. word \in Words
  BY <1>1, <1>3, FieldType DEF Word, Words, WordOps, Instruction
<1>5. MapGrows(map, 1)
  BY <1>2, SameMapGrows, InsertedMapGrows DEF RefMap
<1>6. words \in Seq(Words) /\ Len(words) = 1
  BY <1>4
<1>7. Emit(ins, words, Here, map)
  BY DEF Reencode
<1> HIDE DEF words, word, map
<1>8. Len(words) <= 9 /\ MapGrows(map, Len(words))
  BY <1>5, <1>6
<1> QED
  BY <1>1, <1>6, <1>7, <1>8, EmitInv, Zenon

(* A fixer that leaves the references alone only has to be short enough. *)
LEMMA LongFormInv ==
  ASSUME IInv, NEW ins \in Instructions, Current < Count,
         NEW words \in Seq(Words), Len(words) <= 9, NEW address \in Int,
         Emit(ins, words, address, fmap)
  PROVE  IInv'
<1>1. MapGrows(fmap, Len(words))
  BY LenProperties, SameMapGrows
<1> QED
  BY <1>1, EmitInv

(* Padding, the form's words and its literal. *)
LEMMA LongWords ==
  ASSUME NEW n \in Nat, NEW words \in Seq(Words), NEW a \in Int
  PROVE  /\ Nops(n) \o words \o Literal(a) \in Seq(Words)
         /\ Len(Nops(n) \o words \o Literal(a)) = n + Len(words) + 2
<1> DEFINE nops == Nops(n)
           lit == Literal(a)
           front == nops \o words
<1>1. nops \in Seq(Words) /\ Len(nops) = n
  BY NopsType
<1>2. lit \in Seq(Words) /\ Len(lit) = 2
  BY LiteralType
<1> HIDE DEF nops, lit
<1>3. front \in Seq(Words) /\ Len(front) = n + Len(words)
  BY <1>1, ConcatWords
<1> HIDE DEF front
<1>4. front \o lit \in Seq(Words) /\ Len(front \o lit) = n + Len(words) + 2
  BY <1>2, <1>3, ConcatWords
<1> QED
  BY <1>4 DEF front, nops, lit

LEMMA BranchImmInv ==
  ASSUME IInv, NEW ins \in Instructions, Current < Count, FixBranchImm(ins)
  PROVE  IInv'
<1> DEFINE n == Padding(IF ins.op = "b" THEN 2 ELSE 3)
           words == IF ins.op = "b"
                    THEN <<Word("ldr17", 2), Word("br17", 0)>>
                    ELSE <<Word("ldr17", 3), Word("adr30", 4), Word("br17", 0)>>
<1>1. CASE ~IsFar(ins, 2 ^ 25 - 1)
  BY <1>1, ReencodeInv DEF FixBranchImm
<1>2. CASE IsFar(ins, 2 ^ 25 - 1)
  <2>1. n \in 0 .. 1 /\ Here \in Int /\ AbsoluteAddr(ins) \in Int
    BY PaddingType, HereType, AddressType, WindowAssumption DEF IInv
  <2>2. words \in Seq(Words) /\ Len(words) \in Nat /\ Len(words) <= 3
    BY WordType, OpsAreWords
  <2> DEFINE all == Nops(n) \o words \o Literal(AbsoluteAddr(ins))
  <2>3. Emit(ins, all, Here + n, fmap)
    BY <1>2 DEF FixBranchImm
  <2> HIDE DEF n, words
  <2>4. n \in Nat
    BY <2>1
  <2>5. all \in Seq(Words) /\ Len(all) = n + Len(words) + 2
    BY <2>1, <2>2, <2>4, LongWords, Zenon
  <2> HIDE DEF all
  <2>6. Len(all) <= 9 /\ Here + n \in Int
    BY <2>1, <2>2, <2>5
  <2> QED
    BY <2>1, <2>3, <2>5, <2>6, LongFormInv, Zenon
<1> QED
  BY <1>1, <1>2

LEMMA CondBranchInv ==
  ASSUME IInv, NEW ins \in Instructions, Current < Count, FixCondBranch(ins)
  PROVE  IInv'
<1> DEFINE reach == 2 ^ (Bits(ins.op) - 1) - 1
           n == Padding(4)
           words == <<Word(ins.op, 2), Word("b", 5), Word("ldr17", 2), Word("br17", 0)>>
<1>1. CASE ~IsFar(ins, reach)
  BY <1>1, ReencodeInv DEF FixCondBranch
<1>2. CASE IsFar(ins, reach)
  <2>1. n \in 0 .. 1 /\ Here \in Int /\ AbsoluteAddr(ins) \in Int
    BY PaddingType, HereType, AddressType, WindowAssumption DEF IInv
  <2>2. ins.op \in WordOps
    BY DEF FixCondBranch, WordOps, Ops
  <2>3. words \in Seq(Words) /\ Len(words) = 4
    BY <2>2, WordType, OpsAreWords
  <2> DEFINE all == Nops(n) \o words \o Literal(AbsoluteAddr(ins))
  <2>4. Emit(ins, all, Here, fmap)
    BY <1>2 DEF FixCondBranch
  <2> HIDE DEF n, words
  <2>5. n \in Nat
    BY <2>1
  <2>6. all \in Seq(Words) /\ Len(all) = n + Len(words) + 2
    BY <2>1, <2>3, <2>5, LongWords, Zenon
  <2> HIDE DEF all
  <2>7. Len(all) <= 9
    BY <2>1, <2>3, <2>6
  <2> QED
    BY <2>1, <2>4, <2>6, <2>7, LongFormInv, Zenon
<1> QED
  BY <1>1, <1>2

LEMMA PrefetchInv ==
  ASSUME IInv, NEW ins \in Instructions, Current < Count, FixPrefetch(ins)
  PROVE  IInv'
<1> DEFINE words == <<>>
<1>1. words \in Seq(Words) /\ Len(words) = 0 /\ Here \in Int
  BY EmptySeq, HereType DEF IInv
<1>2. Emit(ins, words, Here, fmap)
  BY DEF FixPrefetch
<1> HIDE DEF words
<1>3. Len(words) <= 9
  BY <1>1
<1> QED
  BY <1>1, <1>2, <1>3, LongFormInv, Zenon

LEMMA LoadLitInv ==
  ASSUME IInv, NEW ins \in Instructions, Current < Count, FixLoadLit(ins)
  PROVE  IInv'
<1> DEFINE target == AbsoluteAddr(ins)
           copied == \/ InFixingRange(target)
                     \/ Abs(target - Here) + ins.size - 1 >= 2 ^ 18 - 1
           n == IF copied THEN (0 - Here - 2) % ins.size
                          ELSE (target - Here) % ins.size
           off == target - Here - n
           data == [k \in 1 .. ins.size |-> Word("data", target)]
           load == IF copied
                   THEN <<[Word("ldr", 2) EXCEPT !.size = ins.size],
                          Word("b", 1 + ins.size)>> \o data
                   ELSE <<[Word("ldr", Field("ldr", off)) EXCEPT
                             !.size = WidthAfter(ins, off)]>>
<1>1. /\ ins \in Instruction /\ ins.size \in {1, 2, 4}
      /\ target \in Int /\ Here \in Int /\ ins.op \in LoadOps
  BY AddressType, HereType, WindowAssumption DEF IInv, FixLoadLit, Instruction
<1>2. n \in 0 .. 3
  <2>1. \A x \in Int : x % ins.size \in 0 .. 3
    BY <1>1
  <2> HIDE DEF target, copied
  <2> QED
    BY <1>1, <2>1
<1>3. Emit(ins, Nops(n) \o load, Here + n, fmap)
  BY DEF FixLoadLit
<1> HIDE DEF target, copied, n
<1>4. data \in Seq(Words) /\ Len(data) = ins.size
  <2>1. Word("data", target) \in Words
    BY <1>1, WordType, OpsAreWords
  <2>2. data \in [1 .. ins.size -> Words]
    BY <2>1
  <2> QED
    BY <1>1, <2>2, SeqDef, LenProperties
<1>5. load \in Seq(Words) /\ Len(load) <= 6
  <2>1. [Word("ldr", 2) EXCEPT !.size = ins.size] \in Words
    BY <1>1, OpsAreWords DEF Word, Words
  <2>2. Word("b", 1 + ins.size) \in Words
    BY <1>1, WordType, OpsAreWords
  <2>3. [Word("ldr", Field("ldr", off)) EXCEPT !.size = WidthAfter(ins, off)] \in Words
    <3>1. off \in Int
      BY <1>1, <1>2
    <3>2. WidthAfter(ins, off) \in Nat
      BY <1>1, <3>1 DEF WidthAfter, LoadOps
    <3> QED
      BY <3>1, <3>2, FieldType, OpsAreWords DEF Word, Words
  <2>4. CASE copied
    <3> DEFINE a == [Word("ldr", 2) EXCEPT !.size = ins.size]
               b == Word("b", 1 + ins.size)
    <3> HIDE DEF a, b, data
    <3>1. <<a, b>> \in Seq(Words) /\ Len(<<a, b>>) = 2
      BY <2>1, <2>2 DEF a, b
    <3>2. <<a, b>> \o data \in Seq(Words) /\ Len(<<a, b>> \o data) = 2 + ins.size
      BY <1>4, <3>1, ConcatProperties
    <3> QED
      BY <1>1, <2>4, <3>2 DEF a, b
  <2>5. CASE ~copied
    BY <2>3, <2>5
  <2> QED
    BY <2>4, <2>5
<1> DEFINE nops == Nops(n)
           all == nops \o load
<1> HIDE DEF load
<1>6. nops \in Seq(Words) /\ Len(nops) = n
  BY <1>2, NopsType
<1>7. Emit(ins, all, Here + n, fmap)
  BY <1>3
<1> HIDE DEF nops
<1>8. all \in Seq(Words) /\ Len(all) <= 9
  BY <1>2, <1>5, <1>6, ConcatWords, LenProperties
<1> HIDE DEF all
<1> QED
  BY <1>1, <1>2, <1>7, <1>8, LongFormInv

LEMMA LoadAddressWords ==
  ASSUME NEW n \in 0 .. 1, NEW a \in Int
  PROVE  /\ Nops(n) \o LoadAddress(a) \in Seq(Words)
         /\ Len(Nops(n) \o LoadAddress(a)) = n + 4
<1> DEFINE nops == Nops(n)
           lit == Literal(a)
           jump == <<Word("ldrx", 2), Word("b", 3)>>
           load == jump \o lit
<1>1. nops \in Seq(Words) /\ Len(nops) = n
  BY NopsType
<1>2. lit \in Seq(Words) /\ Len(lit) = 2
  BY LiteralType
<1>3. jump \in Seq(Words) /\ Len(jump) = 2
  BY WordType, OpsAreWords
<1> HIDE DEF nops, lit, jump
<1>4. load \in Seq(Words) /\ Len(load) = 4
  <2>1. load \in Seq(Words) /\ Len(load) = Len(jump) + Len(lit)
    BY <1>2, <1>3, ConcatWords, Zenon
  <2> HIDE DEF load
  <2> QED
    BY <1>2, <1>3, <2>1
<1> HIDE DEF load
<1>5. nops \o load \in Seq(Words) /\ Len(nops \o load) = n + 4
  BY <1>1, <1>4, ConcatWords
<1> QED
  BY <1>5 DEF nops, load, jump, lit, LoadAddress

LEMMA AdrInv ==
  ASSUME IInv, NEW ins \in Instructions, Current < Count, FixAdr(ins)
  PROVE  IInv'
<1> DEFINE target == AbsoluteAddr(ins)
           n == Padding(2)
           rd == IF InFixingRange(target) THEN 0 ELSE 8 * ins.lsb
<1>1. /\ n \in 0 .. 1 /\ Here \in Int /\ target \in Int /\ rd \in Nat
  BY PaddingType, HereType, AddressType, WindowAssumption DEF IInv, Instruction
<1>2. \/ Emit(ins, Nops(n) \o LoadAddress(target), Here + n, fmap)
      \/ Reencode(ins, rd)
  BY DEF FixAdr
<1> DEFINE all == Nops(n) \o LoadAddress(target)
<1> HIDE DEF target, n, rd
<1>3. all \in Seq(Words) /\ Len(all) = n + 4
  BY <1>1, LoadAddressWords, Zenon
<1>4. Emit(ins, all, Here + n, fmap) \/ Reencode(ins, rd)
  BY <1>2
<1> HIDE DEF all
<1>5. Len(all) <= 9 /\ Here + n \in Int
  BY <1>1, <1>3
<1> QED
  BY <1>1, <1>3, <1>4, <1>5, LongFormInv, ReencodeInv, Zenon

LEMMA AdrpInv ==
  ASSUME IInv, NEW ins \in Instructions, Current < Count, FixAdrp(ins)
  PROVE  IInv'
<1> DEFINE page == AbsoluteAddr(ins)
           n == Padding(2)
           delta == IF n = 1 THEN 1 ELSE RwDelta
<1>1. /\ n \in 0 .. 1 /\ Here \in Int /\ page \in Int /\ ins.off \in Int /\ RwDelta \in Int
  BY PaddingType, HereType, AddressType, WindowAssumption DEF IInv, Instruction
<1>2. \/ Emit(ins, <<Word("adrp", ins.off)>>, Here + RwDelta, fmap)
      \/ Emit(ins, Nops(n) \o LoadAddress(page), Here + delta, fmap)
  BY DEF FixAdrp
<1> DEFINE copy == <<Word("adrp", ins.off)>>
           all == Nops(n) \o LoadAddress(page)
<1>3. copy \in Seq(Words) /\ Len(copy) = 1
  BY <1>1, WordType, OpsAreWords
<1>4. delta \in Int
  BY <1>1
<1> HIDE DEF page, n, delta
<1>5. all \in Seq(Words) /\ Len(all) = n + 4
  BY <1>1, LoadAddressWords, Zenon
<1>6. Emit(ins, copy, Here + RwDelta, fmap) \/ Emit(ins, all, Here + delta, fmap)
  BY <1>2
<1> HIDE DEF copy, all
<1>7. Len(copy) <= 9 /\ Len(all) <= 9
  BY <1>1, <1>3, <1>5
<1>8. Here + RwDelta \in Int /\ Here + delta \in Int
  BY <1>1, <1>4
<1> QED
  BY <1>3, <1>5, <1>6, <1>7, <1>8, LongFormInv, Zenon

LEMMA CopyInv ==
  ASSUME IInv, NEW ins \in Instructions, Current < Count, CopyInstruction(ins)
  PROVE  IInv'
<1> DEFINE words == <<Word("other", 0)>>
<1>1. words \in Seq(Words) /\ Len(words) = 1 /\ Here \in Int
  BY WordType, OpsAreWords, HereType DEF IInv
<1>2. Emit(ins, words, Here, fmap)
  BY DEF CopyInstruction
<1> HIDE DEF words
<1>3. Len(words) <= 9
  BY <1>1
<1> QED
  BY <1>1, <1>2, <1>3, LongFormInv, Zenon

LEMMA JumpBackInv == ASSUME IInv, JumpBack PROVE IInv'
<1> DEFINE callback == At(Count)
           n == Padding(2)
           long == Nops(n) \o <<Word("ldr17", 2), Word("br17", 0)>> \o Literal(callback)
           short == <<Word("b", callback - Here)>>
<1> USE DEF IInv
<1>1. /\ n \in 0 .. 1 /\ Here \in Int /\ callback \in Int /\ Len(code) \in Nat
      /\ outBase \in Int /\ Count \in Nat /\ Current = Count /\ ~done
  <2>1. Count \in Nat /\ callback \in Int /\ Current = Count /\ ~done
    BY WindowAssumption DEF At, JumpBack
  <2>2. outBase \in Int /\ Len(code) \in Nat
    BY WindowAssumption, LenProperties DEF TypeOK
  <2>3. n \in 0 .. 1 /\ Here \in Int
    BY PaddingType, HereType
  <2> QED
    BY <2>1, <2>2, <2>3
<1>2. code' = code \o long \/ code' = code \o short
  BY DEF JumpBack
<1> HIDE DEF callback, n
<1>3. <<Word("ldr17", 2), Word("br17", 0)>> \in Seq(Words) /\ Len(<<Word("ldr17", 2), Word("br17", 0)>>) = 2
  BY WordType, OpsAreWords
<1>4. long \in Seq(Words) /\ Len(long) = n + 4
  <2> DEFINE jump == <<Word("ldr17", 2), Word("br17", 0)>>
  <2>1. jump \in Seq(Words) /\ Len(jump) = 2
    BY <1>3
  <2> HIDE DEF jump
  <2> DEFINE all == Nops(n) \o jump \o Literal(callback)
  <2>2. n \in Nat
    BY <1>1
  <2>3. all \in Seq(Words) /\ Len(all) = n + Len(jump) + 2
    BY <1>1, <2>1, <2>2, LongWords, Zenon
  <2> HIDE DEF all
  <2>4. all \in Seq(Words) /\ Len(all) = n + 4
    BY <1>1, <2>1, <2>3
  <2> QED
    BY <2>4 DEF all, jump
<1>5. short \in Seq(Words) /\ Len(short) = 1
  BY <1>1, WordType, OpsAreWords
<1> HIDE DEF long, short
<1>6. code' \in Seq(Words) /\ Len(code) < Len(code') /\ Len(code') <= Len(code) + 5
  <2>1. ASSUME NEW words \in Seq(Words), 0 < Len(words), Len(words) <= 5, code' = code \o words
        PROVE  code' \in Seq(Words) /\ Len(code) < Len(code') /\ Len(code') <= Len(code) + 5
    <3>1. code' \in Seq(Words) /\ Len(code') = Len(code) + Len(words)
      BY <2>1, ConcatWords DEF TypeOK
    <3>2. Len(words) \in Nat
      BY LenProperties
    <3> QED
      BY <1>1, <2>1, <3>1, <3>2, LenProperties
  <2>2. 0 < Len(long) /\ Len(long) <= 5 /\ 0 < Len(short) /\ Len(short) <= 5
    BY <1>1, <1>4, <1>5
  <2> QED
    BY <1>2, <1>4, <1>5, <2>1, <2>2, Zenon
<1>7. start' \in Seq(Int) /\ Len(start') = Len(start) + 2
  <2>1. outBase + Len(code') \in Int
    BY <1>1, <1>6
  <2>2. <<Here, outBase + Len(code')>> \in Seq(Int) /\ Len(<<Here, outBase + Len(code')>>) = 2
    BY <1>1, <2>1
  <2> QED
    BY <2>2, ConcatProperties DEF JumpBack, TypeOK
<1>8. /\ outBase' = outBase /\ window' = window /\ dat' = dat /\ fmap' = fmap
      /\ done' = TRUE /\ Current' = Current
  BY DEF JumpBack, Current
<1>9. TypeOK'
  <2>1. 1 .. Len(code) \subseteq 1 .. Len(code')
    BY <1>1, <1>6, LenProperties
  <2>2. fmap' \in [0 .. Count - 1 -> SUBSET (1 .. Len(code'))]
    BY <1>8, <2>1 DEF TypeOK
  <2>3. Len(start') = Len(window') + (IF done' THEN 2 ELSE 0)
    <3>1. Len(start) = Len(window) /\ Len(window) \in Nat
      BY <1>1 DEF TypeOK, Current
    <3> QED
      BY <1>7, <1>8, <3>1
  <2> QED
    BY <1>6, <1>7, <1>8, <2>2, <2>3 DEF TypeOK
<1>10. LengthOK'
  BY <1>1, <1>6, <1>8 DEF LengthOK
<1>11. ReferencesAreCompleted'
  BY <1>8 DEF ReferencesAreCompleted
<1> QED
  BY <1>9, <1>10, <1>11

LEMMA NextInv == IInv /\ [Next]_vars => IInv'
<1> SUFFICES ASSUME IInv, [Next]_vars PROVE IInv'
  OBVIOUS
<1>1. ASSUME Current < Count, NEW ins \in Instructions, FixInstruction(ins) PROVE IInv'
  <2>1. CASE FixBranchImm(ins)
    BY <1>1, <2>1, BranchImmInv
  <2>2. CASE FixCondBranch(ins)
    BY <1>1, <2>2, CondBranchInv
  <2>3. CASE FixPrefetch(ins)
    BY <1>1, <2>3, PrefetchInv
  <2>4. CASE FixLoadLit(ins)
    BY <1>1, <2>4, LoadLitInv
  <2>5. CASE FixAdr(ins)
    BY <1>1, <2>5, AdrInv
  <2>6. CASE FixAdrp(ins)
    BY <1>1, <2>6, AdrpInv
  <2>7. CASE CopyInstruction(ins)
    BY <1>1, <2>7, CopyInv
  <2> QED
    BY <1>1, <2>1, <2>2, <2>3, <2>4, <2>5, <2>6, <2>7 DEF FixInstruction
<1>2. CASE JumpBack
  BY <1>2, JumpBackInv
<1>3. CASE UNCHANGED vars
  BY <1>3 DEF vars, IInv, TypeOK, LengthOK, ReferencesAreCompleted, Current
<1> QED
  BY <1>1, <1>2, <1>3 DEF Next, Finished

LEMMA Invariance == Spec => []IInv
<1>1. Init => IInv
  BY InitInv
<1>2. IInv /\ [Next]_vars => IInv'
  BY NextInv
<1> QED
  BY <1>1, <1>2, PTL DEF Spec

(* hook_impl.cpp:469-522: the state keeps its types, and a reference is a   *)
(* word of the trampoline.                                                  *)
THEOREM TypeCorrect == Spec => []TypeOK
<1>1. IInv => TypeOK
  BY DEF IInv
<1> QED
  BY <1>1, Invariance, PTL

(* hook_impl.cpp:57-58: fifty words are enough for every five instructions, *)
(* wherever the trampoline lies, the jump back included.                    *)
THEOREM Fits == Spec => []TrampolineFits
<1>1. IInv => TrampolineFits
  <2> SUFFICES ASSUME IInv PROVE TrampolineFits
    OBVIOUS
  <2>1. Len(code) \in Nat /\ Current \in 0 .. Count /\ Count \in 1 .. 5 /\ done \in BOOLEAN
    BY WindowAssumption, LenProperties DEF IInv, TypeOK, Current
  <2>2. Len(code) <= 50
    BY <2>1 DEF IInv, LengthOK
  <2> QED
    BY <2>2 DEF TrampolineFits, TrampolineSize
<1> QED
  BY <1>1, Invariance, PTL

(* hook_impl.cpp:112-132: a word only waits for an instruction that is      *)
(* still to come, and a map of ten never refuses one.                       *)
THEOREM Completed == Spec => []ReferencesAreCompleted
<1>1. IInv => ReferencesAreCompleted
  BY DEF IInv
<1> QED
  BY <1>1, Invariance, PTL

-----------------------------------------------------------------------------
Begin(i) == IF i < Len(start) THEN start[i + 1] ELSE Here

(* Nothing is still to be filled in there. *)
Settled(a) == \A j \in 0 .. Count - 1 : a - outBase + 1 \notin fmap[j]

Written(i, words) ==
  /\ Begin(i + 1) = Begin(i) + Len(words)
  /\ \A m \in 1 .. Len(words) :
       /\ WordAt(Begin(i) + m - 1) = words[m]
       /\ Settled(Begin(i) + m - 1)

(* The words an instruction ends up as; it refers to t, and they begin at s. *)
Outside(t, s) == ~InFixingRange(t) /\ Abs(t - s) >= 2 ^ 13 - 1

CopyForm(words, ins) ==
  \/ ins.op = "prfm" /\ words = <<>>
  \/ ins.op = "other" /\ words = <<Word("other", 0)>>

BranchForm(words, ins, t, s) ==
  /\ ins.op \in BranchOps /\ Outside(t, s)
  /\ \E n \in 0 .. 1 :
       words = Nops(n) \o (IF ins.op = "b"
                           THEN <<Word("ldr17", 2), Word("br17", 0)>>
                           ELSE <<Word("ldr17", 3), Word("adr30", 4), Word("br17", 0)>>)
                 \o Literal(t)

CondForm(words, ins, t, s) ==
  /\ ins.op \in CondOps /\ Outside(t, s)
  /\ \E n \in 0 .. 1 :
       words = Nops(n)
                 \o <<Word(ins.op, 2), Word("b", 5), Word("ldr17", 2), Word("br17", 0)>>
                 \o Literal(t)

CopiedForm(words, ins, t) ==
  /\ ins.op \in LoadOps
  /\ \E n \in 0 .. 3 :
       words = Nops(n) \o (<<[Word("ldr", 2) EXCEPT !.size = ins.size],
                             Word("b", 1 + ins.size)>>
                           \o [k \in 1 .. ins.size |-> Word("data", t)])

LoadForm(words, ins, t, s) ==
  /\ ins.op \in LoadOps
  /\ \E n \in 0 .. 3, w \in Nat :
       /\ w = ins.size \/ (t < s /\ WidthAfter(ins, -1) # ins.size)
       /\ words = Nops(n) \o <<[Word("ldr", t - s - n) EXCEPT !.size = w]>>

AddressForm(words, ins, t) ==
  /\ ins.op \in {"adr", "adrp"} /\ ~InFixingRange(t)
  /\ \E n \in 0 .. 1 : words = Nops(n) \o LoadAddress(t)

ShortForm(words, ins, t, s) ==
  /\ ins.op \in BranchOps \cup CondOps \cup {"adr"} /\ ~InFixingRange(t)
  /\ \E rd \in Nat :
       /\ ins.op = "adr" /\ ins.lsb = 0 => rd = 0
       /\ words = <<[Word(ins.op, t - s) EXCEPT !.rd = rd]>>

Form(words, ins, t, s) ==
  \/ CopyForm(words, ins) \/ BranchForm(words, ins, t, s) \/ CondForm(words, ins, t, s)
  \/ CopiedForm(words, ins, t) \/ LoadForm(words, ins, t, s)
  \/ AddressForm(words, ins, t) \/ ShortForm(words, ins, t, s)

(* A word that refers to an instruction of the window: to its new address   *)
(* once that is known, and noted to be completed until then.                *)
Refers(i) ==
  LET s == Begin(i)
      j == RefIndex(Target(i))
  IN /\ window[i + 1].op \in BranchOps \cup CondOps \cup {"adr"}
     /\ InFixingRange(Target(i))
     /\ Begin(i + 1) = s + 1
     /\ WordAt(s).op = window[i + 1].op /\ WordAt(s).rd = 0
     /\ \A l \in 0 .. Count - 1 : l # j => s - outBase + 1 \notin fmap[l]
     /\ IF j < Current
        THEN /\ s - outBase + 1 \notin fmap[j]
             /\ (window[j + 1].op = "adrp" \/ WordAt(s).arg = dat[j] - s)
        ELSE s - outBase + 1 \in fmap[j]

(* The noted address is the first word but the padding, except an adrp's.   *)
Starts(i) ==
  window[i + 1].op # "adrp" =>
    /\ dat[i] \in Begin(i) .. Begin(i + 1)
    /\ \A a \in Begin(i) .. dat[i] - 1 : WordAt(a).op = "nop"

(* A mask takes the sign of an offset unless it is a branch's.              *)
LosesSign(ins) == ins.op \in CondOps \cup LoadOps \cup {"adr", "adrp"} /\ ins.off < 0

FixedOK(i) ==
  /\ Starts(i)
  /\ \/ LosesSign(window[i + 1])
     \/ (window[i + 1].op = "adrp" /\ InFixingRange(Target(i)))
     \/ Refers(i)
     \/ \E words \in Seq(Words) :
          Form(words, window[i + 1], Target(i), Begin(i)) /\ Written(i, words)

JumpForm(words, s) ==
  \/ words = <<Word("b", At(Count) - s)>>
  \/ /\ Abs(At(Count) - s) >= 2 ^ 25 - 1
     /\ \E n \in 0 .. 1 :
          words = Nops(n) \o <<Word("ldr17", 2), Word("br17", 0)>> \o Literal(At(Count))

(* The words of one instruction follow those of another.                    *)
BlocksOK ==
  /\ \A i \in 0 .. Current : outBase <= Begin(i) /\ Begin(i) <= Here
  /\ \A i \in 0 .. Current - 1 : Begin(i) <= Begin(i + 1)

JumpOK ==
  done => \E words \in Seq(Words) :
            JumpForm(words, Begin(Count)) /\ Written(Count, words)

ShapeInv ==
  /\ BlocksOK
  /\ \A i \in 0 .. Current - 1 : FixedOK(i)
  /\ JumpOK

-----------------------------------------------------------------------------
(* What a step of a fixer changes, word by word; c is the current index.    *)

AllReferences == 0 .. Count - 1

Extended(c, ins, words, address, map) ==
  /\ outBase' = outBase /\ done' = done /\ Current' = c + 1
  /\ Here' = Here + Len(words)
  /\ window'[c + 1] = ins
  /\ \A i \in 0 .. c - 1 : window'[i + 1] = window[i + 1]
  /\ \A i \in 0 .. c : Begin(i)' = Begin(i)
  /\ Begin(c) = Here /\ Begin(c + 1)' = Here + Len(words)
  /\ \A a \in outBase .. Here - 1 :
       /\ code'[a - outBase + 1].op = WordAt(a).op
       /\ code'[a - outBase + 1].rd = WordAt(a).rd
       /\ a - outBase + 1 \notin fmap[c] => code'[a - outBase + 1] = WordAt(a)
       /\ a - outBase + 1 \in fmap[c] =>
            code'[a - outBase + 1].arg = Field(WordAt(a).op, address - a)
  /\ \A m \in 1 .. Len(words) : code'[Here - outBase + m] = words[m]
  /\ dat'[c] = address /\ \A j \in AllReferences \ {c} : dat'[j] = dat[j]
  /\ fmap'[c] = {} /\ \A j \in AllReferences \ {c} : fmap'[j] = map[j]

Appends(all, words, c, address) ==
  /\ \A k \in 1 .. Len(code) :
       /\ all[k].op = code[k].op /\ all[k].rd = code[k].rd
       /\ k \notin fmap[c] => all[k] = code[k]
       /\ k \in fmap[c] =>
            all[k].arg = Field(code[k].op, address - (outBase + k - 1))
  /\ \A m \in 1 .. Len(words) : all[Len(code) + m] = words[m]

LEMMA WordsAfter ==
  ASSUME TypeOK, NEW words \in Seq(Words), NEW c \in AllReferences, NEW address \in Int,
         NEW all, all = ProcessFixMap(code \o words, c, address)
  PROVE  Appends(all, words, c, address)
<1> DEFINE both == code \o words
<1>1. /\ both \in Seq(Words) /\ Len(both) = Len(code) + Len(words)
      /\ Len(code) \in Nat /\ Len(words) \in Nat
  BY ConcatWords, LenProperties DEF TypeOK
<1>2. \A k \in 1 .. Len(code) + Len(words) :
        both[k] = IF k <= Len(code) THEN code[k] ELSE words[k - Len(code)]
  BY ConcatProperties DEF TypeOK
<1>3. \A k \in 1 .. Len(both) : both[k] \in Words
  BY <1>1, ElementOfSeq
<1> HIDE DEF both
<1>4. all = [k \in 1 .. Len(both) |->
               IF k \in fmap[c]
               THEN [both[k] EXCEPT !.arg = Field(both[k].op, address - (outBase + k - 1))]
               ELSE both[k]]
  BY DEF ProcessFixMap, both
<1>5. fmap[c] \subseteq 1 .. Len(code)
  BY DEF TypeOK, AllReferences
<1>6. ASSUME NEW k \in 1 .. Len(code)
      PROVE  /\ all[k].op = code[k].op /\ all[k].rd = code[k].rd
             /\ k \notin fmap[c] => all[k] = code[k]
             /\ k \in fmap[c] =>
                  all[k].arg = Field(code[k].op, address - (outBase + k - 1))
  <2>1. k \in 1 .. Len(both) /\ both[k] = code[k] /\ both[k] \in Words
    BY <1>1, <1>2, <1>3
  <2>2. CASE k \in fmap[c]
    <3> DEFINE w == both[k]
               x == Field(w.op, address - (outBase + k - 1))
    <3>1. all[k] = [w EXCEPT !.arg = x]
      BY <1>4, <2>1, <2>2
    <3>2. w \in Words /\ w = code[k] /\ x = Field(code[k].op, address - (outBase + k - 1))
      BY <2>1
    <3> HIDE DEF w, x
    <3>3. all[k].op = w.op /\ all[k].rd = w.rd /\ all[k].arg = x
      BY <3>1, <3>2 DEF Words
    <3> QED
      BY <2>2, <3>2, <3>3
  <2>3. CASE k \notin fmap[c]
    BY <1>4, <2>1, <2>3
  <2> QED
    BY <2>2, <2>3
<1>7. ASSUME NEW m \in 1 .. Len(words) PROVE all[Len(code) + m] = words[m]
  <2> DEFINE k == Len(code) + m
  <2>0. /\ k \in 1 .. Len(both) /\ k \in 1 .. Len(code) + Len(words)
        /\ ~(k <= Len(code)) /\ k - Len(code) = m
    BY <1>1
  <2> HIDE DEF k
  <2>1. k \in 1 .. Len(both) /\ k \notin fmap[c] /\ both[k] = words[m]
    BY <1>1, <1>2, <1>5, <2>0
  <2>2. all[k] = words[m]
    BY <1>4, <2>1
  <2> QED
    BY <2>2 DEF k
<1> QED
  BY <1>6, <1>7 DEF Appends

LEMMA BeginType ==
  ASSUME TypeOK, LengthOK
  PROVE  /\ \A i \in 0 .. Current : Begin(i) \in Int
         /\ ~done => Begin(Current) = Here
         /\ \A i \in 0 .. Current - 1 : Begin(i) = start[i + 1]
<1>1. /\ start \in Seq(Int) /\ Current \in Nat /\ Here \in Int /\ Len(start) \in Nat
      /\ Len(start) = Current + (IF done THEN 2 ELSE 0)
  BY HereType, LenProperties DEF TypeOK, Current
<1>2. \A k \in 1 .. Len(start) : start[k] \in Int
  BY <1>1, ElementOfSeq
<1> QED
  BY <1>1, <1>2 DEF Begin

LEMMA EmitFacts ==
  ASSUME IInv, NEW ins \in Instructions, NEW c, c = Current, Current < Count,
         NEW words \in Seq(Words), NEW address \in Int,
         NEW map, map \in [0 .. Count - 1 -> SUBSET (1 .. Len(code) + Len(words))],
         Emit(ins, words, address, map)
  PROVE  Extended(c, ins, words, address, map)
<1> USE DEF IInv
<1>1. /\ Len(code) \in Nat /\ Len(words) \in Nat /\ c \in Nat /\ Count \in Nat
      /\ Here \in Int /\ c \in AllReferences /\ outBase \in Int
      /\ Here = outBase + Len(code) /\ ~done
  BY LenProperties, HereType, WindowAssumption DEF TypeOK, AllReferences, Here, LengthOK
<1>2. outBase' = outBase /\ done' = done
  BY DEF Emit
<1>3. window' = Append(window, ins) /\ Len(window) = c /\ window \in Seq(Instructions)
  BY DEF Emit, TypeOK, Current
<1>4. /\ Current' = c + 1 /\ window'[c + 1] = ins
      /\ \A i \in 0 .. c - 1 : window'[i + 1] = window[i + 1]
  BY <1>1, <1>3, AppendProperties DEF Current
<1>5. code' = ProcessFixMap(code \o words, c, address)
  BY DEF Emit
<1>6. Len(code') = Len(code) + Len(words)
  <2>1. code \o words \in Seq(Words) /\ Len(code \o words) = Len(code) + Len(words)
    BY ConcatWords DEF TypeOK
  <2> QED
    BY <1>5, <2>1, ProcessType
<1>7. Here' = Here + Len(words)
  BY <1>1, <1>2, <1>6 DEF Here
<1>8. start' = Append(start, Here) /\ Len(start) = c /\ start \in Seq(Int)
  BY <1>1 DEF Emit, TypeOK, Current
<1>9. /\ Len(start') = c + 1 /\ start'[c + 1] = Here
      /\ \A i \in 0 .. c - 1 : start'[i + 1] = start[i + 1]
  <2>1. /\ Len(start') = Len(start) + 1 /\ start'[Len(start) + 1] = Here
        /\ \A k \in 1 .. Len(start) : start'[k] = start[k]
    BY <1>1, <1>8, AppendProperties
  <2> QED
    BY <1>1, <1>8, <2>1
<1>10. /\ \A i \in 0 .. c : Begin(i)' = Begin(i)
       /\ Begin(c) = Here /\ Begin(c + 1)' = Here + Len(words)
  <2>1. Begin(c) = Here /\ \A i \in 0 .. c - 1 : Begin(i) = start[i + 1]
    BY <1>1, <1>8 DEF Begin
  <2>2. /\ \A i \in 0 .. c : Begin(i)' = start'[i + 1]
        /\ Begin(c + 1)' = Here'
    BY <1>1, <1>9 DEF Begin
  <2>3. ASSUME NEW i \in 0 .. c PROVE Begin(i)' = Begin(i)
    <3>1. i = c \/ i \in 0 .. c - 1
      BY <1>1
    <3> QED
      BY <1>9, <2>1, <2>2, <3>1
  <2> QED
    BY <1>7, <2>1, <2>2, <2>3
<1>11. /\ \A k \in 1 .. Len(code) :
            /\ code'[k].op = code[k].op /\ code'[k].rd = code[k].rd
            /\ k \notin fmap[c] => code'[k] = code[k]
            /\ k \in fmap[c] =>
                 code'[k].arg = Field(code[k].op, address - (outBase + k - 1))
       /\ \A m \in 1 .. Len(words) : code'[Len(code) + m] = words[m]
  <2> PICK all : all = code'
    OBVIOUS
  <2>1. all = ProcessFixMap(code \o words, c, address)
    BY <1>5
  <2>2. Appends(all, words, c, address)
    BY <1>1, <2>1, WordsAfter
  <2> QED
    BY <2>2 DEF Appends
<1>12. ASSUME NEW a \in outBase .. Here - 1
       PROVE  /\ code'[a - outBase + 1].op = WordAt(a).op
              /\ code'[a - outBase + 1].rd = WordAt(a).rd
              /\ a - outBase + 1 \notin fmap[c] => code'[a - outBase + 1] = WordAt(a)
              /\ a - outBase + 1 \in fmap[c] =>
                   code'[a - outBase + 1].arg = Field(WordAt(a).op, address - a)
  <2>1. a - outBase + 1 \in 1 .. Len(code) /\ outBase + (a - outBase + 1) - 1 = a
    BY <1>1
  <2> QED
    BY <1>11, <2>1 DEF WordAt
<1>13. \A m \in 1 .. Len(words) : code'[Here - outBase + m] = words[m]
  <2>1. Here - outBase = Len(code)
    BY <1>1
  <2> QED
    BY <1>11, <2>1
<1>14. /\ dat'[c] = address /\ \A j \in AllReferences \ {c} : dat'[j] = dat[j]
       /\ fmap'[c] = {} /\ \A j \in AllReferences \ {c} : fmap'[j] = map[j]
  BY <1>1 DEF Emit, TypeOK, AllReferences
<1> QED
  BY <1>2, <1>4, <1>7, <1>10, <1>12, <1>13, <1>14 DEF Extended

-----------------------------------------------------------------------------
(* A fixer keeps the shape of what is there and adds its own.               *)

(* A field takes every offset within the trampoline.                        *)
LEMMA FieldKeeps ==
  ASSUME NEW op, NEW x \in Int,
         \/ Bits(op) = 26 /\ -(2 ^ 25) <= x /\ x < 2 ^ 25
         \/ Bits(op) = 19 /\ -(2 ^ 18) <= x /\ x < 2 ^ 18
         \/ Bits(op) = 14 /\ -(2 ^ 13) <= x /\ x < 2 ^ 13
  PROVE  Field(op, x) = x
<1>1. Bits(op) \in {26, 14, 19}
  BY DEF Bits
<1>2. CASE Bits(op) = 26
  BY <1>2 DEF Field
<1>3. CASE Bits(op) = 14
  BY <1>3 DEF Field
<1>4. CASE Bits(op) = 19
  BY <1>4 DEF Field
<1> QED
  BY <1>1, <1>2, <1>3, <1>4

LEMMA FieldKeepsNear ==
  ASSUME NEW op, NEW x \in Int, -8192 <= x, x < 8192 PROVE Field(op, x) = x
<1>1. Bits(op) \in {26, 14, 19}
  BY DEF Bits
<1> QED
  BY <1>1, FieldKeeps

Aim(ins, i) ==
  IF ins.op = "adrp" THEN (At(i) \div PageWords + ins.off) * PageWords
                     ELSE At(i) + ins.off

(* At most the word that is written next starts to wait. *)
MapAdds(map) ==
  \A j \in AllReferences :
    fmap[j] \subseteq map[j] /\ map[j] \subseteq fmap[j] \cup {Here - outBase + 1}

NewReference(ins, words, map, c) ==
  LET j == RefIndex(Aim(ins, c))
  IN /\ ins.op \in BranchOps \cup CondOps \cup {"adr"} /\ InFixingRange(Aim(ins, c))
     /\ Len(words) = 1 /\ words[1].op = ins.op /\ words[1].rd = 0
     /\ \A l \in AllReferences \ {j} : map[l] = fmap[l]
     /\ IF j < c
        THEN /\ map[j] = fmap[j]
             /\ (window[j + 1].op = "adrp" \/ words[1].arg = dat[j] - Here)
        ELSE IF j = c
        THEN map[j] = fmap[j] /\ words[1].arg = 0
        ELSE map[j] = fmap[j] \cup {Here - outBase + 1}

NewStart(ins, words, address) ==
  ins.op # "adrp" =>
    /\ address \in Here .. Here + Len(words)
    /\ \A m \in 1 .. address - Here : words[m].op = "nop"

NewWords(ins, words, address, map, c) ==
  \/ LosesSign(ins)
  \/ ins.op = "adrp" /\ InFixingRange(Aim(ins, c))
  \/ map = fmap /\ Form(words, ins, Aim(ins, c), Here)
  \/ NewReference(ins, words, map, c) /\ address = Here

(* What is settled stays as it is. *)
LEMMA SettledStays ==
  ASSUME IInv, NEW c \in AllReferences, NEW ins, NEW words \in Seq(Words), NEW address,
         NEW map, MapAdds(map), Extended(c, ins, words, address, map),
         NEW a \in outBase .. Here - 1, Settled(a)
  PROVE  Settled(a)' /\ WordAt(a)' = WordAt(a)
<1>1. /\ outBase' = outBase /\ outBase \in Int /\ Here \in Int
      /\ a - outBase + 1 # Here - outBase + 1
  <2>1. outBase' = outBase /\ outBase \in Int /\ Here \in Int
    BY HereType, WindowAssumption DEF Extended, IInv, TypeOK
  <2>2. a \in Int /\ a < Here
    BY <2>1
  <2> QED
    BY <2>1, <2>2
<1>2. \A j \in AllReferences : a - outBase + 1 \notin fmap[j]
  BY DEF Settled, AllReferences
<1>3. \A j \in AllReferences : a - outBase + 1 \notin fmap'[j]
  BY <1>1, <1>2 DEF Extended, MapAdds
<1>4. code'[a - outBase + 1] = WordAt(a)
  BY <1>2 DEF Extended
<1> QED
  BY <1>1, <1>3, <1>4 DEF Settled, WordAt, AllReferences

LEMMA WrittenStays ==
  ASSUME IInv, BlocksOK, NEW c \in AllReferences, c = Current,
         NEW ins, NEW words \in Seq(Words), NEW address,
         NEW map, MapAdds(map), Extended(c, ins, words, address, map),
         NEW i \in 0 .. c - 1, NEW old \in Seq(Words), Written(i, old)
  PROVE  Written(i, old)'
<1>1. /\ Begin(i)' = Begin(i) /\ Begin(i + 1)' = Begin(i + 1)
      /\ outBase <= Begin(i) /\ Begin(i + 1) <= Here
      /\ Begin(i) \in Int /\ Begin(i + 1) \in Int /\ outBase \in Int /\ Here \in Int
  <2>1. i \in 0 .. c /\ i + 1 \in 0 .. c
    BY DEF AllReferences
  <2>2. Begin(i)' = Begin(i) /\ Begin(i + 1)' = Begin(i + 1)
    BY <2>1 DEF Extended
  <2>3. TypeOK /\ LengthOK
    BY DEF IInv
  <2>4. Begin(i) \in Int /\ Begin(i + 1) \in Int
    BY <2>1, <2>3, BeginType
  <2>5. outBase \in Int /\ Here \in Int
    BY <2>3, HereType, WindowAssumption DEF TypeOK
  <2> QED
    BY <2>1, <2>2, <2>4, <2>5 DEF BlocksOK
<1> DEFINE s == Begin(i)
           e == Begin(i + 1)
<1>2. e = s + Len(old) /\ Len(old) \in Nat
  BY LenProperties DEF Written
<1>3. ASSUME NEW m \in 1 .. Len(old)
      PROVE  WordAt(s + m - 1)' = old[m] /\ Settled(s + m - 1)'
  <2> PICK a : a = s + m - 1
    OBVIOUS
  <2>1. a \in outBase .. Here - 1
    BY <1>1, <1>2
  <2>2. Settled(a) /\ WordAt(a) = old[m]
    BY DEF Written
  <2>3. Settled(a)' /\ WordAt(a)' = WordAt(a)
    BY <2>1, <2>2, SettledStays
  <2>4. (s + m - 1)' = a
    BY <1>1
  <2> QED
    BY <2>2, <2>3, <2>4 DEF WordAt, Settled
<1> QED
  BY <1>1, <1>2, <1>3 DEF Written

(* A reference stays as it is, or is completed with the address it waits for. *)
LEMMA RefersStays ==
  ASSUME IInv, BlocksOK, NEW c \in AllReferences, c = Current,
         NEW ins \in Instructions, NEW words \in Seq(Words), NEW address \in Int,
         Len(words) <= 9, NewStart(ins, words, address),
         NEW map, MapAdds(map), Extended(c, ins, words, address, map),
         NEW i \in 0 .. c - 1, Refers(i)
  PROVE  Refers(i)'
<1> DEFINE s == Begin(i)
           j == RefIndex(Target(i))
           k == s - outBase + 1
           w == WordAt(s)
<1>1. /\ i \in 0 .. c /\ i + 1 \in 0 .. c
      /\ Begin(i)' = s /\ Begin(i + 1)' = s + 1 /\ Begin(i + 1) = s + 1
      /\ outBase <= s /\ s + 1 <= Here /\ TypeOK /\ LengthOK
  BY DEF AllReferences, Extended, BlocksOK, Refers, IInv
<1>2. /\ s \in Int /\ outBase \in Int /\ Here \in Int /\ Count \in 1 .. 5 /\ InBase \in Int
      /\ Here - outBase <= 45
  <2>1. s \in Int /\ outBase \in Int /\ Here \in Int /\ Count \in 1 .. 5 /\ InBase \in Int
    <3>1. outBase \in Int /\ Count \in 1 .. 5 /\ InBase \in Int
      BY <1>1, WindowAssumption DEF TypeOK
    <3>2. Here \in Int /\ s \in Int
      BY <1>1, BeginType, HereType
    <3> QED
      BY <3>1, <3>2
  <2>2. Len(code) \in Nat /\ Current \in Nat /\ Current <= 5
    BY <1>1, <2>1, HereType, LenProperties DEF TypeOK, AllReferences
  <2>4. Here - outBase = Len(code)
    BY <2>1, <2>2 DEF Here
  <2>5. ~done
    BY <1>1, <2>1 DEF LengthOK, AllReferences
  <2>6. Len(code) <= 9 * Current
    BY <1>1, <2>5 DEF LengthOK
  <2> QED
    BY <2>1, <2>2, <2>4, <2>6
<1>3. /\ window'[i + 1] = window[i + 1] /\ Target(i)' = Target(i) /\ outBase' = outBase
      /\ Current' = c + 1
  BY DEF Extended, Target, At
<1>4. /\ InFixingRange(Target(i)) /\ w.op = window[i + 1].op /\ w.rd = 0
      /\ \A l \in AllReferences : l # j => k \notin fmap[l]
      /\ window[i + 1].op \in BranchOps \cup CondOps \cup {"adr"}
      /\ IF j < c
         THEN k \notin fmap[j] /\ (window[j + 1].op = "adrp" \/ w.arg = dat[j] - s)
         ELSE k \in fmap[j]
  BY DEF Refers, AllReferences
<1>5. /\ WordAt(s)' = code'[k] /\ s \in outBase .. Here - 1 /\ k # Here - outBase + 1
  BY <1>1, <1>2, <1>3 DEF WordAt
<1>6. /\ code'[k].op = w.op /\ code'[k].rd = w.rd
      /\ k \notin fmap[c] => code'[k] = w
      /\ k \in fmap[c] => code'[k].arg = Field(w.op, address - s)
  BY <1>5 DEF Extended
<1>7. \A l \in AllReferences : k \notin fmap[l] => k \notin fmap'[l]
  BY <1>5 DEF Extended, MapAdds
<1>8. j \in AllReferences
  <2>1. Target(i) \in InBase .. InBase + Count - 1
    BY <1>4 DEF InFixingRange
  <2> HIDE DEF s, k, w
  <2> QED
    BY <1>2, <2>1 DEF RefIndex, AllReferences
<1> HIDE DEF s, j, k, w
<1>9. /\ \A l \in AllReferences : l # j => k \notin fmap'[l]
      /\ IF j < c + 1
         THEN /\ k \notin fmap'[j]
              /\ (window'[j + 1].op = "adrp" \/ code'[k].arg = dat'[j] - s)
         ELSE k \in fmap'[j]
  <2>1. \A l \in AllReferences : l # j => k \notin fmap'[l]
    BY <1>4, <1>7
  <2>2. CASE j < c
    <3>1. k \notin fmap[j] /\ (window[j + 1].op = "adrp" \/ w.arg = dat[j] - s)
      BY <1>4, <2>2
    <3>2. k \notin fmap[c] /\ j # c /\ j \in 0 .. c - 1 /\ j < c + 1
      BY <1>4, <1>8, <2>2 DEF AllReferences
    <3>3. code'[k] = w /\ dat'[j] = dat[j] /\ window'[j + 1] = window[j + 1] /\ k \notin fmap'[j]
      BY <1>6, <1>7, <1>8, <3>1, <3>2 DEF Extended
    <3> QED
      BY <2>1, <3>1, <3>2, <3>3
  <2>3. CASE j = c
    <3>0. ~(j < c)
      BY <2>3 DEF AllReferences
    <3>1. k \in fmap[c] /\ fmap'[c] = {} /\ window'[c + 1] = ins /\ dat'[c] = address
      BY <1>4, <2>3, <3>0 DEF Extended
    <3>2. ASSUME ins.op # "adrp" PROVE code'[k].arg = dat'[j] - s
      <4>1. address \in Here .. Here + Len(words) /\ Len(words) \in Nat
        BY <3>2, LenProperties DEF NewStart
      <4>2. address - s \in Int /\ -8192 <= address - s /\ address - s < 8192
        BY <1>1, <1>2, <4>1 DEF s
      <4>3. Field(w.op, address - s) = address - s
        BY <4>2, FieldKeepsNear
      <4> QED
        BY <1>6, <2>3, <3>1, <4>3
    <3> QED
      BY <1>8, <2>1, <2>3, <3>1, <3>2 DEF AllReferences
  <2>4. CASE j > c
    <3>1. j # c /\ ~(j < c) /\ ~(j < c + 1)
      BY <1>8, <2>4 DEF AllReferences
    <3>2. k \in fmap[j] /\ fmap[j] \subseteq map[j] /\ fmap'[j] = map[j]
      BY <1>4, <1>8, <3>1 DEF Extended, MapAdds
    <3> QED
      BY <2>1, <3>1, <3>2
  <2> QED
    BY <1>8, <2>2, <2>3, <2>4 DEF AllReferences
<1> QED
  BY <1>1, <1>3, <1>4, <1>5, <1>6, <1>9 DEF Refers, AllReferences, s, j, k, w

LEMMA StartsStays ==
  ASSUME IInv, BlocksOK, NEW c \in AllReferences, c = Current,
         NEW ins, NEW words \in Seq(Words), NEW address,
         NEW map, Extended(c, ins, words, address, map),
         NEW i \in 0 .. c - 1, Starts(i)
  PROVE  Starts(i)'
<1>1. /\ i \in 0 .. c /\ i + 1 \in 0 .. c /\ i \in AllReferences /\ i # c /\ TypeOK /\ LengthOK
  <2>1. Count \in Nat
    BY WindowAssumption
  <2> QED
    BY <2>1 DEF AllReferences, IInv
<1>2. /\ Begin(i)' = Begin(i) /\ Begin(i + 1)' = Begin(i + 1) /\ window'[i + 1] = window[i + 1]
      /\ dat'[i] = dat[i] /\ outBase' = outBase
  BY <1>1 DEF Extended
<1>3. /\ outBase <= Begin(i) /\ Begin(i + 1) <= Here
      /\ Begin(i) \in Int /\ Begin(i + 1) \in Int /\ Here \in Int /\ outBase \in Int
  <2>1. outBase \in Int /\ Here \in Int
    BY <1>1, HereType, WindowAssumption DEF TypeOK
  <2>2. Begin(i) \in Int /\ Begin(i + 1) \in Int
    BY <1>1, BeginType
  <2>3. outBase <= Begin(i) /\ Begin(i + 1) <= Here
    BY <1>1 DEF BlocksOK
  <2> QED
    BY <2>1, <2>2, <2>3
<1>4. ASSUME window[i + 1].op # "adrp", NEW a \in Begin(i) .. dat[i] - 1
      PROVE  WordAt(a)'.op = "nop"
  <2>1. dat[i] \in Begin(i) .. Begin(i + 1) /\ WordAt(a).op = "nop"
    BY <1>4 DEF Starts
  <2>2. a \in outBase .. Here - 1
    BY <1>3, <2>1
  <2>3. code'[a - outBase + 1].op = WordAt(a).op
    BY <2>2 DEF Extended
  <2> QED
    BY <1>2, <2>1, <2>3 DEF WordAt
<1> QED
  BY <1>2, <1>4 DEF Starts, WordAt

LEMMA FixedStays ==
  ASSUME IInv, BlocksOK, NEW c \in AllReferences, c = Current,
         NEW ins \in Instructions, NEW words \in Seq(Words), NEW address \in Int,
         Len(words) <= 9, NewStart(ins, words, address),
         NEW map, MapAdds(map), Extended(c, ins, words, address, map),
         NEW i \in 0 .. c - 1, FixedOK(i)
  PROVE  FixedOK(i)'
<1>1. Starts(i)'
  BY StartsStays DEF FixedOK
<1>2. /\ window'[i + 1] = window[i + 1] /\ Target(i)' = Target(i) /\ Begin(i)' = Begin(i)
  BY DEF Extended, Target, At, AllReferences
<1>3. CASE Refers(i)
  <2>1. Refers(i)'
    BY <1>3, RefersStays
  <2> QED
    BY <1>1, <2>1 DEF FixedOK
<1>4. ASSUME NEW old \in Seq(Words), Form(old, window[i + 1], Target(i), Begin(i)),
             Written(i, old)
      PROVE  FixedOK(i)'
  <2>1. Written(i, old)'
    BY <1>4, WrittenStays
  <2>2. Form(old, window'[i + 1], Target(i)', Begin(i)')
    BY <1>2, <1>4
  <2> QED
    BY <1>1, <2>1, <2>2 DEF FixedOK
<1>5. CASE LosesSign(window[i + 1])
  <2>1. LosesSign(window'[i + 1])
    BY <1>2, <1>5
  <2> QED
    BY <1>1, <2>1 DEF FixedOK
<1>6. CASE window[i + 1].op = "adrp" /\ InFixingRange(Target(i))
  <2>1. window'[i + 1].op = "adrp" /\ InFixingRange(Target(i)')
    BY <1>2, <1>6
  <2> QED
    BY <1>1, <2>1 DEF FixedOK
<1> QED
  BY <1>3, <1>4, <1>5, <1>6 DEF FixedOK

LEMMA NewStarts ==
  ASSUME TypeOK, NEW c \in AllReferences, NEW ins, NEW words \in Seq(Words), NEW address \in Int,
         NewStart(ins, words, address),
         NEW map, Extended(c, ins, words, address, map)
  PROVE  Starts(c)'
<1>1. /\ Begin(c)' = Here /\ Begin(c + 1)' = Here + Len(words) /\ window'[c + 1] = ins
      /\ dat'[c] = address /\ outBase' = outBase
  BY DEF Extended, AllReferences
<1>2. Here \in Int /\ outBase \in Int /\ Len(words) \in Nat
  BY HereType, LenProperties, WindowAssumption DEF TypeOK
<1>3. ASSUME ins.op # "adrp", NEW a \in Here .. address - 1 PROVE WordAt(a)'.op = "nop"
  <2> PICK m : m = a - Here + 1
    OBVIOUS
  <2>1. /\ address \in Here .. Here + Len(words)
        /\ \A l \in 1 .. address - Here : words[l].op = "nop"
    BY <1>3 DEF NewStart
  <2>2. m \in 1 .. Len(words) /\ m \in 1 .. address - Here
    BY <1>2, <2>1
  <2>3. code'[Here - outBase + m] = words[m] /\ words[m].op = "nop"
    BY <2>1, <2>2 DEF Extended
  <2>4. Here - outBase + m = a - outBase + 1
    BY <1>2
  <2> QED
    BY <1>1, <2>3, <2>4 DEF WordAt
<1>4. ins.op # "adrp" => address \in Here .. Here + Len(words)
  BY DEF NewStart
<1> QED
  BY <1>1, <1>3, <1>4 DEF Starts, WordAt

LEMMA NewWritten ==
  ASSUME TypeOK, NEW c \in AllReferences, NEW ins, NEW words \in Seq(Words), NEW address \in Int,
         Extended(c, ins, words, address, fmap)
  PROVE  Written(c, words)'
<1> PICK h : h = Here
  OBVIOUS
<1>1. Begin(c)' = h /\ Begin(c + 1)' = h + Len(words) /\ outBase' = outBase
  BY DEF Extended, AllReferences
<1>2. /\ h \in Int /\ outBase \in Int /\ Len(words) \in Nat /\ Len(code) \in Nat
      /\ h = outBase + Len(code)
  BY HereType, LenProperties, WindowAssumption DEF TypeOK, Here
<1>3. ASSUME NEW m \in 1 .. Len(words)
      PROVE  WordAt(h + m - 1)' = words[m] /\ Settled(h + m - 1)'
  <2> PICK k, a : k = h - outBase + m /\ a = h + m - 1
    OBVIOUS
  <2>1. a - outBase + 1 = k
    BY <1>2
  <2>2. code'[k] = words[m]
    BY DEF Extended
  <2>3. \A j \in AllReferences : k \notin fmap'[j]
    <3>1. \A j \in AllReferences : fmap[j] \subseteq 1 .. Len(code)
      BY DEF TypeOK, AllReferences
    <3>2. k \notin 1 .. Len(code)
      BY <1>2
    <3> QED
      BY <3>1, <3>2 DEF Extended
  <2>4. WordAt(a)' = words[m]
    BY <1>1, <2>1, <2>2 DEF WordAt
  <2>5. Settled(a)'
    BY <1>1, <2>1, <2>3 DEF Settled, AllReferences
  <2> QED
    BY <2>4, <2>5 DEF WordAt, Settled
<1> QED
  BY <1>1, <1>3 DEF Written

LEMMA NewRefers ==
  ASSUME TypeOK, NEW c \in AllReferences, c = Current, NEW ins, NEW words \in Seq(Words),
         NEW map, Extended(c, ins, words, Here, map), NewReference(ins, words, map, c)
  PROVE  Refers(c)'
<1> PICK h : h = Here
  OBVIOUS
<1>1. /\ Begin(c)' = h /\ Begin(c + 1)' = h + Len(words) /\ outBase' = outBase
      /\ window'[c + 1] = ins /\ Target(c)' = Aim(ins, c) /\ Current' = c + 1
  BY DEF Extended, AllReferences, Target, Aim, At
<1>2. /\ h \in Int /\ outBase \in Int /\ Len(code) \in Nat /\ c \in Int
      /\ h = outBase + Len(code) /\ InBase \in Int /\ Count \in Nat
  BY HereType, LenProperties, WindowAssumption DEF TypeOK, Here, AllReferences
<1> DEFINE j == RefIndex(Aim(ins, c))
           k == h - outBase + 1
<1>3. /\ ins.op \in BranchOps \cup CondOps \cup {"adr"} /\ InFixingRange(Aim(ins, c))
      /\ Len(words) = 1 /\ words[1].op = ins.op /\ words[1].rd = 0
      /\ \A l \in AllReferences \ {j} : map[l] = fmap[l]
      /\ IF j < c
         THEN /\ map[j] = fmap[j]
              /\ (window[j + 1].op = "adrp" \/ words[1].arg = dat[j] - h)
         ELSE IF j = c
         THEN map[j] = fmap[j] /\ words[1].arg = 0
         ELSE map[j] = fmap[j] \cup {k}
  BY DEF NewReference
<1>4. j \in AllReferences
  <2>1. Aim(ins, c) \in InBase .. InBase + Count - 1
    BY <1>3 DEF InFixingRange
  <2> QED
    BY <1>2, <2>1 DEF RefIndex, AllReferences
<1> HIDE DEF j, k
<1>5. WordAt(h)' = words[1]
  <2>1. code'[h - outBase + 1] = words[1]
    BY <1>3 DEF Extended
  <2> QED
    BY <1>1, <2>1 DEF WordAt
<1>6. /\ fmap'[c] = {} /\ \A l \in AllReferences \ {c} : fmap'[l] = map[l]
      /\ dat'[c] = h /\ \A l \in AllReferences \ {c} : dat'[l] = dat[l]
      /\ \A i \in 0 .. c - 1 : window'[i + 1] = window[i + 1]
  BY DEF Extended
<1>7. \A l \in AllReferences : k \notin fmap[l]
  <2>1. \A l \in AllReferences : fmap[l] \subseteq 1 .. Len(code)
    BY DEF TypeOK, AllReferences
  <2>2. k \notin 1 .. Len(code)
    BY <1>2 DEF k
  <2> QED
    BY <2>1, <2>2
<1>8. \A l \in AllReferences : l # j => k \notin fmap'[l]
  BY <1>3, <1>6, <1>7
<1>9. IF j < c + 1
      THEN k \notin fmap'[j] /\ (window'[j + 1].op = "adrp" \/ words[1].arg = dat'[j] - h)
      ELSE k \in fmap'[j]
  <2>1. CASE j < c
    <3>1. j \in 0 .. c - 1 /\ j # c /\ j < c + 1
      BY <1>2, <1>4, <2>1 DEF AllReferences
    <3> QED
      BY <1>3, <1>4, <1>6, <1>7, <2>1, <3>1
  <2>2. CASE j = c
    <3>1. j < c + 1 /\ ~(j < c) /\ h - h = 0
      BY <1>2, <2>2
    <3> QED
      BY <1>3, <1>6, <2>2, <3>1
  <2>3. CASE j > c
    <3>1. ~(j < c + 1) /\ ~(j < c) /\ j # c
      BY <1>2, <1>4, <2>3 DEF AllReferences
    <3> QED
      BY <1>3, <1>4, <1>6, <3>1
  <2> QED
    BY <1>2, <1>4, <2>1, <2>2, <2>3 DEF AllReferences
<1> QED
  BY <1>1, <1>3, <1>5, <1>8, <1>9 DEF Refers, AllReferences, j, k

LEMMA EmitShape ==
  ASSUME IInv, ShapeInv, NEW ins \in Instructions, NEW c, c = Current, Current < Count,
         NEW words \in Seq(Words), Len(words) <= 9, NEW address \in Int,
         NEW map, MapGrows(map, Len(words)), MapAdds(map),
         Emit(ins, words, address, map),
         NewStart(ins, words, address), NewWords(ins, words, address, map, c)
  PROVE  ShapeInv'
<1>1. /\ c \in AllReferences /\ TypeOK /\ BlocksOK /\ ~done /\ LengthOK
      /\ Here \in Int /\ Len(words) \in Nat
  BY HereType, LenProperties, WindowAssumption DEF IInv, LengthOK, AllReferences, ShapeInv
<1>2. Extended(c, ins, words, address, map)
  BY EmitFacts DEF MapGrows
<1>9. c \in Int
  BY <1>1, WindowAssumption DEF AllReferences
<1>3. /\ outBase' = outBase /\ done' = done /\ Current' = c + 1
      /\ Here' = Here + Len(words) /\ window'[c + 1] = ins
      /\ \A i \in 0 .. c : Begin(i)' = Begin(i)
      /\ Begin(c) = Here /\ Begin(c + 1)' = Here + Len(words)
  BY <1>2 DEF Extended
<1>4. ASSUME NEW i \in 0 .. c - 1 PROVE FixedOK(i)'
  BY <1>1, <1>2, <1>4, FixedStays DEF ShapeInv
<1>5. FixedOK(c)'
  <2>1. Starts(c)'
    BY <1>1, <1>2, NewStarts
  <2>2. Target(c)' = Aim(ins, c) /\ Begin(c)' = Here
    BY <1>1, <1>3 DEF Target, Aim, At, AllReferences
  <2>3. CASE LosesSign(ins)
    BY <1>3, <2>1, <2>3 DEF FixedOK
  <2>4. CASE ins.op = "adrp" /\ InFixingRange(Aim(ins, c))
    BY <1>3, <2>1, <2>2, <2>4 DEF FixedOK
  <2>5. CASE map = fmap /\ Form(words, ins, Aim(ins, c), Here)
    <3>1. Written(c, words)'
      BY <1>1, <1>2, <2>5, NewWritten
    <3>2. Form(words, window'[c + 1], Target(c)', Begin(c)')
      BY <1>3, <2>2, <2>5
    <3> QED
      BY <2>1, <3>1, <3>2 DEF FixedOK
  <2>6. CASE NewReference(ins, words, map, c) /\ address = Here
    <3>1. Refers(c)'
      BY <1>1, <1>2, <2>6, NewRefers
    <3> QED
      BY <2>1, <3>1 DEF FixedOK
  <2> QED
    BY <2>3, <2>4, <2>5, <2>6 DEF NewWords
<1>6. BlocksOK'
  <2>1. \A i \in 0 .. c : outBase <= Begin(i) /\ Begin(i) <= Here /\ Begin(i) \in Int
    BY <1>1, BeginType DEF BlocksOK
  <2>2. ASSUME NEW i \in 0 .. c + 1 PROVE outBase <= Begin(i)' /\ Begin(i)' <= Here'
    <3>1. outBase \in Int
      BY <1>1, WindowAssumption DEF TypeOK
    <3>2. CASE i \in 0 .. c
      BY <1>1, <1>3, <2>1, <3>1, <3>2
    <3>3. CASE i = c + 1
      <4>1. 0 \in 0 .. c /\ c \in 0 .. c
        BY <1>1, WindowAssumption DEF AllReferences
      <4> QED
        BY <1>1, <1>3, <2>1, <3>1, <3>3, <4>1
    <3> QED
      BY <1>1, <3>2, <3>3, WindowAssumption DEF AllReferences
  <2>3. ASSUME NEW i \in 0 .. c PROVE Begin(i)' <= Begin(i + 1)'
    <3>1. c \in Nat
      BY <1>1, WindowAssumption DEF AllReferences
    <3>2. CASE i \in 0 .. c - 1
      <4>1. i \in 0 .. c /\ i + 1 \in 0 .. c /\ Begin(i) <= Begin(i + 1)
        BY <3>1, <3>2, <1>1 DEF BlocksOK
      <4> QED
        BY <1>3, <4>1
    <3>3. CASE i = c
      <4>1. Begin(c)' = Here /\ Begin(c + 1)' = Here + Len(words)
        BY <1>3, <3>1
      <4> QED
        BY <1>1, <3>3, <4>1
    <3> QED
      BY <3>1, <3>2, <3>3
  <2>5. Current' - 1 = c
    BY <1>9, <1>3
  <2>6. 0 .. Current' = 0 .. c + 1 /\ 0 .. Current' - 1 = 0 .. c
    BY <1>3, <2>5, Zenon
  <2>7. \A i \in 0 .. Current' : outBase' <= Begin(i)' /\ Begin(i)' <= Here'
    BY <1>3, <2>2, <2>6
  <2>8. \A i \in 0 .. Current' - 1 : Begin(i)' <= Begin(i + 1)'
    BY <2>3, <2>6
  <2> QED
    BY <2>7, <2>8 DEF BlocksOK
<1>7. JumpOK'
  BY <1>1, <1>3 DEF JumpOK
<1>8. ASSUME NEW i \in 0 .. c PROVE FixedOK(i)'
  <2>1. i \in 0 .. c - 1 \/ i = c
    BY <1>1, WindowAssumption DEF AllReferences
  <2> QED
    BY <1>4, <1>5, <2>1
<1>10. 0 .. Current' - 1 = 0 .. c
  <2>1. Current' - 1 = c
    BY <1>9, <1>3
  <2> QED
    BY <2>1, Zenon
<1> QED
  BY <1>6, <1>7, <1>8, <1>10 DEF ShapeInv

-----------------------------------------------------------------------------
(* What each fixer writes.                                                  *)

(* The target is the function's own unless its sign is lost.                *)
LEMMA SeenAim ==
  ASSUME TypeOK, NEW ins \in Instructions, NEW c, c = Current, ~LosesSign(ins),
         ins.op \notin {"prfm", "other"}
  PROVE  AbsoluteAddr(ins) = Aim(ins, c)
<1>1. /\ At(c) \in Int /\ ins.off \in Int /\ ins.op \in Ops
  BY HereType, WindowAssumption DEF At, Instruction
<1>2. CASE ins.op \in BranchOps
  <2>1. ins.op # "adrp"
    BY <1>2 DEF BranchOps
  <2> QED
    BY <1>2, <2>1 DEF AbsoluteAddr, Aim, BranchOps, CondOps
<1>3. CASE ins.op \in CondOps
  <2>1. 0 <= ins.off
    BY <1>1, <1>3 DEF LosesSign
  <2>2. CASE ins.op = "tbz"
    <3>1. ins.off < 2 ^ 14
      BY <1>1, <1>3, <2>2, OffsetsAssumption DEF Bits, BranchOps
    <3>2. ins.off % 2 ^ Bits(ins.op) = ins.off
      BY <1>1, <2>1, <2>2, <3>1 DEF Bits, BranchOps
    <3> QED
      BY <1>1, <1>3, <3>2 DEF AbsoluteAddr, Aim, BranchOps, CondOps
  <2>3. CASE ins.op = "b.c"
    <3>1. ins.off < 2 ^ 19
      BY <1>1, <1>3, <2>3, OffsetsAssumption DEF Bits, BranchOps
    <3>2. ins.off % 2 ^ Bits(ins.op) = ins.off
      BY <1>1, <2>1, <2>3, <3>1 DEF Bits, BranchOps
    <3> QED
      BY <1>1, <1>3, <3>2 DEF AbsoluteAddr, Aim, BranchOps, CondOps
  <2> QED
    BY <1>3, <2>2, <2>3 DEF CondOps
<1>4. CASE ins.op = "adrp"
  <2>1. ins.off >= 0
    BY <1>1, <1>4 DEF LosesSign
  <2>2. ZeroExtended(ins.off * PageWords) = ins.off * PageWords
    BY <1>1, <2>1 DEF ZeroExtended, PageWords
  <2>3. (At(c) \div PageWords) * PageWords + ins.off * PageWords
          = (At(c) \div PageWords + ins.off) * PageWords
    <3> PICK p : p = At(c) \div PageWords
      OBVIOUS
    <3>1. p \in Int
      BY <1>1 DEF PageWords
    <3> QED
      BY <1>1, <3>1 DEF PageWords
  <2> QED
    BY <1>4, <2>2, <2>3 DEF AbsoluteAddr, Aim, BranchOps, CondOps
<1>5. CASE ins.op \notin BranchOps \cup CondOps \cup {"adrp"}
  <2>1. ins.op \in LoadOps \cup {"adr"}
    BY <1>1, <1>5 DEF Ops
  <2>2. ZeroExtended(ins.off) = ins.off
    BY <1>1, <2>1 DEF LosesSign, ZeroExtended
  <2> QED
    BY <1>5, <2>2 DEF AbsoluteAddr, Aim
<1> QED
  BY <1>2, <1>3, <1>4, <1>5

Joined(all, v, w, l) ==
  /\ all \in Seq(Words) /\ Len(all) = l + Len(w)
  /\ \A k \in 1 .. l + Len(w) : all[k] = IF k <= l THEN v[k] ELSE w[k - l]

LEMMA ConcatElements ==
  ASSUME NEW v \in Seq(Words), NEW w \in Seq(Words), NEW l, l = Len(v), NEW all, all = v \o w
  PROVE  Joined(all, v, w, l)
<1>1. all \in Seq(Words) /\ Len(all) = l + Len(w)
  BY ConcatWords
<1>2. \A k \in 1 .. Len(v) + Len(w) :
        (v \o w)[k] = IF k <= Len(v) THEN v[k] ELSE w[k - Len(v)]
  BY ConcatProperties
<1> QED
  BY <1>1, <1>2 DEF Joined

(* Padding in front of words, and an address behind them. *)
Padded(all, n, words) ==
  /\ all \in Seq(Words) /\ Len(all) = n + Len(words)
  /\ \A m \in 1 .. n : all[m] = Word("nop", 0)
  /\ \A m \in 1 .. Len(words) : all[n + m] = words[m]

LEMMA PaddedWords ==
  ASSUME NEW n \in Nat, NEW words \in Seq(Words), NEW all, all = Nops(n) \o words
  PROVE  Padded(all, n, words)
<1> DEFINE nops == Nops(n)
<1>1. nops \in Seq(Words) /\ Len(nops) = n /\ \A m \in 1 .. n : nops[m] = Word("nop", 0)
  BY NopsType DEF Nops
<1>2. all = nops \o words
  OBVIOUS
<1> HIDE DEF nops
<1>3. Len(words) \in Nat
  BY LenProperties
<1>4. /\ all \in Seq(Words) /\ Len(all) = n + Len(words)
      /\ \A k \in 1 .. n + Len(words) : all[k] = IF k <= n THEN nops[k] ELSE words[k - n]
  <2>1. Joined(all, nops, words, n)
    BY <1>1, <1>2, ConcatElements
  <2> QED
    BY <2>1 DEF Joined
<1>5. ASSUME NEW m \in 1 .. n PROVE all[m] = Word("nop", 0)
  BY <1>1, <1>3, <1>4
<1>6. ASSUME NEW m \in 1 .. Len(words) PROVE all[n + m] = words[m]
  <2> PICK k : k = n + m
    OBVIOUS
  <2>1. k \in 1 .. n + Len(words) /\ ~(k <= n) /\ k - n = m
    BY <1>3
  <2> QED
    BY <1>4, <2>1
<1> QED
  BY <1>4, <1>5, <1>6 DEF Padded

Addressed(all, n, words, a) ==
  /\ all \in Seq(Words) /\ Len(all) = n + Len(words) + 2
  /\ \A m \in 1 .. n : all[m] = Word("nop", 0)
  /\ \A m \in 1 .. Len(words) : all[n + m] = words[m]
  /\ all[n + Len(words) + 1] = Word("lit", a)

LEMMA AddressedWords ==
  ASSUME NEW n \in Nat, NEW words \in Seq(Words), NEW a \in Int,
         NEW all, all = Nops(n) \o words \o Literal(a)
  PROVE  Addressed(all, n, words, a)
<1> PICK front, lit : front = Nops(n) \o words /\ lit = Literal(a)
  OBVIOUS
<1>1. Padded(front, n, words) /\ all = front \o lit
  BY PaddedWords
<1>2. lit \in Seq(Words) /\ Len(lit) = 2 /\ lit[1] = Word("lit", a)
  BY LiteralType DEF Literal
<1>3. Len(words) \in Nat
  BY LenProperties
<1>4. /\ all \in Seq(Words) /\ Len(all) = n + Len(words) + 2
      /\ \A k \in 1 .. n + Len(words) + 2 :
           all[k] = IF k <= n + Len(words) THEN front[k] ELSE lit[k - (n + Len(words))]
  <2>1. front \in Seq(Words) /\ Len(front) = n + Len(words)
    BY <1>1 DEF Padded
  <2> PICK l : l = n + Len(words)
    OBVIOUS
  <2>2. Joined(all, front, lit, l)
    BY <1>1, <1>2, <2>1, ConcatElements
  <2> QED
    BY <1>2, <2>2 DEF Joined
<1>5. \A m \in 1 .. n : all[m] = Word("nop", 0)
  BY <1>1, <1>3, <1>4 DEF Padded
<1>6. ASSUME NEW m \in 1 .. Len(words) PROVE all[n + m] = words[m]
  <2> PICK k : k = n + m
    OBVIOUS
  <2>1. k \in 1 .. n + Len(words) + 2 /\ k <= n + Len(words)
    BY <1>3
  <2> QED
    BY <1>1, <1>4, <2>1 DEF Padded
<1>7. all[n + Len(words) + 1] = Word("lit", a)
  <2> PICK k : k = n + Len(words) + 1
    OBVIOUS
  <2>1. k \in 1 .. n + Len(words) + 2 /\ ~(k <= n + Len(words)) /\ k - (n + Len(words)) = 1
    BY <1>3
  <2> QED
    BY <1>2, <1>4, <2>1
<1> QED
  BY <1>4, <1>5, <1>6, <1>7 DEF Addressed

(* A fixer that refers to nothing in the window. *)
LEMMA FreshShape ==
  ASSUME IInv, ShapeInv, NEW ins \in Instructions, NEW c, c = Current, Current < Count,
         NEW words \in Seq(Words), Len(words) <= 9, NEW address \in Int,
         Emit(ins, words, address, fmap), NewStart(ins, words, address),
         NEW t, t = AbsoluteAddr(ins), NEW h, h = Here,
         \/ LosesSign(ins)
         \/ ins.op = "adrp" /\ InFixingRange(t)
         \/ Form(words, ins, t, h)
  PROVE  ShapeInv'
<1>1. MapGrows(fmap, Len(words)) /\ MapAdds(fmap)
  BY SameMapGrows, LenProperties DEF MapAdds
<1>2. TypeOK
  BY DEF IInv
<1>3. LosesSign(ins) \/ ins.op \in {"prfm", "other"} \/ Aim(ins, c) = t
  BY <1>2, SeenAim
<1>4. NewWords(ins, words, address, fmap, c)
  <2>1. CASE LosesSign(ins) \/ Aim(ins, c) = t
    BY <2>1 DEF NewWords
  <2>2. CASE ins.op \in {"prfm", "other"} /\ ~LosesSign(ins)
    <3>1. CopyForm(words, ins)
      BY <2>2 DEF Form, BranchForm, CondForm, CopiedForm, LoadForm, AddressForm, ShortForm,
                  BranchOps, CondOps, LoadOps
    <3> QED
      BY <3>1 DEF NewWords, Form
  <2> QED
    BY <1>3, <2>1, <2>2
<1> QED
  BY <1>1, <1>4, EmitShape

LEMMA PaddedStart ==
  ASSUME TypeOK, NEW ins, NEW words \in Seq(Words), NEW n \in Nat, n <= Len(words),
         \A m \in 1 .. n : words[m] = Word("nop", 0), NEW address, address = Here + n
  PROVE  NewStart(ins, words, address)
<1>1. Here \in Int /\ Len(words) \in Nat
  BY HereType, LenProperties, WindowAssumption DEF TypeOK
<1>2. address - Here = n /\ address \in Here .. Here + Len(words)
  BY <1>1
<1> QED
  BY <1>2 DEF NewStart, Word

LEMMA HereStart ==
  ASSUME TypeOK, NEW ins, NEW words \in Seq(Words), NEW address, address = Here
  PROVE  NewStart(ins, words, address)
<1>1. Here \in Int /\ Len(words) \in Nat
  BY HereType, LenProperties, WindowAssumption DEF TypeOK
<1> QED
  BY <1>1 DEF NewStart

(* A fixer that keeps the instruction's form. *)
LEMMA AddedReference ==
  ASSUME IInv, NEW j \in AllReferences, NEW k, k = Len(code) + 1
  PROVE  InsertFixMap(j, k) = [fmap EXCEPT ![j] = @ \cup {k}]
<1>1. Cardinality(fmap[j]) <= Current /\ Cardinality(fmap[j]) \in Nat
  BY FiniteMap DEF IInv, ReferencesAreCompleted, AllReferences
<1>2. Current \in Nat /\ Current <= 5
  BY HereType, WindowAssumption DEF IInv, TypeOK, Current
<1> QED
  BY <1>1, <1>2 DEF InsertFixMap, MaxReferences

LEMMA ReencodeShape ==
  ASSUME IInv, ShapeInv, NEW ins \in Instructions, NEW c, c = Current, Current < Count,
         NEW rd \in Nat, Reencode(ins, rd),
         ins.op \in BranchOps \cup CondOps \cup {"adr"},
         NEW t, t = AbsoluteAddr(ins),
         InFixingRange(t) \/ (ins.op = "adr" /\ ins.lsb = 0) => rd = 0,
         NEW h, h = Here,
         ~InFixingRange(t) => Field(ins.op, t - h) = t - h
  PROVE  ShapeInv'
<1>1. /\ ins \in Instruction /\ t \in Int /\ h \in Int /\ c \in 0 .. Count - 1 /\ Count \in 1 .. 5
      /\ InBase \in Int /\ TypeOK /\ LengthOK /\ BlocksOK /\ outBase \in Int /\ Len(code) \in Nat
      /\ h = outBase + Len(code)
  <2>1. TypeOK /\ LengthOK /\ BlocksOK /\ ins \in Instruction
    BY WindowAssumption DEF IInv, ShapeInv
  <2>2. c \in 0 .. Count - 1 /\ Count \in 1 .. 5 /\ InBase \in Int
    BY <2>1, HereType, WindowAssumption
  <2>3. outBase \in Int /\ Len(code) \in Nat
    BY <2>1, LenProperties, WindowAssumption DEF TypeOK
  <2>4. h \in Int /\ h = outBase + Len(code)
    BY <2>3 DEF Here
  <2>5. t \in Int
    BY <2>1, AddressType
  <2> QED
    BY <2>1, <2>2, <2>3, <2>4, <2>5
<1> DEFINE j == RefIndex(t)
           off == IF InFixingRange(t) THEN RefOffset(ins) ELSE t - h
           w == [Word(ins.op, Field(ins.op, off)) EXCEPT !.rd = rd]
           words == <<w>>
           map == IF InFixingRange(t) THEN RefMap(ins) ELSE fmap
<1>2. Emit(ins, words, h, map)
  BY DEF Reencode
<1>3. InFixingRange(t) => j \in 0 .. Count - 1 /\ j \in AllReferences
  BY <1>1 DEF InFixingRange, RefIndex, AllReferences
<1>4. off = IF InFixingRange(t) THEN IF j < c THEN dat[j] - h ELSE 0 ELSE t - h
  BY DEF RefOffset
<1>5. map = IF InFixingRange(t) /\ j > c THEN InsertFixMap(j, Len(code) + 1) ELSE fmap
  BY DEF RefMap
<1>6. off \in Int
  <2> HIDE DEF off
  <2>1. InFixingRange(t) /\ j < c => dat[j] \in Int
    BY <1>1, <1>3 DEF TypeOK
  <2> QED
    BY <1>1, <1>4, <2>1
<1> HIDE DEF j, off, map
<1>7. w \in Words /\ w.op = ins.op /\ w.rd = rd /\ w.arg = Field(ins.op, off)
  BY <1>1, <1>6, FieldType DEF Word, Words, WordOps, Instruction
<1>8. words \in Seq(Words) /\ Len(words) = 1 /\ words[1] = w
  BY <1>7
<1>9. MapGrows(map, 1) /\ MapAdds(map)
  <2>1. CASE InFixingRange(t) /\ j > c
    <3>1. j \in 0 .. Count - 1 /\ j > Current /\ map = InsertFixMap(j, Len(code) + 1)
      BY <1>3, <1>5, <2>1
    <3>2. MapGrows(map, 1)
      BY <3>1, InsertedMapGrows
    <3> PICK k : k = Len(code) + 1
      OBVIOUS
    <3>3. map = [fmap EXCEPT ![j] = @ \cup {k}]
      BY <1>3, <2>1, <3>1, AddedReference
    <3>4. k = Here - outBase + 1 /\ fmap \in [AllReferences -> SUBSET (1 .. Len(code))]
      BY <1>1 DEF TypeOK, AllReferences
    <3> QED
      BY <3>2, <3>3, <3>4 DEF MapAdds
  <2>2. CASE ~(InFixingRange(t) /\ j > c)
    BY <1>5, <2>2, SameMapGrows DEF MapAdds
  <2> QED
    BY <2>1, <2>2
<1>10. NewStart(ins, words, h)
  BY <1>1, <1>8, HereStart
<1>11. NewWords(ins, words, h, map, c)
  <2> SUFFICES ASSUME ~LosesSign(ins) PROVE NewWords(ins, words, h, map, c)
    BY DEF NewWords
  <2>1. Aim(ins, c) = t
    <3>1. ins.op \notin {"prfm", "other"}
      BY DEF BranchOps, CondOps
    <3> QED
      BY <1>1, <3>1, SeenAim
  <2>2. CASE ~InFixingRange(t)
    <3>1. w = [Word(ins.op, t - h) EXCEPT !.rd = rd]
      BY <1>4, <2>2
    <3>2. ShortForm(words, ins, t, h)
      BY <2>2, <3>1 DEF ShortForm
    <3>3. map = fmap
      BY <1>5, <2>2
    <3> QED
      BY <2>1, <3>2, <3>3 DEF NewWords, Form
  <2>3. CASE InFixingRange(t)
    <3>1. ASSUME j < c, window[j + 1].op # "adrp" PROVE w.arg = dat[j] - h
      <4>1. off = dat[j] - h /\ j \in 0 .. c - 1
        BY <1>1, <1>3, <1>4, <2>3, <3>1
      <4>2. Starts(j)
        BY <4>1 DEF ShapeInv, FixedOK
      <4>3. dat[j] \in Begin(j) .. Begin(j + 1)
        BY <3>1, <4>2 DEF Starts
      <4>4. j \in 0 .. c /\ j + 1 \in 0 .. c
        BY <1>1, <4>1
      <4>5. /\ outBase <= Begin(j) /\ Begin(j + 1) <= h
            /\ Begin(j) \in Int /\ Begin(j + 1) \in Int
        BY <1>1, <4>4, BeginType DEF BlocksOK
      <4>6. Len(code) <= 50
        BY <1>1 DEF LengthOK
      <4>7. -8192 <= off /\ off < 8192
        <5>1. dat[j] \in Int /\ outBase <= dat[j] /\ dat[j] <= h
          BY <1>1, <4>3, <4>5
        <5>2. off = dat[j] - h
          BY <4>1
        <5> HIDE DEF words, w
        <5>3. PICK l, d : l = Len(code) /\ d = dat[j]
          OBVIOUS
        <5>4. h \in Int /\ outBase \in Int /\ l \in Nat /\ l <= 50 /\ h = outBase + l
          BY <1>1, <4>6, <5>3
        <5>5. d \in Int /\ outBase <= d /\ d <= h /\ off = d - h
          BY <5>1, <5>2, <5>3
        <5> QED
          BY <5>4, <5>5
      <4>8. Field(ins.op, off) = off
        BY <1>6, <4>7, FieldKeepsNear
      <4> QED
        BY <1>7, <4>1, <4>8
    <3>2. ASSUME j = c PROVE w.arg = 0 /\ map = fmap
      <4>1. off = 0 /\ map = fmap
        BY <1>1, <1>4, <1>5, <2>3, <3>2
      <4>2. Field(ins.op, off) = off
        BY <4>1, FieldKeepsNear
      <4> QED
        BY <1>7, <4>1, <4>2
    <3>3. j < c => map = fmap
      BY <1>1, <1>3, <1>5, <2>3
    <3>4. ASSUME j > c
          PROVE  /\ map[j] = fmap[j] \cup {h - outBase + 1}
                 /\ \A l \in AllReferences \ {j} : map[l] = fmap[l]
      <4> PICK k : k = Len(code) + 1
        OBVIOUS
      <4>1. map = [fmap EXCEPT ![j] = @ \cup {k}] /\ j \in AllReferences
        BY <1>3, <1>5, <2>3, <3>4, AddedReference
      <4>2. k = h - outBase + 1 /\ fmap \in [AllReferences -> SUBSET (1 .. Len(code))]
        BY <1>1 DEF TypeOK, AllReferences
      <4> QED
        BY <4>1, <4>2
    <3>5. rd = 0
      BY <2>3
    <3>6. j = RefIndex(Aim(ins, c))
      BY <2>1 DEF j
    <3>7. j \in Int /\ c \in Int
      BY <1>1, <1>3, <2>3
    <3> HIDE DEF w, words
    <3>8. NewReference(ins, words, map, c)
      <4>1. CASE j < c
        BY <1>7, <1>8, <2>1, <2>3, <3>1, <3>3, <3>5, <3>6, <4>1 DEF NewReference
      <4>2. CASE j = c
        <5>1. ~(j < c)
          BY <3>7, <4>2
        <5> QED
          BY <1>7, <1>8, <2>1, <2>3, <3>2, <3>5, <3>6, <4>2, <5>1 DEF NewReference
      <4>3. CASE j > c
        <5>1. ~(j < c) /\ j # c
          BY <3>7, <4>3
        <5> QED
          BY <1>7, <1>8, <2>1, <2>3, <3>4, <3>5, <3>6, <4>3, <5>1 DEF NewReference
      <4> QED
        BY <3>7, <4>1, <4>2, <4>3
    <3> QED
      BY <3>8 DEF NewWords
  <2> QED
    BY <2>2, <2>3
<1> HIDE DEF words
<1>12. Len(words) <= 9 /\ MapGrows(map, Len(words))
  BY <1>8, <1>9
<1> QED
  BY <1>1, <1>2, <1>8, <1>9, <1>10, <1>11, <1>12, EmitShape

LEMMA BranchImmShape ==
  ASSUME IInv, ShapeInv, NEW ins \in Instructions, NEW c, c = Current, Current < Count,
         FixBranchImm(ins)
  PROVE  ShapeInv'
<1> PICK t, h : t = AbsoluteAddr(ins) /\ h = Here
  OBVIOUS
<1>1. /\ t \in Int /\ h \in Int /\ ins.op \in BranchOps /\ ins.op # "adr"
      /\ TypeOK /\ Bits(ins.op) = 26
  BY AddressType, HereType, WindowAssumption DEF IInv, FixBranchImm, BranchOps, Bits
<1>2. CASE ~IsFar(ins, 2 ^ 25 - 1)
  <2>1. Reencode(ins, 0)
    BY <1>2 DEF FixBranchImm
  <2>2. ASSUME ~InFixingRange(t) PROVE Field(ins.op, t - h) = t - h
    <3>1. Abs(t - h) < 2 ^ 25 - 1
      BY <1>1, <1>2, <2>2 DEF IsFar, Abs
    <3>2. t - h \in Int /\ -(2 ^ 25) <= t - h /\ t - h < 2 ^ 25
      BY <1>1, <3>1 DEF Abs
    <3> QED
      BY <1>1, <3>2, FieldKeeps
  <2> QED
    BY <1>1, <2>1, <2>2, ReencodeShape
<1>3. CASE IsFar(ins, 2 ^ 25 - 1)
  <2> PICK n : n = Padding(IF ins.op = "b" THEN 2 ELSE 3)
    OBVIOUS
  <2> PICK words : words = IF ins.op = "b"
                           THEN <<Word("ldr17", 2), Word("br17", 0)>>
                           ELSE <<Word("ldr17", 3), Word("adr30", 4), Word("br17", 0)>>
    OBVIOUS
  <2> PICK all : all = Nops(n) \o words \o Literal(t)
    OBVIOUS
  <2>1. n \in 0 .. 1 /\ n \in Nat
    BY <1>1, PaddingType
  <2>2. words \in Seq(Words) /\ Len(words) \in 0 .. 3
    BY WordType, OpsAreWords
  <2>3. Emit(ins, all, h + n, fmap)
    BY <1>3 DEF FixBranchImm
  <2>4. Addressed(all, n, words, t)
    BY <1>1, <2>1, <2>2, AddressedWords
  <2>5. all \in Seq(Words) /\ Len(all) <= 9 /\ n <= Len(all) /\ h + n \in Int
    <3>1. all \in Seq(Words) /\ Len(all) = n + Len(words) + 2
      BY <2>4 DEF Addressed
    <3> HIDE DEF Addressed
    <3> PICK l : l = Len(words)
      OBVIOUS
    <3>2. l \in 0 .. 3 /\ Len(all) = n + l + 2
      BY <2>2, <3>1
    <3> QED
      BY <1>1, <2>1, <3>1, <3>2
  <2>6. NewStart(ins, all, h + n)
    <3>1. \A m \in 1 .. n : all[m] = Word("nop", 0)
      BY <2>4 DEF Addressed
    <3> QED
      BY <1>1, <2>1, <2>5, <3>1, PaddedStart
  <2>7. Outside(t, h)
    BY <1>1, <1>3 DEF IsFar, Outside, Abs
  <2>8. Form(all, ins, t, h)
    BY <1>1, <2>1, <2>7 DEF Form, BranchForm
  <2> QED
    BY <2>3, <2>5, <2>6, <2>8, FreshShape
<1> QED
  BY <1>2, <1>3

LEMMA CondBranchShape ==
  ASSUME IInv, ShapeInv, NEW ins \in Instructions, NEW c, c = Current, Current < Count,
         FixCondBranch(ins)
  PROVE  ShapeInv'
<1> PICK t, h : t = AbsoluteAddr(ins) /\ h = Here
  OBVIOUS
<1> PICK reach : reach = 2 ^ (Bits(ins.op) - 1) - 1
  OBVIOUS
<1>1. /\ t \in Int /\ h \in Int /\ ins.op \in CondOps /\ ins.op # "adr" /\ TypeOK
  BY AddressType, HereType, WindowAssumption DEF IInv, FixCondBranch, CondOps
<1>2. \/ Bits(ins.op) = 19 /\ reach = 2 ^ 18 - 1
      \/ Bits(ins.op) = 14 /\ reach = 2 ^ 13 - 1
  <2>1. CASE ins.op = "tbz"
    BY <2>1 DEF Bits, BranchOps
  <2>2. CASE ins.op = "b.c"
    BY <2>2 DEF Bits, BranchOps
  <2> QED
    BY <1>1, <2>1, <2>2 DEF CondOps
<1>3. CASE ~IsFar(ins, reach)
  <2>1. Reencode(ins, 0)
    BY <1>3 DEF FixCondBranch
  <2>2. ASSUME ~InFixingRange(t) PROVE Field(ins.op, t - h) = t - h
    <3>1. Abs(t - h) < reach
      BY <1>1, <1>2, <1>3, <2>2 DEF IsFar, Abs
    <3>2. t - h \in Int /\ -reach <= t - h /\ t - h < reach
      BY <1>1, <1>2, <3>1 DEF Abs
    <3> QED
      BY <1>2, <3>2, FieldKeeps
  <2> QED
    BY <1>1, <2>1, <2>2, ReencodeShape
<1>4. CASE IsFar(ins, reach)
  <2> PICK n : n = Padding(4)
    OBVIOUS
  <2> PICK words : words = <<Word(ins.op, 2), Word("b", 5), Word("ldr17", 2), Word("br17", 0)>>
    OBVIOUS
  <2> PICK all : all = Nops(n) \o words \o Literal(t)
    OBVIOUS
  <2>1. n \in 0 .. 1 /\ n \in Nat
    BY <1>1, PaddingType
  <2>2. words \in Seq(Words) /\ Len(words) = 4
    <3>1. ins.op \in WordOps
      BY <1>1 DEF WordOps, Ops
    <3> QED
      BY <3>1, WordType, OpsAreWords
  <2>3. Emit(ins, all, h, fmap)
    BY <1>4 DEF FixCondBranch
  <2>4. Addressed(all, n, words, t)
    BY <1>1, <2>1, <2>2, AddressedWords
  <2>5. all \in Seq(Words) /\ Len(all) <= 9
    BY <2>1, <2>2, <2>4 DEF Addressed
  <2>6. NewStart(ins, all, h)
    BY <1>1, <2>5, HereStart
  <2>7. Outside(t, h)
    <3>1. Bits(ins.op) \in {14, 19}
      BY <1>1 DEF Bits, BranchOps, CondOps
    <3>2. ~InFixingRange(t) /\ Abs(t - h) >= 2 ^ (Bits(ins.op) - 1) - 1
      BY <1>1, <1>4 DEF IsFar
    <3>3. Abs(t - h) \in Int
      BY <1>1 DEF Abs
    <3>4. Abs(t - h) >= 2 ^ 13 - 1
      <4>1. CASE Bits(ins.op) = 14
        BY <3>2, <4>1
      <4>2. CASE Bits(ins.op) = 19
        <5>1. PICK x : x = Abs(t - h)
          OBVIOUS
        <5>2. x \in Int /\ x >= 2 ^ 18 - 1
          BY <3>2, <3>3, <4>2, <5>1
        <5> QED
          BY <5>1, <5>2
      <4> QED
        BY <3>1, <4>1, <4>2
    <3> QED
      BY <3>2, <3>4 DEF Outside
  <2>8. Form(all, ins, t, h)
    BY <1>1, <2>1, <2>7 DEF Form, CondForm
  <2> QED
    BY <1>1, <2>3, <2>5, <2>6, <2>8, FreshShape
<1> QED
  BY <1>3, <1>4

LEMMA CopyShape ==
  ASSUME IInv, ShapeInv, NEW ins \in Instructions, NEW c, c = Current, Current < Count,
         FixPrefetch(ins) \/ CopyInstruction(ins)
  PROVE  ShapeInv'
<1> PICK t, h : t = AbsoluteAddr(ins) /\ h = Here
  OBVIOUS
<1>1. h \in Int /\ TypeOK
  BY HereType, WindowAssumption DEF IInv
<1>2. \E words \in Seq(Words) :
        CopyForm(words, ins) /\ Len(words) <= 9 /\ Emit(ins, words, h, fmap)
  <2>1. CASE FixPrefetch(ins)
    <3> PICK words : words = <<>>
      OBVIOUS
    <3>1. words \in Seq(Words) /\ Len(words) <= 9
      BY EmptySeq
    <3>2. CopyForm(words, ins) /\ Emit(ins, words, h, fmap)
      BY <2>1 DEF FixPrefetch, CopyForm
    <3> QED
      BY <3>1, <3>2
  <2>2. CASE CopyInstruction(ins)
    <3> PICK words : words = <<Word("other", 0)>>
      OBVIOUS
    <3>1. words \in Seq(Words) /\ Len(words) <= 9
      BY WordType, OpsAreWords
    <3>2. CopyForm(words, ins) /\ Emit(ins, words, h, fmap)
      BY <2>2 DEF CopyInstruction, CopyForm
    <3> QED
      BY <3>1, <3>2
  <2> QED
    BY <2>1, <2>2
<1> PICK words \in Seq(Words) :
      CopyForm(words, ins) /\ Len(words) <= 9 /\ Emit(ins, words, h, fmap)
  BY <1>2
<1>3. NewStart(ins, words, h)
  BY <1>1, HereStart
<1>4. Form(words, ins, t, h)
  BY DEF Form
<1> QED
  BY <1>1, <1>3, <1>4, FreshShape

LEMMA AdrShape ==
  ASSUME IInv, ShapeInv, NEW ins \in Instructions, NEW c, c = Current, Current < Count,
         FixAdr(ins) \/ FixAdrp(ins)
  PROVE  ShapeInv'
<1> PICK t, h, n : t = AbsoluteAddr(ins) /\ h = Here /\ n = Padding(2)
  OBVIOUS
<1>1. /\ t \in Int /\ h \in Int /\ TypeOK /\ ins.op \in {"adr", "adrp"} /\ ins.lsb \in 0 .. 3
      /\ ins.off \in Int /\ n \in 0 .. 1 /\ n \in Nat /\ RwDelta \in Int
  BY AddressType, HereType, PaddingType, WindowAssumption
     DEF IInv, FixAdr, FixAdrp, Instruction
<1> PICK all : all = Nops(n) \o LoadAddress(t)
  OBVIOUS
<1> PICK words : words = LoadAddress(t)
  OBVIOUS
<1>2. words \in Seq(Words) /\ Len(words) = 4
  <2> PICK jump, lit : jump = <<Word("ldrx", 2), Word("b", 3)>> /\ lit = Literal(t)
    OBVIOUS
  <2>1. jump \in Seq(Words) /\ Len(jump) = 2
    BY WordType, OpsAreWords
  <2>2. lit \in Seq(Words) /\ Len(lit) = 2
    BY <1>1, LiteralType
  <2>3. words = jump \o lit
    BY DEF LoadAddress
  <2>4. words \in Seq(Words) /\ Len(words) = Len(jump) + Len(lit)
    <3>1. jump \o lit \in Seq(Words) /\ Len(jump \o lit) = Len(jump) + Len(lit)
      BY <2>1, <2>2, ConcatWords
    <3> QED
      BY <2>3, <3>1
  <2> QED
    BY <2>1, <2>2, <2>4
<1>3. Padded(all, n, words)
  BY <1>1, <1>2, PaddedWords
<1>4. all \in Seq(Words) /\ Len(all) <= 9 /\ n <= Len(all)
  BY <1>1, <1>2, <1>3 DEF Padded
<1>5. ~InFixingRange(t) => Form(all, ins, t, h)
  BY <1>1 DEF Form, AddressForm
<1>6. NewStart(ins, all, h + n)
  <2>1. \A m \in 1 .. n : all[m] = Word("nop", 0)
    BY <1>3 DEF Padded
  <2> QED
    BY <1>1, <1>4, <2>1, PaddedStart
<1>7. CASE FixAdrp(ins)
  <2>1. ins.op = "adrp"
    BY <1>7 DEF FixAdrp
  <2>2. CASE InFixingRange(t)
    <3> PICK copy : copy = <<Word("adrp", ins.off)>>
      OBVIOUS
    <3>1. copy \in Seq(Words) /\ Len(copy) = 1
      BY <1>1, WordType, OpsAreWords
    <3>2. Emit(ins, copy, h + RwDelta, fmap)
      BY <1>7, <2>2 DEF FixAdrp
    <3>3. NewStart(ins, copy, h + RwDelta) /\ Len(copy) <= 9 /\ h + RwDelta \in Int
      BY <1>1, <2>1, <3>1 DEF NewStart
    <3> QED
      BY <2>1, <2>2, <3>1, <3>2, <3>3, FreshShape
  <2>3. CASE ~InFixingRange(t)
    <3> PICK address : address = h + (IF n = 1 THEN 1 ELSE RwDelta)
      OBVIOUS
    <3>1. Emit(ins, all, address, fmap)
      BY <1>7, <2>3 DEF FixAdrp
    <3>2. NewStart(ins, all, address) /\ address \in Int
      BY <1>1, <2>1 DEF NewStart
    <3> QED
      BY <1>4, <1>5, <2>3, <3>1, <3>2, FreshShape
  <2> QED
    BY <2>2, <2>3
<1>8. CASE FixAdr(ins)
  <2> PICK off : off = t - h
    OBVIOUS
  <2> PICK far : far = (~InFixingRange(t) /\ (Abs(off) > 2 ^ 18 \/ Abs(4 * off + ins.lsb) >= 2 ^ 20 - 1))
    OBVIOUS
  <2> PICK rd : rd = IF InFixingRange(t) THEN 0 ELSE 8 * ins.lsb
    OBVIOUS
  <2>1. ins.op = "adr" /\ (IF far THEN Emit(ins, all, h + n, fmap) ELSE Reencode(ins, rd))
    BY <1>8 DEF FixAdr
  <2>2. CASE far
    <3>1. ~InFixingRange(t)
      BY <2>2, Zenon
    <3>2. h + n \in Int
      BY <1>1
    <3> QED
      BY <1>4, <1>5, <1>6, <2>1, <2>2, <3>1, <3>2, FreshShape
  <2>3. CASE ~far
    <3>1. rd \in Nat /\ (InFixingRange(t) \/ ins.lsb = 0 => rd = 0)
      <4>1. PICK l : l = ins.lsb
        OBVIOUS
      <4>2. l \in Nat
        BY <1>1, <4>1
      <4>3. 8 * l \in Nat /\ (l = 0 => 8 * l = 0)
        BY <4>2
      <4>4. rd = IF InFixingRange(t) THEN 0 ELSE 8 * l
        BY <4>1
      <4> QED
        BY <4>1, <4>3, <4>4
    <3>2. ASSUME ~InFixingRange(t) PROVE Field(ins.op, t - h) = t - h
      <4>1. ~(Abs(off) > 2 ^ 18) /\ ~(Abs(4 * off + ins.lsb) >= 2 ^ 20 - 1)
        BY <2>3, <3>2
      <4>2. off \in Int
        BY <1>1
      <4>3. -(2 ^ 18) <= off /\ off < 2 ^ 18
        <5>1. PICK l : l = ins.lsb
          OBVIOUS
        <5>2. l \in {0, 1, 2, 3}
          BY <1>1, <5>1
        <5>3. -(2 ^ 18) <= off /\ off <= 2 ^ 18
          BY <4>1, <4>2 DEF Abs
        <5>4. 4 * off + l < 2 ^ 20 - 1
          BY <4>1, <4>2, <5>1, <5>2 DEF Abs
        <5> QED
          BY <4>2, <5>2, <5>3, <5>4
      <4>4. Bits(ins.op) = 19
        BY <2>1 DEF Bits, BranchOps
      <4> QED
        BY <4>2, <4>3, <4>4, FieldKeeps
    <3>3. Reencode(ins, rd)
      BY <2>1, <2>3
    <3> QED
      BY <1>1, <2>1, <3>1, <3>2, <3>3, ReencodeShape
  <2> QED
    BY <2>2, <2>3
<1> QED
  BY <1>7, <1>8

(* The literal is copied, or the load keeps its form. *)
Copies(load, size, t) ==
  /\ load \in Seq(Words) /\ Len(load) = 2 + size
  /\ load[1] = [Word("ldr", 2) EXCEPT !.size = size]
  /\ load[2] = Word("b", 1 + size) /\ load[3] = Word("data", t)

LEMMA CopiedWords ==
  ASSUME NEW size \in {1, 2, 4}, NEW t \in Int,
         NEW load, load = <<[Word("ldr", 2) EXCEPT !.size = size], Word("b", 1 + size)>>
                            \o [k \in 1 .. size |-> Word("data", t)]
  PROVE  Copies(load, size, t)
<1> PICK a, b, data : /\ a = [Word("ldr", 2) EXCEPT !.size = size] /\ b = Word("b", 1 + size)
                      /\ data = [k \in 1 .. size |-> Word("data", t)]
  OBVIOUS
<1> PICK jump : jump = <<a, b>>
  OBVIOUS
<1>1. a \in Words /\ b \in Words /\ Word("data", t) \in Words
  <2>1. a \in Words
    <3>1. size \in Nat
      OBVIOUS
    <3> QED
      BY <3>1, OpsAreWords DEF Word, Words
  <2> QED
    BY <2>1, WordType, OpsAreWords
<1>2. data \in Seq(Words) /\ Len(data) = size /\ data[1] = Word("data", t)
  <2>1. data \in [1 .. size -> Words] /\ size \in Nat /\ 1 \in 1 .. size
    BY <1>1
  <2> QED
    BY <2>1, SeqDef, LenProperties
<1>3. jump \in Seq(Words) /\ Len(jump) = 2 /\ jump[1] = a /\ jump[2] = b
  BY <1>1
<1>4. load = jump \o data
  OBVIOUS
<1> PICK l : l = 2
  OBVIOUS
<1>5. Joined(load, jump, data, l)
  BY <1>2, <1>3, <1>4, ConcatElements
<1>6. load \in Seq(Words) /\ Len(load) = 2 + size
  BY <1>2, <1>5 DEF Joined
<1>7. load[1] = jump[1] /\ load[2] = jump[2] /\ load[3] = data[1]
  BY <1>2, <1>5 DEF Joined
<1> QED
  BY <1>2, <1>3, <1>6, <1>7 DEF Copies

LEMMA LoadLitShape ==
  ASSUME IInv, ShapeInv, NEW ins \in Instructions, NEW c, c = Current, Current < Count,
         FixLoadLit(ins)
  PROVE  ShapeInv'
<1> PICK t, h, size : t = AbsoluteAddr(ins) /\ h = Here /\ size = ins.size
  OBVIOUS
<1>1. /\ t \in Int /\ h \in Int /\ TypeOK /\ ins.op \in LoadOps /\ size \in {1, 2, 4}
  BY AddressType, HereType, WindowAssumption DEF IInv, FixLoadLit, Instruction
<1>4. \A x \in Int : x % size \in 0 .. 3 /\ x % size < size
  BY <1>1
<1> DEFINE copied == InFixingRange(t) \/ Abs(t - h) + size - 1 >= 2 ^ 18 - 1
<1>2. CASE copied
  <2> PICK n : n = (0 - h - 2) % size
    OBVIOUS
  <2> PICK load : load = <<[Word("ldr", 2) EXCEPT !.size = size], Word("b", 1 + size)>>
                           \o [k \in 1 .. size |-> Word("data", t)]
    OBVIOUS
  <2> PICK all : all = Nops(n) \o load
    OBVIOUS
  <2>1. n \in 0 .. 3 /\ n \in Nat
    <3>1. PICK x : x = 0 - h - 2
      OBVIOUS
    <3>2. x \in Int
      BY <1>1, <3>1
    <3>3. x % size \in 0 .. 3
      BY <1>4, <3>2
    <3>4. n = x % size
      BY <3>1
    <3>5. n \in 0 .. 3
      BY <3>3, <3>4, Zenon
    <3>6. \A y \in 0 .. 3 : y \in Nat
      OBVIOUS
    <3> QED
      BY <3>5, <3>6, Zenon
  <2>2. load \in Seq(Words) /\ Len(load) = 2 + size
    <3>1. Copies(load, size, t)
      BY <1>1, CopiedWords
    <3> QED
      BY <3>1 DEF Copies
  <2>3. Emit(ins, all, h + n, fmap)
    BY <1>2 DEF FixLoadLit
  <2>4. Padded(all, n, load)
    BY <2>1, <2>2, PaddedWords
  <2>5. all \in Seq(Words) /\ Len(all) <= 9 /\ n <= Len(all) /\ h + n \in Int
    <3>1. all \in Seq(Words) /\ Len(all) = n + Len(load)
      BY <2>4 DEF Padded
    <3>2. Len(all) = n + (2 + size)
      BY <2>2, <3>1
    <3>3. ASSUME NEW x \in 0 .. 3 PROVE x + (2 + size) <= 9 /\ x <= x + (2 + size) /\ h + x \in Int
      <4>1. size \in Int /\ 1 <= size /\ size <= 4 /\ h \in Int
        BY <1>1
      <4>2. PICK y : y = 2 + size
        OBVIOUS
      <4>3. y \in Int /\ 3 <= y /\ y <= 6
        BY <4>1, <4>2
      <4>4. x \in Int /\ 0 <= x /\ x <= 3
        OBVIOUS
      <4>5. x + y <= 9 /\ x <= x + y
        BY <4>3, <4>4
      <4>6. h + x \in Int
        BY <4>1, <4>4
      <4> QED
        BY <4>2, <4>5, <4>6
    <3> QED
      BY <2>1, <3>1, <3>2, <3>3, Zenon
  <2>6. NewStart(ins, all, h + n)
    <3>1. \A m \in 1 .. n : all[m] = Word("nop", 0)
      BY <2>4 DEF Padded
    <3> QED
      BY <1>1, <2>1, <2>5, <3>1, PaddedStart
  <2>7. Form(all, ins, t, h)
    BY <1>1, <2>1 DEF Form, CopiedForm
  <2> QED
    BY <2>3, <2>5, <2>6, <2>7, FreshShape
<1>3. CASE ~copied
  <2> PICK n : n = (t - h) % size
    OBVIOUS
  <2> PICK off : off = t - h - n
    OBVIOUS
  <2> PICK w : w = WidthAfter(ins, off)
    OBVIOUS
  <2> PICK word : word = [Word("ldr", off) EXCEPT !.size = w]
    OBVIOUS
  <2> PICK load : load = <<word>>
    OBVIOUS
  <2> PICK all : all = Nops(n) \o load
    OBVIOUS
  <2>1. n \in 0 .. 3 /\ n \in Nat /\ n < size
    BY <1>1, <1>4
  <2>2. /\ ~InFixingRange(t) /\ t - h < 2 ^ 18 - size /\ h - t < 2 ^ 18 - size
        /\ off \in Int
    <3>1. ~InFixingRange(t) /\ ~(Abs(t - h) + size - 1 >= 2 ^ 18 - 1)
      BY <1>3
    <3>2. t - h < 2 ^ 18 - size /\ h - t < 2 ^ 18 - size
      <4>1. size \in Int /\ t \in Int /\ h \in Int
        BY <1>1
      <4> QED
        BY <3>1, <4>1 DEF Abs
    <3> QED
      BY <1>1, <2>1, <3>1, <3>2
  <2>3. Field("ldr", off) = off
    <3>1. -(2 ^ 18) <= off /\ off < 2 ^ 18
      <4>0. \A x \in Int, y \in Int, z \in {1, 2, 4} :
              x < 2 ^ 18 - z /\ -x < 2 ^ 18 - z /\ 0 <= y /\ y < z
                => -(2 ^ 18) <= x - y /\ x - y < 2 ^ 18
        OBVIOUS
      <4>1. PICK x : x = t - h
        OBVIOUS
      <4>2. x \in Int /\ x < 2 ^ 18 - size /\ -x < 2 ^ 18 - size
        BY <1>1, <2>2, <4>1
      <4>3. n \in Int /\ 0 <= n /\ n < size
        BY <2>1
      <4>4. off = x - n
        BY <1>1, <4>1
      <4>5. size \in {1, 2, 4}
        BY <1>1
      <4> QED
        BY <4>0, <4>2, <4>3, <4>4, <4>5, Zenon
    <3>2. Bits("ldr") = 19
      BY DEF Bits, BranchOps
    <3> QED
      BY <2>2, <3>1, <3>2, FieldKeeps
  <2>4. w \in Nat /\ (w = size \/ (t < h /\ WidthAfter(ins, -1) # size))
    <3>1. CASE t >= h
      <4>1. n <= t - h
        <5>1. CASE size = 1
          BY <1>1, <3>1, <5>1
        <5>2. CASE size = 2
          BY <1>1, <3>1, <5>2
        <5>3. CASE size = 4
          BY <1>1, <3>1, <5>3
        <5> QED
          BY <1>1, <5>1, <5>2, <5>3
      <4>2. off >= 0
        BY <1>1, <2>1, <4>1
      <4>3. w = size
        BY <1>1, <4>2 DEF WidthAfter, LoadOps
      <4> QED
        BY <1>1, <4>3
    <3>2. CASE t < h
      <4>1. off < 0 /\ ~(off >= 0)
        BY <1>1, <2>1, <3>2
      <4>2. w = WidthAfter(ins, -1) /\ w \in Nat
        BY <1>1, <4>1 DEF WidthAfter, LoadOps
      <4> QED
        BY <3>2, <4>2
    <3> QED
      BY <1>1, <3>1, <3>2
  <2>5. Emit(ins, all, h + n, fmap)
    <3>1. all = Nops(n) \o <<[Word("ldr", Field("ldr", off)) EXCEPT !.size = w]>>
      BY <2>3
    <3> QED
      BY <1>3, <3>1 DEF FixLoadLit
  <2>6. load \in Seq(Words) /\ Len(load) = 1
    <3>1. word \in Words
      BY <2>2, <2>4, OpsAreWords DEF Word, Words
    <3> QED
      BY <3>1
  <2>7. Padded(all, n, load)
    BY <2>1, <2>6, PaddedWords
  <2>8. all \in Seq(Words) /\ Len(all) <= 9 /\ n <= Len(all) /\ h + n \in Int
    <3>1. all \in Seq(Words) /\ Len(all) = n + Len(load)
      BY <2>7 DEF Padded
    <3> QED
      BY <1>1, <2>1, <2>6, <3>1
  <2>9. NewStart(ins, all, h + n)
    <3>1. \A m \in 1 .. n : all[m] = Word("nop", 0)
      BY <2>7 DEF Padded
    <3> QED
      BY <1>1, <2>1, <2>8, <3>1, PaddedStart
  <2>10. Form(all, ins, t, h)
    BY <1>1, <2>1, <2>4 DEF Form, LoadForm
  <2> QED
    BY <2>5, <2>8, <2>9, <2>10, FreshShape
<1> QED
  BY <1>2, <1>3

-----------------------------------------------------------------------------
(* The jump back, and every step.                                           *)

LEMMA FixedStill ==
  ASSUME TypeOK, LengthOK, BlocksOK, NEW c \in Nat, c = Current, NEW i \in 0 .. c - 1, FixedOK(i),
         Current' = Current, window' = window, dat' = dat, fmap' = fmap, outBase' = outBase,
         Begin(i)' = Begin(i), Begin(i + 1)' = Begin(i + 1),
         \A a \in outBase .. Here - 1 : code'[a - outBase + 1] = WordAt(a)
  PROVE  FixedOK(i)'
<1>1. Target(i)' = Target(i) /\ window'[i + 1] = window[i + 1]
  BY DEF Target
<1> PICK s, e : s = Begin(i) /\ e = Begin(i + 1)
  OBVIOUS
<1>2. /\ s \in Int /\ e \in Int /\ Here \in Int /\ outBase \in Int
      /\ outBase <= s /\ s <= e /\ e <= Here
  <2>1. i \in 0 .. c /\ i + 1 \in 0 .. c
    OBVIOUS
  <2> QED
    BY <2>1, BeginType, HereType, WindowAssumption DEF BlocksOK, TypeOK
<1>3. \A a \in s .. e - 1 : WordAt(a)' = WordAt(a) /\ Settled(a)' = Settled(a)
  <2>1. \A a \in s .. e - 1 : a \in outBase .. Here - 1
    BY <1>2
  <2> QED
    BY <2>1 DEF WordAt, Settled
<1>4. Starts(i)'
  <2>1. ASSUME window[i + 1].op # "adrp", NEW a \in s .. dat[i] - 1 PROVE WordAt(a)'.op = "nop"
    <3>1. dat[i] \in s .. e /\ WordAt(a).op = "nop"
      BY <2>1 DEF FixedOK, Starts
    <3>2. a \in s .. e - 1
      BY <1>2, <3>1
    <3> QED
      BY <1>3, <3>1, <3>2
  <2> QED
    BY <1>1, <2>1 DEF FixedOK, Starts, WordAt
<1>5. CASE LosesSign(window[i + 1]) \/ (window[i + 1].op = "adrp" /\ InFixingRange(Target(i)))
  BY <1>1, <1>4, <1>5 DEF FixedOK
<1>6. CASE Refers(i)
  <2>1. e = s + 1 /\ s \in s .. e - 1
    BY <1>2, <1>6 DEF Refers
  <2>2. WordAt(s)' = WordAt(s)
    BY <1>3, <2>1
  <2>3. Refers(i)'
    BY <1>1, <1>6, <2>2 DEF Refers, WordAt
  <2> QED
    BY <1>4, <2>3 DEF FixedOK
<1>7. ASSUME NEW words \in Seq(Words), Form(words, window[i + 1], Target(i), Begin(i)),
             Written(i, words)
      PROVE  FixedOK(i)'
  <2>1. e = s + Len(words) /\ Len(words) \in Nat
    BY <1>7, LenProperties DEF Written
  <2>2. ASSUME NEW m \in 1 .. Len(words)
        PROVE  WordAt(s + m - 1)' = words[m] /\ Settled(s + m - 1)'
    <3> PICK a : a = s + m - 1
      OBVIOUS
    <3>1. a \in s .. e - 1
      <4>1. s \in Int /\ m \in Int /\ 1 <= m /\ m <= Len(words) /\ Len(words) \in Nat
        BY <1>2, <2>1
      <4>2. e - 1 = s + Len(words) - 1
        BY <2>1
      <4> QED
        BY <4>1, <4>2
    <3>2. WordAt(a) = words[m] /\ Settled(a)
      BY <1>7 DEF Written
    <3>3. WordAt(a)' = words[m] /\ Settled(a)'
      BY <1>3, <3>1, <3>2
    <3> QED
      BY <3>3 DEF WordAt, Settled
  <2>3. Written(i, words)'
    BY <2>1, <2>2 DEF Written
  <2>4. Form(words, window'[i + 1], Target(i)', Begin(i)')
    BY <1>1, <1>7
  <2> QED
    BY <1>4, <2>3, <2>4 DEF FixedOK
<1> QED
  BY <1>5, <1>6, <1>7 DEF FixedOK

LEMMA JumpShape == ASSUME IInv, ShapeInv, JumpBack PROVE ShapeInv'
<1> PICK h, t, c, n : h = Here /\ t = At(Count) /\ c = Count /\ n = Padding(2)
  OBVIOUS
<1>1. /\ TypeOK /\ LengthOK /\ BlocksOK /\ ReferencesAreCompleted /\ Current = c /\ ~done
      /\ c \in Nat /\ h \in Int /\ t \in Int /\ outBase \in Int /\ Len(code) \in Nat
      /\ h = outBase + Len(code) /\ n \in 0 .. 1 /\ n \in Nat
  <2>1. /\ TypeOK /\ LengthOK /\ BlocksOK /\ ReferencesAreCompleted /\ Current = c /\ ~done
    BY DEF IInv, ShapeInv, JumpBack
  <2>2. c \in Nat /\ t \in Int /\ outBase \in Int /\ Len(code) \in Nat
    BY <2>1, LenProperties, WindowAssumption DEF TypeOK, At
  <2>3. h \in Int /\ h = outBase + Len(code)
    BY <2>2 DEF Here
  <2>4. n \in 0 .. 1
    BY <2>1, PaddingType
  <2> QED
    BY <2>1, <2>2, <2>3, <2>4
<1>2. PICK words \in Seq(Words) : code' = code \o words /\ JumpForm(words, h)
  <2>1. CASE Abs(t - h) >= 2 ^ 25 - 1
    <3> PICK words : words = Nops(n) \o <<Word("ldr17", 2), Word("br17", 0)>> \o Literal(t)
      OBVIOUS
    <3> PICK jump : jump = <<Word("ldr17", 2), Word("br17", 0)>>
      OBVIOUS
    <3>1. jump \in Seq(Words)
      BY WordType, OpsAreWords
    <3>2. Addressed(words, n, jump, t)
      BY <1>1, <3>1, AddressedWords
    <3>3. words \in Seq(Words)
      BY <3>2 DEF Addressed
    <3>4. code' = code \o words
      BY <2>1 DEF JumpBack
    <3>5. JumpForm(words, h)
      BY <1>1, <2>1 DEF JumpForm
    <3> QED
      BY <3>3, <3>4, <3>5
  <2>2. CASE ~(Abs(t - h) >= 2 ^ 25 - 1)
    <3> PICK words : words = <<Word("b", t - h)>>
      OBVIOUS
    <3>1. words \in Seq(Words)
      <4>1. t - h \in Int
        BY <1>1
      <4> QED
        BY <4>1, WordType, OpsAreWords
    <3>2. code' = code \o words
      BY <2>2 DEF JumpBack
    <3>3. JumpForm(words, h)
      BY DEF JumpForm
    <3> QED
      BY <3>1, <3>2, <3>3
  <2> QED
    BY <2>1, <2>2
<1>3. /\ outBase' = outBase /\ window' = window /\ dat' = dat /\ fmap' = fmap /\ done' = TRUE
      /\ Current' = Current
  BY DEF JumpBack, Current
<1> PICK l : l = Len(words)
  OBVIOUS
<1>4. /\ l \in Nat /\ Len(code') = Len(code) + l /\ Here' = h + l
      /\ \A k \in 1 .. Len(code) : code'[k] = code[k]
      /\ \A m \in 1 .. l : code'[Len(code) + m] = words[m]
  <2> PICK all, k : all = code' /\ k = Len(code)
    OBVIOUS
  <2>1. Joined(all, code, words, k)
    <3>1. all = code \o words
      BY <1>2
    <3> QED
      BY <1>1, <3>1, ConcatElements DEF TypeOK
  <2>2. l \in Nat
    BY LenProperties
  <2>3. Len(all) = k + l /\ \A m \in 1 .. k : all[m] = code[m]
    BY <1>1, <2>1, <2>2 DEF Joined
  <2>4. ASSUME NEW m \in 1 .. l PROVE all[k + m] = words[m]
    <3> PICK p : p = k + m
      OBVIOUS
    <3>1. p \in 1 .. k + l /\ ~(p <= k) /\ p - k = m
      BY <1>1, <2>2
    <3> QED
      BY <2>1, <3>1 DEF Joined
  <2>5. Here' = h + l
    BY <1>1, <1>3, <2>2, <2>3 DEF Here
  <2> QED
    BY <2>2, <2>3, <2>4, <2>5
<1>5. /\ \A i \in 0 .. c : Begin(i)' = Begin(i)
      /\ Begin(c) = h /\ Begin(c + 1)' = h + l
  <2> PICK tail : tail = <<h, outBase + Len(code')>>
    OBVIOUS
  <2>1. start \in Seq(Int) /\ Len(start) = c
    BY <1>1 DEF TypeOK, Current
  <2>2. tail \in Seq(Int) /\ Len(tail) = 2 /\ tail[1] = h /\ tail[2] = h + l
    BY <1>1, <1>4
  <2>3. start' = start \o tail
    BY DEF JumpBack
  <2>4. /\ Len(start') = c + 2
        /\ \A k \in 1 .. c + 2 : start'[k] = IF k <= c THEN start[k] ELSE tail[k - c]
    <3>0. start \in Seq(Int) /\ tail \in Seq(Int)
      BY <2>1, <2>2
    <3>1. Len(start \o tail) = Len(start) + Len(tail)
      BY <3>0, ConcatProperties
    <3>2. \A k \in 1 .. Len(start) + Len(tail) :
            (start \o tail)[k] = IF k <= Len(start) THEN start[k] ELSE tail[k - Len(start)]
      BY <3>0, ConcatProperties
    <3>3. Len(start) + Len(tail) = c + 2
      BY <2>1, <2>2
    <3> QED
      BY <2>1, <2>3, <3>1, <3>2, <3>3
  <2>5. start'[c + 1] = h /\ start'[c + 2] = h + l
    BY <1>1, <2>2, <2>4
  <2>6. Begin(c) = h /\ \A i \in 0 .. c - 1 : Begin(i) = start[i + 1]
    BY <1>1, <2>1 DEF Begin
  <2>7. \A i \in 0 .. c + 1 : Begin(i)' = start'[i + 1]
    BY <1>1, <2>4 DEF Begin
  <2>8. \A i \in 0 .. c - 1 : Begin(i)' = Begin(i)
    <3> SUFFICES ASSUME NEW i \in 0 .. c - 1 PROVE Begin(i)' = Begin(i)
      OBVIOUS
    <3>1. i \in 0 .. c + 1 /\ i + 1 \in 1 .. c + 2 /\ i + 1 <= c
      BY <1>1
    <3>2. start'[i + 1] = start[i + 1]
      BY <2>4, <3>1
    <3> QED
      BY <2>6, <2>7, <3>1, <3>2
  <2>9. Begin(c)' = h /\ Begin(c + 1)' = h + l
    <3>1. c \in 0 .. c + 1 /\ c + 1 \in 0 .. c + 1 /\ c + 1 + 1 = c + 2
      BY <1>1
    <3> QED
      BY <2>5, <2>7, <3>1
  <2>10. \A i \in 0 .. c : i \in 0 .. c - 1 \/ i = c
    BY <1>1
  <2> QED
    BY <2>6, <2>8, <2>9, <2>10
<1>6. BlocksOK'
  <2>1. \A i \in 0 .. c : outBase <= Begin(i) /\ Begin(i) <= h /\ Begin(i) \in Int
    BY <1>1, BeginType DEF BlocksOK
  <2>2. \A i \in 0 .. c : outBase' <= Begin(i)' /\ Begin(i)' <= Here'
    <3>1. \A x \in Int : x <= h => x <= h + l
      BY <1>1, <1>4
    <3>2. outBase' = outBase /\ Here' = h + l /\ \A i \in 0 .. c : Begin(i)' = Begin(i)
      BY <1>3, <1>4, <1>5
    <3> QED
      BY <2>1, <3>1, <3>2
  <2>3. ASSUME NEW i \in 0 .. c - 1 PROVE Begin(i)' <= Begin(i + 1)'
    <3>1. i \in 0 .. c /\ i + 1 \in 0 .. c /\ Begin(i) <= Begin(i + 1)
      BY <1>1 DEF BlocksOK
    <3> QED
      BY <1>5, <3>1
  <2>4. 0 .. Current' = 0 .. c /\ 0 .. Current' - 1 = 0 .. c - 1
    BY <1>1, <1>3
  <2> QED
    BY <2>2, <2>3, <2>4 DEF BlocksOK
<1>7. \A a \in outBase .. Here - 1 : code'[a - outBase + 1] = WordAt(a)
  <2>1. \A a \in outBase .. Here - 1 : a - outBase + 1 \in 1 .. Len(code)
    BY <1>1
  <2> QED
    BY <1>4, <2>1 DEF WordAt
<1>8. ASSUME NEW i \in 0 .. c - 1 PROVE FixedOK(i)'
  <2>1. i \in 0 .. c /\ i + 1 \in 0 .. c /\ FixedOK(i)
    BY <1>1 DEF ShapeInv
  <2>2. Begin(i)' = Begin(i) /\ Begin(i + 1)' = Begin(i + 1)
    BY <1>5, <2>1
  <2> QED
    BY <1>1, <1>3, <1>7, <2>1, <2>2, FixedStill
<1>9. Written(c, words)'
  <2>1. ASSUME NEW m \in 1 .. l
        PROVE  WordAt(h + m - 1)' = words[m] /\ Settled(h + m - 1)'
    <3> PICK a, k : a = h + m - 1 /\ k = Len(code) + m
      OBVIOUS
    <3>1. a - outBase + 1 = k
      BY <1>1
    <3>2. WordAt(a)' = words[m]
      BY <1>3, <1>4, <3>1 DEF WordAt
    <3>3. \A j \in AllReferences : fmap[j] = {}
      <4>1. \A j \in AllReferences : j < Current
        BY <1>1 DEF AllReferences
      <4> QED
        BY <1>1, <4>1 DEF ReferencesAreCompleted, AllReferences
    <3>4. Settled(a)'
      BY <1>3, <3>3 DEF Settled, AllReferences
    <3> QED
      BY <3>2, <3>4 DEF WordAt, Settled
  <2>2. c \in 0 .. c
    BY <1>1
  <2> QED
    BY <1>5, <2>1, <2>2 DEF Written
<1>10. JumpOK'
  <2>1. Begin(c)' = h
    BY <1>1, <1>5
  <2> QED
    BY <1>2, <1>9, <2>1 DEF JumpOK
<1> QED
  BY <1>1, <1>3, <1>6, <1>8, <1>10 DEF ShapeInv

LEMMA InitShape == Init => ShapeInv
<1> SUFFICES ASSUME Init PROVE ShapeInv
  OBVIOUS
<1>1. Len(start) = 0 /\ Current = 0 /\ Len(code) = 0 /\ done = FALSE /\ outBase \in Int
  BY WindowAssumption DEF Init, Current
<1>2. 0 .. Current = {0} /\ 0 .. Current - 1 = {}
  BY <1>1
<1>3. Here = outBase /\ Begin(0) = outBase
  BY <1>1 DEF Here, Begin
<1> QED
  BY <1>1, <1>2, <1>3 DEF ShapeInv, BlocksOK, JumpOK

LEMMA NextShape == IInv /\ ShapeInv /\ [Next]_vars => ShapeInv'
<1> SUFFICES ASSUME IInv, ShapeInv, [Next]_vars PROVE ShapeInv'
  OBVIOUS
<1>1. ASSUME Current < Count, NEW ins \in Instructions, FixInstruction(ins) PROVE ShapeInv'
  <2> PICK c : c = Current
    OBVIOUS
  <2>1. CASE FixBranchImm(ins)
    BY <1>1, <2>1, BranchImmShape
  <2>2. CASE FixCondBranch(ins)
    BY <1>1, <2>2, CondBranchShape
  <2>3. CASE FixPrefetch(ins) \/ CopyInstruction(ins)
    BY <1>1, <2>3, CopyShape
  <2>4. CASE FixLoadLit(ins)
    BY <1>1, <2>4, LoadLitShape
  <2>5. CASE FixAdr(ins) \/ FixAdrp(ins)
    BY <1>1, <2>5, AdrShape
  <2> QED
    BY <1>1, <2>1, <2>2, <2>3, <2>4, <2>5 DEF FixInstruction
<1>2. CASE JumpBack
  BY <1>2, JumpShape
<1>3. CASE UNCHANGED vars
  <2>1. /\ Current' = Current /\ Here' = Here /\ outBase' = outBase /\ window' = window
        /\ dat' = dat /\ fmap' = fmap /\ start' = start /\ code' = code /\ done' = done
    BY <1>3 DEF vars, Current, Here
  <2>2. \A i : Begin(i)' = Begin(i)
    BY <2>1 DEF Begin
  <2> QED
    BY <2>1, <2>2 DEF ShapeInv, BlocksOK, FixedOK, JumpOK, Starts, Refers, Written, Settled, WordAt, Target
<1> QED
  BY <1>1, <1>2, <1>3 DEF Next, Finished

LEMMA ShapeHolds == Spec => [](IInv /\ ShapeInv)
<1>1. Init => IInv /\ ShapeInv
  BY InitInv, InitShape
<1>2. IInv /\ ShapeInv /\ [Next]_vars => (IInv /\ ShapeInv)'
  BY NextInv, NextShape
<1> QED
  BY <1>1, <1>2, PTL DEF Spec

-----------------------------------------------------------------------------
(* What the processor does with the words, step by step.                    *)

Reg(pc, x17, x30, value, size, rd) ==
  [pc |-> pc, x17 |-> x17, x30 |-> x30, value |-> value, size |-> size, rd |-> rd]

Own(i) == start[i + 1] .. start[i + 2] - 1

Step(i, taken, r) == IF r.pc \in Own(i) THEN Execute(r, taken) ELSE r

IsRun(f, i, taken, n) ==
  f = [k \in 0 .. n |-> IF k = 0 THEN Reg(start[i + 1], 0, 0, 0, 0, 0)
                                 ELSE Step(i, taken, f[k - 1])]

Trace(f, i, taken) ==
  /\ Outcome(i, taken) = f[8]
  /\ f[0] = Reg(start[i + 1], 0, 0, 0, 0, 0)
  /\ \A k \in 0 .. 7 : f[k + 1] = Step(i, taken, f[k])

LEMMA RunExtends ==
  ASSUME NEW i, NEW taken, NEW n \in Nat, NEW f, IsRun(f, i, taken, n)
  PROVE  \E g : IsRun(g, i, taken, n + 1)
<1> DEFINE g == [k \in 0 .. n + 1 |-> IF k <= n THEN f[k] ELSE Step(i, taken, f[n])]
<1>1. \A k \in 0 .. n : g[k] = f[k]
  OBVIOUS
<1>2. \A k \in 0 .. n :
        f[k] = IF k = 0 THEN Reg(start[i + 1], 0, 0, 0, 0, 0) ELSE Step(i, taken, f[k - 1])
  BY DEF IsRun
<1>3. ASSUME NEW k \in 0 .. n + 1
      PROVE  g[k] = IF k = 0 THEN Reg(start[i + 1], 0, 0, 0, 0, 0) ELSE Step(i, taken, g[k - 1])
  <2>1. CASE k \in 0 .. n
    <3>1. k # 0 => k - 1 \in 0 .. n
      BY <2>1
    <3> HIDE DEF g
    <3> QED
      BY <1>1, <1>2, <2>1, <3>1
  <2>2. CASE k = n + 1
    <3>1. g[k] = Step(i, taken, f[n]) /\ k - 1 = n /\ k # 0 /\ n \in 0 .. n
      BY <2>2
    <3> HIDE DEF g
    <3> QED
      BY <1>1, <3>1
  <2> QED
    BY <2>1, <2>2
<1>4. g = [k \in 0 .. n + 1 |-> g[k]]
  OBVIOUS
<1> HIDE DEF g
<1>5. IsRun(g, i, taken, n + 1)
  BY <1>3, <1>4 DEF IsRun
<1> QED
  BY <1>5

LEMMA RunExists == ASSUME NEW i, NEW taken PROVE \E f : IsRun(f, i, taken, 8)
<1> DEFINE R(n) == \E f : IsRun(f, i, taken, n)
<1>0. R(0)
  <2> DEFINE f == [k \in 0 .. 0 |-> Reg(start[i + 1], 0, 0, 0, 0, 0)]
  <2>1. IsRun(f, i, taken, 0)
    BY DEF IsRun
  <2> QED
    BY <2>1
<1>1. ASSUME NEW n \in Nat, R(n) PROVE R(n + 1)
  BY <1>1, RunExtends
<1> HIDE DEF R
<1>2. R(1) /\ R(2)
  <2>1. R(0 + 1)
    BY <1>0, <1>1
  <2>2. R(1 + 1)
    BY <1>1, <2>1
  <2> QED
    BY <2>1, <2>2
<1>3. R(3) /\ R(4)
  <2>1. R(2 + 1)
    BY <1>1, <1>2
  <2>2. R(3 + 1)
    BY <1>1, <2>1
  <2> QED
    BY <2>1, <2>2
<1>4. R(5) /\ R(6)
  <2>1. R(4 + 1)
    BY <1>1, <1>3
  <2>2. R(5 + 1)
    BY <1>1, <2>1
  <2> QED
    BY <2>1, <2>2
<1>5. R(7) /\ R(8)
  <2>1. R(6 + 1)
    BY <1>1, <1>4
  <2>2. R(7 + 1)
    BY <1>1, <2>1
  <2> QED
    BY <2>1, <2>2
<1> QED
  BY <1>5 DEF R

LEMMA OutcomeIsTraced == ASSUME NEW i, NEW taken PROVE \E f : Trace(f, i, taken)
<1> DEFINE f == CHOOSE f : IsRun(f, i, taken, 8)
<1>1. IsRun(f, i, taken, 8)
  BY RunExists
<1>2. Outcome(i, taken) = f[8]
  BY DEF Outcome, IsRun, Reg, Step, Own
<1> HIDE DEF f
<1>3. f[0] = Reg(start[i + 1], 0, 0, 0, 0, 0)
  BY <1>1 DEF IsRun
<1>4. ASSUME NEW k \in 0 .. 7 PROVE f[k + 1] = Step(i, taken, f[k])
  <2>1. k + 1 \in 0 .. 8 /\ k + 1 # 0 /\ k + 1 - 1 = k
    OBVIOUS
  <2> QED
    BY <1>1, <2>1 DEF IsRun
<1> QED
  BY <1>2, <1>3, <1>4 DEF Trace

(* What no step leaves is where the run ends. *)
LEMMA EndsWithin ==
  ASSUME NEW i, NEW taken, NEW f, Trace(f, i, taken), NEW S, NEW m \in 0 .. 8,
         f[m] \in S, \A r \in S : Step(i, taken, r) \in S
  PROVE  Outcome(i, taken) \in S
<1> DEFINE P(k) == k >= m => f[k] \in S
<1>0. P(0)
  OBVIOUS
<1>1. ASSUME NEW k \in 0 .. 7, P(k) PROVE P(k + 1)
  <2>1. f[k + 1] = Step(i, taken, f[k])
    BY DEF Trace
  <2>2. CASE k >= m
    BY <1>1, <2>1, <2>2
  <2>3. CASE ~(k >= m)
    <3>1. k + 1 >= m => k + 1 = m
      BY <2>3
    <3> QED
      BY <3>1
  <2> QED
    BY <2>2, <2>3
<1> HIDE DEF P
<1>2. P(0 + 1) /\ P(1 + 1) /\ P(2 + 1) /\ P(3 + 1)
  BY <1>0, <1>1
<1>3. P(4 + 1) /\ P(5 + 1) /\ P(6 + 1) /\ P(7 + 1)
  BY <1>1, <1>2
<1>4. P(8)
  BY <1>3
<1> QED
  BY <1>4 DEF P, Trace

LEMMA EndsOutside ==
  ASSUME NEW i, NEW taken, NEW f, Trace(f, i, taken), NEW m \in 0 .. 8, f[m].pc \notin Own(i)
  PROVE  Outcome(i, taken) = f[m]
<1> PICK S : S = {f[m]}
  OBVIOUS
<1>1. \A r \in S : Step(i, taken, r) \in S
  BY DEF Step
<1>2. Outcome(i, taken) \in S
  BY <1>1, EndsWithin
<1> QED
  BY <1>2

(* What each word does to the registers. *)
Effect(q, w, taken, p, x, l, v, z, d) ==
  /\ w.op \in {"nop", "other"} => q = Reg(p + 1, x, l, v, z, d)
  /\ w.op = "b" => q = Reg(p + w.arg, x, l, v, z, d)
  /\ w.op = "bl" => q = Reg(p + w.arg, x, p + 1, v, z, d)
  /\ w.op \in CondOps /\ taken => q = Reg(p + w.arg, x, l, v, z, d)
  /\ w.op \in CondOps /\ ~taken => q = Reg(p + 1, x, l, v, z, d)
  /\ w.op = "ldr17" => q = Reg(p + 1, WordAt(p + w.arg).arg, l, v, z, d)
  /\ w.op = "adr30" => q = Reg(p + 1, x, p + w.arg, v, z, d)
  /\ w.op = "br17" => q = Reg(x, x, l, v, z, d)
  /\ w.op = "ldrx" => q = Reg(p + 1, x, l, WordAt(p + w.arg).arg, z, d)
  /\ w.op = "ldr" =>
       /\ InCode(p + w.arg) => q = Reg(p + 1, x, l, WordAt(p + w.arg).arg, w.size, d)
       /\ ~InCode(p + w.arg) => q = Reg(p + 1, x, l, p + w.arg, w.size, d)
  /\ w.op = "adr" => q = Reg(p + 1, x, l, p + w.arg, z, w.rd)

LEMMA ExecuteEffect ==
  ASSUME NEW taken, NEW p, NEW x, NEW l, NEW v, NEW z, NEW d,
         NEW w, w = WordAt(p), NEW q, q = Execute(Reg(p, x, l, v, z, d), taken)
  PROVE  Effect(q, w, taken, p, x, l, v, z, d)
<1> PICK r, to : r = Reg(p, x, l, v, z, d) /\ to = p + w.arg
  OBVIOUS
<1> DEFINE next == [r EXCEPT !.pc = r.pc + 1]
<1>1. r.pc = p /\ r.x17 = x
  BY DEF Reg
<1>2. next = Reg(p + 1, x, l, v, z, d)
  BY <1>1 DEF Reg
<1>3. q = CASE w.op = "b"      -> [r EXCEPT !.pc = to]
            [] w.op = "bl"     -> [r EXCEPT !.pc = to, !.x30 = r.pc + 1]
            [] w.op \in CondOps -> IF taken THEN [r EXCEPT !.pc = to] ELSE next
            [] w.op = "ldr17"  -> [next EXCEPT !.x17 = WordAt(to).arg]
            [] w.op = "adr30"  -> [next EXCEPT !.x30 = to]
            [] w.op = "br17"   -> [r EXCEPT !.pc = r.x17]
            [] w.op = "ldrx"   -> [next EXCEPT !.value = WordAt(to).arg]
            [] w.op = "ldr"    -> [next EXCEPT !.size = w.size,
                                     !.value = IF InCode(to) THEN WordAt(to).arg ELSE to]
            [] w.op = "adr"    -> [next EXCEPT !.value = to, !.rd = w.rd]
            [] w.op = "adrp"   -> [next EXCEPT !.value =
                                     (r.pc \div PageWords + w.arg) * PageWords]
            [] w.op \in {"nop", "other"} -> next
            [] OTHER            -> r
  BY <1>1 DEF Execute
<1> HIDE DEF next
<1> DEFINE rBranch == [r EXCEPT !.pc = to]
           rLink == [r EXCEPT !.pc = to, !.x30 = r.pc + 1]
           rX17 == [next EXCEPT !.x17 = WordAt(to).arg]
           rX30 == [next EXCEPT !.x30 = to]
           rBr == [r EXCEPT !.pc = r.x17]
           rLoad == [next EXCEPT !.value = WordAt(to).arg]
           rLdr == [next EXCEPT !.size = w.size,
                      !.value = IF InCode(to) THEN WordAt(to).arg ELSE to]
           rAdr == [next EXCEPT !.value = to, !.rd = w.rd]
           rPage == [next EXCEPT !.value = (r.pc \div PageWords + w.arg) * PageWords]
<1>4. q = CASE w.op = "b"      -> rBranch
            [] w.op = "bl"     -> rLink
            [] w.op \in CondOps -> IF taken THEN rBranch ELSE next
            [] w.op = "ldr17"  -> rX17
            [] w.op = "adr30"  -> rX30
            [] w.op = "br17"   -> rBr
            [] w.op = "ldrx"   -> rLoad
            [] w.op = "ldr"    -> rLdr
            [] w.op = "adr"    -> rAdr
            [] w.op = "adrp"   -> rPage
            [] w.op \in {"nop", "other"} -> next
            [] OTHER            -> r
  BY <1>3
<1>5. rBranch = Reg(to, x, l, v, z, d) /\ rBr = Reg(x, x, l, v, z, d)
  BY <1>1 DEF Reg
<1>6. rLink = Reg(to, x, p + 1, v, z, d)
  <2> DEFINE s == [r EXCEPT !.pc = to]
  <2>1. s = Reg(to, x, l, v, z, d)
    BY DEF Reg
  <2>2. rLink = [s EXCEPT !.x30 = p + 1]
    BY <1>1
  <2> HIDE DEF s, rLink
  <2> QED
    BY <2>1, <2>2 DEF Reg
<1>7. /\ rX17 = Reg(p + 1, WordAt(to).arg, l, v, z, d)
      /\ rX30 = Reg(p + 1, x, to, v, z, d)
      /\ rLoad = Reg(p + 1, x, l, WordAt(to).arg, z, d)
  BY <1>2 DEF Reg
<1>8. rAdr = Reg(p + 1, x, l, to, z, w.rd)
  <2> DEFINE s == [next EXCEPT !.value = to]
  <2>1. s = Reg(p + 1, x, l, to, z, d)
    BY <1>2 DEF Reg
  <2>2. rAdr = [s EXCEPT !.rd = w.rd]
    OBVIOUS
  <2> HIDE DEF s, rAdr
  <2> QED
    BY <2>1, <2>2 DEF Reg
<1>9. rLdr = Reg(p + 1, x, l, IF InCode(to) THEN WordAt(to).arg ELSE to, w.size, d)
  <2> DEFINE s == [next EXCEPT !.size = w.size]
             u == IF InCode(to) THEN WordAt(to).arg ELSE to
  <2>1. s = Reg(p + 1, x, l, v, w.size, d)
    BY <1>2 DEF Reg
  <2>2. rLdr = [s EXCEPT !.value = u]
    OBVIOUS
  <2> HIDE DEF s, u, rLdr
  <2>3. rLdr = Reg(p + 1, x, l, u, w.size, d)
    BY <2>1, <2>2 DEF Reg
  <2> QED
    BY <2>3 DEF u
<1> HIDE DEF rBranch, rLink, rX17, rX30, rBr, rLoad, rLdr, rAdr, rPage
<1> QED
  BY <1>2, <1>4, <1>5, <1>6, <1>7, <1>8, <1>9 DEF Effect, CondOps

(* The words of one instruction, from s on. *)
Block(i, words, s) ==
  /\ s = start[i + 1] /\ s \in Int /\ words \in Seq(Words)
  /\ start[i + 2] = s + Len(words)
  /\ \A m \in 1 .. Len(words) : WordAt(s + m - 1) = words[m]

LEMMA OwnWords ==
  ASSUME NEW i, NEW words, NEW s, Block(i, words, s)
  PROVE  /\ Own(i) = s .. s + Len(words) - 1 /\ s \in Int /\ Len(words) \in Nat
         /\ \A p \in Int : p \in Own(i) <=> s <= p /\ p < s + Len(words)
<1>1. s \in Int /\ Len(words) \in Nat
  BY LenProperties DEF Block
<1> QED
  BY <1>1 DEF Block, Own

LEMMA StepAt ==
  ASSUME NEW i, NEW taken, NEW f, Trace(f, i, taken), NEW words, NEW s, Block(i, words, s),
         NEW k \in 0 .. 7, NEW m \in 1 .. Len(words), NEW p, p = s + m - 1,
         NEW x, NEW l, NEW v, NEW z, NEW d, f[k] = Reg(p, x, l, v, z, d),
         NEW q, q = f[k + 1], NEW w, w = words[m]
  PROVE  Effect(q, w, taken, p, x, l, v, z, d)
<1>1. p \in Own(i) /\ w = WordAt(p)
  <2>1. p \in Int /\ s <= p /\ p < s + Len(words)
    BY OwnWords
  <2> QED
    BY <2>1, OwnWords DEF Block
<1>2. q = Step(i, taken, f[k])
  BY DEF Trace
<1>3. q = Execute(Reg(p, x, l, v, z, d), taken)
  BY <1>1, <1>2 DEF Step, Reg
<1> QED
  BY <1>1, <1>3, ExecuteEffect

Fresh(r, p) == r = Reg(p, 0, 0, 0, 0, 0)

LEMMA NopSteps ==
  ASSUME NEW i, NEW taken, NEW f, Trace(f, i, taken), NEW words, NEW s, Block(i, words, s),
         NEW n \in 0 .. 3, NEW c, Padded(words, n, c), NEW b, b = s + n,
         NEW r, r = f[n]
  PROVE  Fresh(r, b)
<1> DEFINE P(k) == k <= n => f[k] = Reg(s + k, 0, 0, 0, 0, 0)
<1>1. /\ s \in Int /\ Len(words) \in Nat /\ n <= Len(words)
      /\ \A m \in 1 .. n : words[m] = Word("nop", 0)
  BY OwnWords, LenProperties DEF Padded
<1>2. P(0)
  <2>1. f[0] = Reg(s, 0, 0, 0, 0, 0) /\ s + 0 = s
    BY <1>1 DEF Trace, Block
  <2> QED
    BY <2>1
<1>3. ASSUME NEW k \in 0 .. 2, P(k) PROVE P(k + 1)
  <2> SUFFICES ASSUME k + 1 <= n PROVE f[k + 1] = Reg(s + (k + 1), 0, 0, 0, 0, 0)
    OBVIOUS
  <2>1. k \in 0 .. 7 /\ k <= n /\ k < Len(words) /\ k + 1 \in 1 .. n
    BY <1>1
  <2> PICK m, p, q, w : m = k + 1 /\ p = s + k /\ q = f[k + 1] /\ w = words[m]
    OBVIOUS
  <2>2. w.op = "nop" /\ f[k] = Reg(p, 0, 0, 0, 0, 0)
    BY <1>1, <1>3, <2>1 DEF Word
  <2>3. m \in 1 .. Len(words) /\ p = s + m - 1
    BY <1>1, <2>1
  <2>5. Effect(q, w, taken, p, 0, 0, 0, 0, 0)
    BY <2>1, <2>2, <2>3, StepAt
  <2>6. q = Reg(p + 1, 0, 0, 0, 0, 0)
    BY <2>2, <2>5 DEF Effect
  <2>4. p + 1 = s + (k + 1)
    BY <1>1
  <2> QED
    BY <2>4, <2>6
<1> HIDE DEF P
<1>4. P(0 + 1) /\ P(1 + 1) /\ P(2 + 1)
  BY <1>2, <1>3
<1>5. P(1) /\ P(2) /\ P(3)
  BY <1>4
<1>6. n \in {0, 1, 2, 3}
  OBVIOUS
<1> QED
  BY <1>2, <1>5, <1>6 DEF P, Fresh

Zero == 0

(* A run behind the padding: the words c, from b on, and the registers.     *)
Ride(g, i, taken, c, b) ==
  /\ b \in Int /\ c \in Seq(Words) /\ start[i + 2] = b + Len(c)
  /\ \A m \in 1 .. Len(c) : b + m - 1 \in Own(i) /\ WordAt(b + m - 1) = c[m]
  /\ g[0] = Reg(b, Zero, Zero, Zero, Zero, Zero)
  /\ \A k \in 0 .. 4 : g[k + 1] = Step(i, taken, g[k])
  /\ \A k \in 0 .. 5 : g[k].pc \notin Own(i) => Outcome(i, taken) = g[k]

LEMMA RideBegins ==
  ASSUME NEW i, NEW taken, NEW words, NEW s, Block(i, words, s), NEW n \in 0 .. 3,
         NEW c \in Seq(Words), Padded(words, n, c), NEW b, b = s + n
  PROVE  \E g : Ride(g, i, taken, c, b)
<1>1. PICK f : Trace(f, i, taken)
  BY OutcomeIsTraced
<1>2. /\ s \in Int /\ Len(words) \in Nat /\ Len(c) \in Nat /\ Len(words) = n + Len(c)
      /\ b \in Int
  BY OwnWords, LenProperties DEF Padded
<1>3. PICK g : g = [k \in 0 .. 5 |-> f[n + k]]
  OBVIOUS
<1>4. g[0] = Reg(b, Zero, Zero, Zero, Zero, Zero)
  <2>1. g[0] = f[n + 0] /\ n + 0 = n
    BY <1>3
  <2>2. PICK r : r = f[n]
    OBVIOUS
  <2>3. Fresh(r, b)
    BY <1>1, <2>2, NopSteps
  <2> QED
    BY <2>1, <2>2, <2>3 DEF Fresh, Zero
<1>5. ASSUME NEW k \in 0 .. 4 PROVE g[k + 1] = Step(i, taken, g[k])
  <2>1. k \in 0 .. 5 /\ k + 1 \in 0 .. 5 /\ n + k \in 0 .. 7 /\ n + (k + 1) = (n + k) + 1
    OBVIOUS
  <2>2. g[k] = f[n + k] /\ g[k + 1] = f[(n + k) + 1]
    BY <1>3, <2>1
  <2>3. f[(n + k) + 1] = Step(i, taken, f[n + k])
    BY <1>1, <2>1 DEF Trace
  <2> QED
    BY <2>2, <2>3
<1>6. ASSUME NEW k \in 0 .. 5, g[k].pc \notin Own(i) PROVE Outcome(i, taken) = g[k]
  <2>1. PICK j : j = n + k
    OBVIOUS
  <2>2. j \in 0 .. 8
    BY <2>1
  <2>3. g[k] = f[j]
    BY <1>3, <2>1
  <2>4. f[j].pc \notin Own(i)
    BY <1>6, <2>3
  <2> QED
    BY <1>1, <2>2, <2>3, <2>4, EndsOutside
<1>7. ASSUME NEW m \in 1 .. Len(c)
      PROVE  b + m - 1 \in Own(i) /\ WordAt(b + m - 1) = c[m]
  <2>1. PICK j : j = n + m
    OBVIOUS
  <2>2. j \in 1 .. Len(words) /\ s + j - 1 = b + m - 1 /\ words[j] = c[m]
    BY <1>2, <2>1 DEF Padded
  <2>3. WordAt(s + j - 1) = words[j]
    BY <2>2 DEF Block
  <2>4. b + m - 1 \in Int /\ s <= b + m - 1 /\ b + m - 1 < s + Len(words)
    BY <1>2
  <2>5. b + m - 1 \in Own(i)
    BY <2>4, OwnWords
  <2> QED
    BY <2>2, <2>3, <2>5
<1>8. start[i + 2] = b + Len(c)
  BY <1>2 DEF Block
<1>9. Ride(g, i, taken, c, b)
  BY <1>2, <1>4, <1>5, <1>6, <1>7, <1>8 DEF Ride
<1> QED
  BY <1>9

LEMMA RideStep ==
  ASSUME NEW g, NEW i, NEW taken, NEW c, NEW b, Ride(g, i, taken, c, b),
         NEW k \in 0 .. 4, NEW j, j = k + 1, NEW m \in 1 .. Len(c), NEW p, p = b + m - 1,
         NEW x, NEW l, NEW v, NEW z, NEW d, g[k] = Reg(p, x, l, v, z, d),
         NEW q, q = g[j], NEW w, w = c[m]
  PROVE  Effect(q, w, taken, p, x, l, v, z, d)
<1>1. p \in Own(i) /\ w = WordAt(p)
  BY DEF Ride
<1>2. q = Step(i, taken, g[k])
  BY DEF Ride
<1>3. q = Execute(Reg(p, x, l, v, z, d), taken)
  BY <1>1, <1>2 DEF Step, Reg
<1> QED
  BY <1>1, <1>3, ExecuteEffect

EndsAs(r, p, l, v, z, d) ==
  r.pc = p /\ r.x30 = l /\ r.value = v /\ r.size = z /\ r.rd = d

LEMMA RideEnds ==
  ASSUME NEW g, NEW i, NEW taken, NEW c, NEW b, Ride(g, i, taken, c, b), NEW k \in 0 .. 5,
         NEW p, NEW x, NEW l, NEW v, NEW z, NEW d, g[k] = Reg(p, x, l, v, z, d), p \notin Own(i)
  PROVE  EndsAs(Outcome(i, taken), p, l, v, z, d)
<1>1. EndsAs(g[k], p, l, v, z, d)
  BY DEF Reg, EndsAs
<1>2. Outcome(i, taken) = g[k]
  BY <1>1 DEF Ride, EndsAs
<1> QED
  BY <1>1, <1>2

(* Behind the words. *)
LEMMA BehindWords ==
  ASSUME NEW g, NEW i, NEW taken, NEW c, NEW b, Ride(g, i, taken, c, b),
         NEW e, e = b + Len(c)
  PROVE  e \notin Own(i) /\ e = start[i + 2]
<1>1. Len(c) \in Nat /\ b \in Int /\ start[i + 2] = e
  BY LenProperties DEF Ride
<1> QED
  BY <1>1 DEF Own

(* The words with the address behind them. *)
Tailed(c, w, a) ==
  /\ c \in Seq(Words) /\ Len(c) = Len(w) + 2
  /\ \A m \in 1 .. Len(w) : c[m] = w[m]
  /\ c[Len(w) + 1] = Word("lit", a)

LEMMA AddressedCore ==
  ASSUME NEW n \in Nat, NEW w \in Seq(Words), NEW a \in Int, NEW all, Addressed(all, n, w, a)
  PROVE  \E c \in Seq(Words) : Padded(all, n, c) /\ Tailed(c, w, a)
<1>1. PICK l : l = Len(w) + 2
  OBVIOUS
<1>2. /\ Len(w) \in Nat /\ l \in Nat /\ all \in Seq(Words) /\ Len(all) = n + l
      /\ \A k \in 1 .. n + l : all[k] \in Words
  <2>1. Len(w) \in Nat /\ l \in Nat
    BY <1>1, LenProperties
  <2>2. all \in Seq(Words) /\ Len(all) = n + l
    BY <1>1, <2>1 DEF Addressed
  <2>3. \A k \in 1 .. Len(all) : all[k] \in Words
    BY <2>2, ElementOfSeq
  <2> QED
    BY <2>1, <2>2, <2>3
<1>3. PICK c : c = [m \in 1 .. l |-> all[n + m]]
  OBVIOUS
<1>4. c \in Seq(Words) /\ Len(c) = l
  <2>1. \A m \in 1 .. l : n + m \in 1 .. n + l
    BY <1>2
  <2>2. c \in [1 .. l -> Words]
    BY <1>2, <1>3, <2>1
  <2>3. c \in Seq(Words)
    BY <1>2, <2>2, SeqDef
  <2> QED
    BY <1>2, <2>2, <2>3, LenProperties
<1>5. \A m \in 1 .. l : c[m] = all[n + m]
  BY <1>3
<1>6. Padded(all, n, c)
  BY <1>2, <1>4, <1>5 DEF Addressed, Padded
<1>7. Tailed(c, w, a)
  <2>1. ASSUME NEW m \in 1 .. Len(w) PROVE c[m] = w[m]
    <3>1. m \in 1 .. l
      BY <1>1, <1>2
    <3> QED
      BY <1>5, <3>1 DEF Addressed
  <2>2. c[Len(w) + 1] = Word("lit", a)
    <3>1. Len(w) + 1 \in 1 .. l /\ n + (Len(w) + 1) = n + Len(w) + 1
      BY <1>1, <1>2
    <3> QED
      BY <1>5, <3>1 DEF Addressed
  <2> QED
    BY <1>1, <1>4, <2>1, <2>2 DEF Tailed
<1> QED
  BY <1>4, <1>6, <1>7

LEMMA OutsideLeaves ==
  ASSUME NEW i, NEW words, NEW s, Block(i, words, s), Len(words) <= 9, NEW t \in Int,
         Outside(t, s)
  PROVE  t \notin Own(i)
<1>1. Own(i) = s .. s + Len(words) - 1 /\ s \in Int /\ Len(words) \in Nat
  BY OwnWords
<1> QED
  BY <1>1 DEF Outside, Abs

(* A long jump: its address is loaded from behind the branch. *)
Jumps(c, m, t) ==
  /\ m \in 1 .. Len(c) /\ m + 1 \in 1 .. Len(c) /\ m + 2 \in 1 .. Len(c)
  /\ c[m] = Word("ldr17", 2) /\ c[m + 1] = Word("br17", 0) /\ c[m + 2] = Word("lit", t)

Jumped(q, t, l, v, z, d) == q = Reg(t, t, l, v, z, d)

LEMMA LongJump ==
  ASSUME NEW g, NEW i, NEW taken, NEW c, NEW b, Ride(g, i, taken, c, b),
         NEW k \in 0 .. 3, NEW k1, k1 = k + 1, NEW k2, k2 = k + 2,
         NEW m, NEW t, Jumps(c, m, t), NEW p, p = b + m - 1,
         NEW x, NEW l, NEW v, NEW z, NEW d, g[k] = Reg(p, x, l, v, z, d),
         NEW r, r = g[k2]
  PROVE  Jumped(r, t, l, v, z, d)
<1>1. /\ b \in Int /\ Len(c) \in Nat
      /\ \A j \in 1 .. Len(c) : WordAt(b + j - 1) = c[j]
  BY LenProperties DEF Ride
<1>2. PICK m1, m2, p1, w, w1, q, q1 :
        /\ m1 = m + 1 /\ m2 = m + 2 /\ p1 = p + 1
        /\ w = c[m1 - 1] /\ w1 = c[m1] /\ q = g[k1] /\ q1 = g[k2]
  OBVIOUS
<1>3. /\ m \in 1 .. Len(c) /\ m1 \in 1 .. Len(c) /\ m2 \in 1 .. Len(c)
      /\ p1 = b + m1 - 1 /\ p + 2 = b + m2 - 1 /\ w = c[m]
      /\ w = Word("ldr17", 2) /\ w1 = Word("br17", 0) /\ c[m2] = Word("lit", t)
  BY <1>1, <1>2 DEF Jumps
<1>4. w.op = "ldr17" /\ w.arg = 2 /\ w1.op = "br17" /\ WordAt(p + 2).arg = t
  <2>1. WordAt(p + 2) = c[m2]
    BY <1>1, <1>3
  <2> QED
    BY <1>3, <2>1 DEF Word
<1>5. Effect(q, w, taken, p, x, l, v, z, d)
  <2>1. k \in 0 .. 4
    OBVIOUS
  <2> QED
    BY <1>2, <1>3, <2>1, RideStep
<1>6. q = Reg(p1, t, l, v, z, d)
  BY <1>2, <1>4, <1>5 DEF Effect
<1>7. Effect(q1, w1, taken, p1, t, l, v, z, d)
  <2>1. k1 \in 0 .. 4 /\ k2 = k1 + 1 /\ g[k1] = Reg(p1, t, l, v, z, d)
    BY <1>2, <1>6
  <2> QED
    BY <1>2, <1>3, <2>1, RideStep
<1> QED
  BY <1>2, <1>4, <1>7 DEF Effect, Jumped

LEMMA BranchOutcome ==
  ASSUME NEW i, NEW words, NEW s, Block(i, words, s), NEW ins, NEW t \in Int,
         BranchForm(words, ins, t, s)
  PROVE  /\ Outcome(i, TRUE).pc = t
         /\ ins.op = "bl" => Outcome(i, TRUE).x30 = start[i + 2]
<1>1. PICK n, w :
      /\ n \in 0 .. 1
      /\ w = IF ins.op = "b" THEN <<Word("ldr17", 2), Word("br17", 0)>>
                             ELSE <<Word("ldr17", 3), Word("adr30", 4), Word("br17", 0)>>
      /\ words = Nops(n) \o w \o Literal(t)
  BY DEF BranchForm
<1>2. ins.op \in {"b", "bl"} /\ Outside(t, s) /\ n \in Nat /\ n \in 0 .. 3
  BY <1>1 DEF BranchForm, BranchOps
<1>3. w \in Seq(Words) /\ Len(w) \in {2, 3}
  BY <1>1, WordType, OpsAreWords
<1>4. Addressed(words, n, w, t)
  BY <1>1, <1>2, <1>3, AddressedWords
<1>5. PICK c \in Seq(Words) : Padded(words, n, c) /\ Tailed(c, w, t)
  BY <1>2, <1>3, <1>4, AddressedCore
<1>6. PICK b : b = s + n
  OBVIOUS
<1>7. PICK g : Ride(g, i, TRUE, c, b)
  BY <1>2, <1>5, <1>6, RideBegins
<1>8. t \notin Own(i)
  <2>1. Len(words) = n + Len(w) + 2
    BY <1>4 DEF Addressed
  <2>2. Len(words) <= 9
    BY <1>1, <1>3, <2>1
  <2> QED
    BY <1>2, <2>2, OutsideLeaves
<1>9. g[0] = Reg(b, Zero, Zero, Zero, Zero, Zero) /\ b \in Int
  BY <1>7 DEF Ride
<1>10. CASE ins.op = "b"
  <2>1. /\ Len(c) = 4 /\ c[1] = Word("ldr17", 2) /\ c[2] = Word("br17", 0)
        /\ c[3] = Word("lit", t)
    <3>1. Len(w) = 2 /\ w[1] = Word("ldr17", 2) /\ w[2] = Word("br17", 0)
      BY <1>1, <1>10
    <3> QED
      BY <1>5, <3>1 DEF Tailed
  <2>2. PICK k, k1, k2, m, q :
          k = 0 /\ k1 = 1 /\ k2 = 2 /\ m = 1 /\ q = g[k2]
    OBVIOUS
  <2>3. /\ k \in 0 .. 3 /\ k1 = k + 1 /\ k2 = k + 2 /\ k2 \in 0 .. 5
        /\ b = b + m - 1 /\ q = g[k2]
    BY <1>9, <2>1, <2>2
  <2>4. Jumps(c, m, t) /\ g[k] = Reg(b, Zero, Zero, Zero, Zero, Zero)
    BY <1>9, <2>1, <2>2 DEF Jumps
  <2>5. q = Reg(t, t, Zero, Zero, Zero, Zero)
    <3>1. Jumped(q, t, Zero, Zero, Zero, Zero)
      BY <1>7, <2>3, <2>4, LongJump
    <3> QED
      BY <3>1 DEF Jumped
  <2>6. EndsAs(Outcome(i, TRUE), t, Zero, Zero, Zero, Zero)
    BY <1>7, <1>8, <2>3, <2>5, RideEnds
  <2> QED
    BY <1>10, <2>6 DEF EndsAs
<1>11. CASE ins.op = "bl"
  <2>1. /\ Len(c) = 5 /\ c[1] = Word("ldr17", 3) /\ c[2] = Word("adr30", 4)
        /\ c[3] = Word("br17", 0) /\ c[4] = Word("lit", t)
    <3>1. Len(w) = 3 /\ w[1] = Word("ldr17", 3) /\ w[2] = Word("adr30", 4) /\ w[3] = Word("br17", 0)
      BY <1>1, <1>11
    <3> QED
      BY <1>5, <3>1 DEF Tailed
  <2>2. PICK k, k1, k2, k3, m1, m2, m3, b1, b2, e :
          /\ k = 0 /\ k1 = 1 /\ k2 = 2 /\ k3 = 3 /\ m1 = 1 /\ m2 = 2 /\ m3 = 3
          /\ b1 = b + 1 /\ b2 = b + 2 /\ e = b + 5
    OBVIOUS
  <2>3. PICK w1, w2, w3, q1, q2, q3 :
          w1 = c[m1] /\ w2 = c[m2] /\ w3 = c[m3] /\ q1 = g[k1] /\ q2 = g[k2] /\ q3 = g[k3]
    OBVIOUS
  <2>4. /\ k \in 0 .. 4 /\ k1 \in 0 .. 4 /\ k2 \in 0 .. 4 /\ k3 \in 0 .. 5
        /\ k1 = k + 1 /\ k2 = k1 + 1 /\ k3 = k2 + 1
        /\ m1 \in 1 .. Len(c) /\ m2 \in 1 .. Len(c) /\ m3 \in 1 .. Len(c)
        /\ b = b + m1 - 1 /\ b1 = b + m2 - 1 /\ b2 = b + m3 - 1 /\ e = b + Len(c)
    BY <1>9, <2>1, <2>2
  <2>5. /\ w1.op = "ldr17" /\ w1.arg = 3 /\ w2.op = "adr30" /\ w2.arg = 4 /\ w3.op = "br17"
        /\ WordAt(b + 3).arg = t
    <3>1. WordAt(b + 4 - 1) = c[4] /\ b + 4 - 1 = b + 3
      BY <1>7, <1>9, <2>1 DEF Ride
    <3> QED
      BY <2>1, <2>2, <2>3, <3>1 DEF Word
  <2>6. q1 = Reg(b1, t, Zero, Zero, Zero, Zero)
    <3>1. g[k] = Reg(b, Zero, Zero, Zero, Zero, Zero)
      BY <1>9, <2>2
    <3>2. Effect(q1, w1, TRUE, b, Zero, Zero, Zero, Zero, Zero)
      BY <1>7, <2>3, <2>4, <3>1, RideStep
    <3> QED
      BY <2>2, <2>5, <3>2 DEF Effect
  <2>7. q2 = Reg(b2, t, e, Zero, Zero, Zero)
    <3>1. Effect(q2, w2, TRUE, b1, t, Zero, Zero, Zero, Zero)
      BY <1>7, <2>3, <2>4, <2>6, RideStep
    <3>2. b1 + 1 = b2 /\ b1 + 4 = e
      BY <1>9, <2>2
    <3> QED
      BY <2>5, <3>1, <3>2 DEF Effect
  <2>8. q3 = Reg(t, t, e, Zero, Zero, Zero)
    <3>1. Effect(q3, w3, TRUE, b2, t, e, Zero, Zero, Zero)
      BY <1>7, <2>3, <2>4, <2>7, RideStep
    <3> QED
      BY <2>5, <3>1 DEF Effect
  <2>9. EndsAs(Outcome(i, TRUE), t, e, Zero, Zero, Zero)
    BY <1>7, <1>8, <2>3, <2>4, <2>8, RideEnds
  <2>10. e = start[i + 2]
    BY <1>7, <2>4, BehindWords
  <2> QED
    BY <2>9, <2>10 DEF EndsAs
<1> QED
  BY <1>2, <1>10, <1>11

LEMMA CondOutcome ==
  ASSUME NEW i, NEW words, NEW s, Block(i, words, s), NEW ins, NEW t \in Int,
         CondForm(words, ins, t, s), NEW taken
  PROVE  /\ taken => Outcome(i, taken).pc = t
         /\ ~taken => Outcome(i, taken).pc = start[i + 2]
<1>1. PICK n, w :
      /\ n \in 0 .. 1
      /\ w = <<Word(ins.op, 2), Word("b", 5), Word("ldr17", 2), Word("br17", 0)>>
      /\ words = Nops(n) \o w \o Literal(t)
  BY DEF CondForm
<1>2. ins.op \in CondOps /\ ins.op \in WordOps /\ Outside(t, s) /\ n \in Nat /\ n \in 0 .. 3
  BY <1>1 DEF CondForm, WordOps, Ops
<1>3. w \in Seq(Words) /\ Len(w) = 4
  BY <1>1, <1>2, WordType, OpsAreWords
<1>4. Addressed(words, n, w, t)
  BY <1>1, <1>2, <1>3, AddressedWords
<1>5. PICK c \in Seq(Words) : Padded(words, n, c) /\ Tailed(c, w, t)
  BY <1>2, <1>3, <1>4, AddressedCore
<1>6. PICK b : b = s + n
  OBVIOUS
<1>7. PICK g : Ride(g, i, taken, c, b)
  BY <1>2, <1>5, <1>6, RideBegins
<1>8. t \notin Own(i)
  <2>1. Len(words) = n + 4 + 2
    BY <1>3, <1>4 DEF Addressed
  <2>2. Len(words) <= 9
    BY <1>1, <2>1
  <2> QED
    BY <1>2, <2>2, OutsideLeaves
<1>9. g[0] = Reg(b, Zero, Zero, Zero, Zero, Zero) /\ b \in Int
  BY <1>7 DEF Ride
<1>10. /\ Len(c) = 6 /\ c[1] = Word(ins.op, 2) /\ c[2] = Word("b", 5)
       /\ c[3] = Word("ldr17", 2) /\ c[4] = Word("br17", 0) /\ c[5] = Word("lit", t)
  <2>1. /\ w[1] = Word(ins.op, 2) /\ w[2] = Word("b", 5)
        /\ w[3] = Word("ldr17", 2) /\ w[4] = Word("br17", 0)
    BY <1>1
  <2> QED
    BY <1>3, <1>5, <2>1 DEF Tailed
<1>11. PICK k, k1, k2, k3, m1, m2, m3, b1, b2, e :
         /\ k = 0 /\ k1 = 1 /\ k2 = 2 /\ k3 = 3 /\ m1 = 1 /\ m2 = 2 /\ m3 = 3
         /\ b1 = b + 1 /\ b2 = b + 2 /\ e = b + 6
  OBVIOUS
<1>12. PICK w1, w2, q1, q2, q3 :
         w1 = c[m1] /\ w2 = c[m2] /\ q1 = g[k1] /\ q2 = g[k2] /\ q3 = g[k3]
  OBVIOUS
<1>13. /\ k \in 0 .. 4 /\ k1 \in 0 .. 4 /\ k1 \in 0 .. 3 /\ k2 \in 0 .. 5 /\ k3 \in 0 .. 5
       /\ k1 = k + 1 /\ k2 = k1 + 1 /\ k3 = k1 + 2
       /\ m1 \in 1 .. Len(c) /\ m2 \in 1 .. Len(c)
       /\ b = b + m1 - 1 /\ b1 = b + m2 - 1 /\ b2 = b + m3 - 1 /\ e = b + Len(c)
  BY <1>9, <1>10, <1>11
<1>14. w1.op \in CondOps /\ w1.arg = 2 /\ w2.op = "b" /\ w2.arg = 5
  BY <1>2, <1>10, <1>11, <1>12 DEF Word
<1>15. Effect(q1, w1, taken, b, Zero, Zero, Zero, Zero, Zero)
  <2>1. g[k] = Reg(b, Zero, Zero, Zero, Zero, Zero)
    BY <1>9, <1>11
  <2> QED
    BY <1>7, <1>12, <1>13, <2>1, RideStep
<1>16. CASE taken
  <2>1. q1 = Reg(b2, Zero, Zero, Zero, Zero, Zero)
    BY <1>11, <1>14, <1>15, <1>16 DEF Effect
  <2>2. Jumps(c, m3, t) /\ g[k1] = Reg(b2, Zero, Zero, Zero, Zero, Zero)
    BY <1>10, <1>11, <1>12, <2>1 DEF Jumps
  <2>3. q3 = Reg(t, t, Zero, Zero, Zero, Zero)
    <3>1. PICK k4 : k4 = k1 + 1
      OBVIOUS
    <3>2. Jumped(q3, t, Zero, Zero, Zero, Zero)
      BY <1>7, <1>12, <1>13, <2>2, <3>1, LongJump
    <3> QED
      BY <3>2 DEF Jumped
  <2>4. EndsAs(Outcome(i, taken), t, Zero, Zero, Zero, Zero)
    BY <1>7, <1>8, <1>12, <1>13, <2>3, RideEnds
  <2> QED
    BY <1>16, <2>4 DEF EndsAs
<1>17. CASE ~taken
  <2>1. q1 = Reg(b1, Zero, Zero, Zero, Zero, Zero)
    BY <1>11, <1>14, <1>15, <1>17 DEF Effect
  <2>2. q2 = Reg(e, Zero, Zero, Zero, Zero, Zero)
    <3>1. Effect(q2, w2, taken, b1, Zero, Zero, Zero, Zero, Zero)
      BY <1>7, <1>12, <1>13, <2>1, RideStep
    <3>2. b1 + 5 = e
      BY <1>9, <1>11
    <3> QED
      BY <1>14, <3>1, <3>2 DEF Effect
  <2>3. e \notin Own(i) /\ e = start[i + 2]
    BY <1>7, <1>13, BehindWords
  <2>4. EndsAs(Outcome(i, taken), e, Zero, Zero, Zero, Zero)
    BY <1>7, <1>12, <1>13, <2>2, <2>3, RideEnds
  <2> QED
    BY <1>17, <2>3, <2>4 DEF EndsAs
<1> QED
  BY <1>16, <1>17

(* A single word, which may also lead to itself. *)
OneWord(i, w, s) ==
  s = start[i + 1] /\ s \in Int /\ start[i + 2] = s + 1 /\ w = WordAt(s)

LEMMA OneStep ==
  ASSUME NEW i, NEW w, NEW s, OneWord(i, w, s), NEW taken,
         NEW x, NEW l, NEW v, NEW z, NEW d,
         NEW q, q = Step(i, taken, Reg(s, x, l, v, z, d))
  PROVE  Effect(q, w, taken, s, x, l, v, z, d)
<1>1. s \in Own(i)
  BY DEF Own, OneWord
<1>2. q = Execute(Reg(s, x, l, v, z, d), taken)
  BY <1>1 DEF Step, Reg
<1> QED
  BY <1>2, ExecuteEffect DEF OneWord

LEMMA OneRun ==
  ASSUME NEW i, NEW w, NEW s, OneWord(i, w, s), NEW taken
  PROVE  \E f, q : /\ Trace(f, i, taken) /\ q = f[1]
                   /\ Effect(q, w, taken, s, Zero, Zero, Zero, Zero, Zero)
<1>1. PICK f : Trace(f, i, taken)
  BY OutcomeIsTraced
<1>2. PICK q : q = f[1]
  OBVIOUS
<1>3. f[0] = Reg(s, Zero, Zero, Zero, Zero, Zero)
  BY <1>1 DEF Trace, OneWord, Zero
<1>4. q = Step(i, taken, f[0])
  <2>1. 0 \in 0 .. 7 /\ 0 + 1 = 1
    OBVIOUS
  <2>2. f[0 + 1] = Step(i, taken, f[0])
    BY <1>1, <2>1 DEF Trace
  <2> QED
    BY <1>2, <2>1, <2>2
<1>5. Effect(q, w, taken, s, Zero, Zero, Zero, Zero, Zero)
  BY <1>3, <1>4, OneStep
<1> QED
  BY <1>1, <1>2, <1>5

(* Out of the word, or back to it with the same registers. *)
LEMMA OneEnds ==
  ASSUME NEW i, NEW w, NEW s, OneWord(i, w, s), NEW taken, NEW f, Trace(f, i, taken),
         NEW p, NEW x, NEW l, NEW v, NEW z, NEW d, f[1] = Reg(p, x, l, v, z, d),
         p \in Own(i) => Step(i, taken, Reg(p, x, l, v, z, d)) = Reg(p, x, l, v, z, d)
  PROVE  EndsAs(Outcome(i, taken), p, l, v, z, d)
<1>1. PICK r, S : r = Reg(p, x, l, v, z, d) /\ S = {r}
  OBVIOUS
<1>2. r.pc = p /\ EndsAs(r, p, l, v, z, d)
  BY <1>1 DEF Reg, EndsAs
<1>3. Step(i, taken, r) = r
  BY <1>1, <1>2 DEF Step
<1>4. f[1] \in S /\ \A y \in S : Step(i, taken, y) \in S
  BY <1>1, <1>3
<1>5. PICK m : m = 1
  OBVIOUS
<1>6. m \in 0 .. 8 /\ f[m] \in S
  BY <1>4, <1>5
<1>7. Outcome(i, taken) \in S
  BY <1>4, <1>6, EndsWithin
<1> QED
  BY <1>1, <1>2, <1>7

Goes(i, w, t, taken) ==
  /\ Outcome(i, taken).pc = t
  /\ w.op = "bl" => Outcome(i, taken).x30 = start[i + 2]

Branches(w, taken) == w.op \in BranchOps \/ (w.op \in CondOps /\ taken)

LEMMA OneBranch ==
  ASSUME NEW i, NEW w, NEW s, OneWord(i, w, s), NEW t \in Int, t = s + w.arg, NEW taken,
         Branches(w, taken)
  PROVE  Goes(i, w, t, taken)
<1>1. PICK f, q : /\ Trace(f, i, taken) /\ q = f[1]
                  /\ Effect(q, w, taken, s, Zero, Zero, Zero, Zero, Zero)
  BY OneRun
<1>2. PICK l : l = IF w.op = "bl" THEN s + 1 ELSE Zero
  OBVIOUS
<1>3. w.op = "b" \/ w.op = "bl" \/ (w.op \in CondOps /\ taken)
  BY DEF Branches, BranchOps
<1>4. "bl" \notin CondOps /\ "b" \notin CondOps
  BY DEF CondOps
<1>5. q = Reg(t, Zero, l, Zero, Zero, Zero)
  BY <1>1, <1>2, <1>3, <1>4 DEF Effect
<1>6. ASSUME t \in Own(i)
      PROVE  Step(i, taken, Reg(t, Zero, l, Zero, Zero, Zero)) = Reg(t, Zero, l, Zero, Zero, Zero)
  <2>1. t = s
    BY <1>6 DEF Own, OneWord
  <2>2. PICK y : y = Step(i, taken, Reg(s, Zero, l, Zero, Zero, Zero))
    OBVIOUS
  <2>3. Effect(y, w, taken, s, Zero, l, Zero, Zero, Zero)
    BY <2>2, OneStep
  <2>4. y = Reg(t, Zero, l, Zero, Zero, Zero)
    BY <1>2, <1>3, <1>4, <2>3 DEF Effect
  <2> QED
    BY <2>1, <2>2, <2>4
<1>7. EndsAs(Outcome(i, taken), t, l, Zero, Zero, Zero)
  BY <1>1, <1>5, <1>6, OneEnds
<1>8. start[i + 2] = s + 1
  BY DEF OneWord
<1> QED
  BY <1>2, <1>7, <1>8 DEF EndsAs, Goes

LEMMA OneLeaves ==
  ASSUME NEW i, NEW w, NEW s, OneWord(i, w, s), NEW taken, NEW f, Trace(f, i, taken),
         NEW p, p = s + 1,
         NEW x, NEW l, NEW v, NEW z, NEW d, f[1] = Reg(p, x, l, v, z, d)
  PROVE  EndsAs(Outcome(i, taken), p, l, v, z, d) /\ p = start[i + 2]
<1>1. p \notin Own(i) /\ p = start[i + 2]
  BY DEF Own, OneWord
<1> QED
  BY <1>1, OneEnds

LEMMA OneFallsThrough ==
  ASSUME NEW i, NEW w, NEW s, OneWord(i, w, s), NEW taken,
         w.op = "other" \/ (w.op \in CondOps /\ ~taken)
  PROVE  Outcome(i, taken).pc = start[i + 2]
<1>1. PICK f, q : /\ Trace(f, i, taken) /\ q = f[1]
                  /\ Effect(q, w, taken, s, Zero, Zero, Zero, Zero, Zero)
  BY OneRun
<1>2. PICK p : p = s + 1
  OBVIOUS
<1>3. q = Reg(p, Zero, Zero, Zero, Zero, Zero)
  BY <1>1, <1>2 DEF Effect
<1>4. EndsAs(Outcome(i, taken), p, Zero, Zero, Zero, Zero) /\ p = start[i + 2]
  BY <1>1, <1>2, <1>3, OneLeaves
<1> QED
  BY <1>4 DEF EndsAs

LEMMA OneAddress ==
  ASSUME NEW i, NEW w, NEW s, OneWord(i, w, s), NEW t, t = s + w.arg, w.op = "adr", NEW taken
  PROVE  EndsAs(Outcome(i, taken), start[i + 2], Zero, t, Zero, w.rd)
<1>1. PICK f, q : /\ Trace(f, i, taken) /\ q = f[1]
                  /\ Effect(q, w, taken, s, Zero, Zero, Zero, Zero, Zero)
  BY OneRun
<1>2. PICK p, d : p = s + 1 /\ d = w.rd
  OBVIOUS
<1>3. q = Reg(p, Zero, Zero, t, Zero, d)
  BY <1>1, <1>2 DEF Effect
<1>4. EndsAs(Outcome(i, taken), p, Zero, t, Zero, d) /\ p = start[i + 2]
  BY <1>1, <1>2, <1>3, OneLeaves
<1> QED
  BY <1>2, <1>4

(* A prefetch leaves no word behind, any other instruction its own.         *)
LEMMA CopyOutcome ==
  ASSUME NEW i, NEW words, NEW s, Block(i, words, s), NEW ins, CopyForm(words, ins)
  PROVE  Outcome(i, TRUE).pc = start[i + 2]
<1>1. s = start[i + 1] /\ s \in Int /\ start[i + 2] = s + Len(words)
  BY DEF Block
<1>2. CASE words = <<>>
  <2>1. PICK f, k : Trace(f, i, TRUE) /\ k = 0
    BY OutcomeIsTraced
  <2>2. start[i + 2] = s
    BY <1>1, <1>2
  <2>3. f[k].pc = s /\ k \in 0 .. 8
    BY <1>1, <2>1 DEF Trace, Reg
  <2>4. s \notin Own(i)
    BY <1>1, <2>2 DEF Own
  <2>5. Outcome(i, TRUE) = f[k]
    BY <2>1, <2>3, <2>4, EndsOutside
  <2> QED
    BY <2>2, <2>3, <2>5
<1>3. CASE words = <<Word("other", 0)>>
  <2>1. Len(words) = 1 /\ words[1] = Word("other", 0)
    BY <1>3
  <2>2. WordAt(s) = Word("other", 0)
    <3>1. WordAt(s + 1 - 1) = words[1] /\ s + 1 - 1 = s
      BY <1>1, <2>1 DEF Block
    <3> QED
      BY <2>1, <3>1
  <2>3. PICK w : w = WordAt(s)
    OBVIOUS
  <2>4. OneWord(i, w, s) /\ w.op = "other"
    BY <1>1, <2>1, <2>2, <2>3 DEF OneWord, Word
  <2> QED
    BY <2>4, OneFallsThrough
<1> QED
  BY <1>2, <1>3 DEF CopyForm

(* A copied literal is behind the load and the branch around it.            *)
LEMMA CopiedOutcome ==
  ASSUME TypeOK, NEW i, NEW words, NEW s, Block(i, words, s), NEW ins, NEW t \in Int,
         ins.size \in {1, 2, 4}, CopiedForm(words, ins, t), outBase <= s, start[i + 2] <= Here
  PROVE  EndsAs(Outcome(i, TRUE), start[i + 2], Zero, t, ins.size, Zero)
<1>1. PICK n, size, c :
      /\ n \in 0 .. 3 /\ size = ins.size
      /\ c = <<[Word("ldr", 2) EXCEPT !.size = size], Word("b", 1 + size)>>
               \o [k \in 1 .. size |-> Word("data", t)]
      /\ words = Nops(n) \o c
  BY DEF CopiedForm
<1>2. size \in {1, 2, 4} /\ n \in Nat
  BY <1>1
<1>3. Copies(c, size, t)
  BY <1>1, <1>2, CopiedWords
<1>4. c \in Seq(Words) /\ Len(c) = 2 + size
  BY <1>3 DEF Copies
<1>5. Padded(words, n, c)
  BY <1>1, <1>2, <1>4, PaddedWords
<1>6. PICK b : b = s + n
  OBVIOUS
<1>7. PICK g : Ride(g, i, TRUE, c, b)
  BY <1>1, <1>4, <1>5, <1>6, RideBegins
<1>8. g[0] = Reg(b, Zero, Zero, Zero, Zero, Zero) /\ b \in Int /\ start[i + 2] = b + 2 + size
  <2>1. b + (2 + size) = b + 2 + size
    BY <1>2, <1>7 DEF Ride
  <2> QED
    BY <1>4, <1>7, <2>1 DEF Ride
<1>9. PICK k, k1, k2, m1, m2, b1, e :
        k = 0 /\ k1 = 1 /\ k2 = 2 /\ m1 = 1 /\ m2 = 2 /\ b1 = b + 1 /\ e = b + 2 + size
  OBVIOUS
<1>10. PICK w1, w2, q1, q2 : w1 = c[m1] /\ w2 = c[m2] /\ q1 = g[k1] /\ q2 = g[k2]
  OBVIOUS
<1>11. /\ k \in 0 .. 4 /\ k1 \in 0 .. 4 /\ k2 \in 0 .. 5 /\ k1 = k + 1 /\ k2 = k1 + 1
       /\ m1 \in 1 .. Len(c) /\ m2 \in 1 .. Len(c)
       /\ b = b + m1 - 1 /\ b1 = b + m2 - 1 /\ e = b + Len(c) /\ b1 + (1 + size) = e
  BY <1>2, <1>4, <1>8, <1>9
<1>12. /\ w1.op = "ldr" /\ w1.arg = 2 /\ w1.size = size /\ w2.op = "b" /\ w2.arg = 1 + size
       /\ WordAt(b + 2).arg = t
  <2>1. w1 = [Word("ldr", 2) EXCEPT !.size = size] /\ w2 = Word("b", 1 + size)
    BY <1>3, <1>9, <1>10 DEF Copies
  <2>2. WordAt(b + 2) = c[3]
    <3>1. 3 \in 1 .. Len(c) /\ b + 3 - 1 = b + 2
      BY <1>2, <1>4, <1>8
    <3> QED
      BY <1>7, <3>1 DEF Ride
  <2>3. c[3] = Word("data", t)
    BY <1>3 DEF Copies
  <2> QED
    BY <2>1, <2>2, <2>3 DEF Word
<1>13. InCode(b + 2)
  <2>1. outBase \in Int /\ Len(code) \in Nat /\ s \in Int
    BY LenProperties, WindowAssumption DEF TypeOK, Block
  <2>2. outBase <= b /\ b + 2 < Here /\ Here \in Int /\ b + 2 \in Int
    <3>1. Here \in Int /\ size \in Nat /\ size >= 1
      BY <1>2, <2>1 DEF Here
    <3>2. outBase <= b
      BY <1>1, <1>6, <2>1
    <3>3. b + 2 + size <= Here
      BY <1>8
    <3> QED
      BY <1>8, <3>1, <3>2, <3>3
  <2> QED
    BY <1>8, <2>1, <2>2 DEF InCode, Here
<1>14. q1 = Reg(b1, Zero, Zero, t, size, Zero)
  <2>1. g[k] = Reg(b, Zero, Zero, Zero, Zero, Zero)
    BY <1>8, <1>9
  <2>2. Effect(q1, w1, TRUE, b, Zero, Zero, Zero, Zero, Zero)
    BY <1>7, <1>10, <1>11, <2>1, RideStep
  <2> QED
    BY <1>9, <1>12, <1>13, <2>2 DEF Effect
<1>15. q2 = Reg(e, Zero, Zero, t, size, Zero)
  <2>1. Effect(q2, w2, TRUE, b1, Zero, Zero, t, size, Zero)
    BY <1>7, <1>10, <1>11, <1>14, RideStep
  <2> QED
    BY <1>11, <1>12, <2>1 DEF Effect
<1>16. e \notin Own(i) /\ e = start[i + 2]
  <2>1. e = b + Len(c) /\ e \in Int
    BY <1>8, <1>9, <1>11
  <2>2. e = start[i + 2]
    BY <1>7, <2>1 DEF Ride
  <2> QED
    BY <2>1, <2>2 DEF Own
<1>17. EndsAs(Outcome(i, TRUE), e, Zero, t, size, Zero)
  BY <1>7, <1>10, <1>11, <1>15, <1>16, RideEnds
<1> QED
  BY <1>1, <1>16, <1>17

(* A load in place, of a literal that is not in the trampoline.             *)
LEMMA LoadOutcome ==
  ASSUME NEW i, NEW words, NEW s, Block(i, words, s), NEW ins, NEW t \in Int,
         LoadForm(words, ins, t, s), ~(t < s /\ WidthAfter(ins, -1) # ins.size), ~InCode(t)
  PROVE  EndsAs(Outcome(i, TRUE), start[i + 2], Zero, t, ins.size, Zero)
<1>1. PICK n, size, w, c :
      /\ n \in 0 .. 3 /\ size \in Nat /\ size = ins.size
      /\ w = [Word("ldr", t - s - n) EXCEPT !.size = size] /\ c = <<w>>
      /\ words = Nops(n) \o c
  BY DEF LoadForm
<1>2. s \in Int /\ n \in Nat /\ t - s - n \in Int
  BY <1>1 DEF Block
<1>3. w.op = "ldr" /\ w.arg = t - s - n /\ w.size = size /\ w \in Words
  <2>1. Word("ldr", t - s - n) \in Words
    BY <1>2, WordType, OpsAreWords
  <2> QED
    BY <1>1, <2>1 DEF Word, Words
<1>4. c \in Seq(Words) /\ Len(c) = 1 /\ c[1] = w
  BY <1>1, <1>3
<1>5. Padded(words, n, c)
  BY <1>1, <1>2, <1>4, PaddedWords
<1>6. PICK b : b = s + n
  OBVIOUS
<1>7. PICK g : Ride(g, i, TRUE, c, b)
  BY <1>1, <1>4, <1>5, <1>6, RideBegins
<1>8. g[0] = Reg(b, Zero, Zero, Zero, Zero, Zero) /\ b \in Int
  BY <1>7 DEF Ride
<1>9. PICK k, k1, m1, e, q1 : k = 0 /\ k1 = 1 /\ m1 = 1 /\ e = b + 1 /\ q1 = g[k1]
  OBVIOUS
<1>10. /\ k \in 0 .. 4 /\ k1 \in 0 .. 5 /\ k1 = k + 1 /\ m1 \in 1 .. Len(c) /\ w = c[m1]
       /\ b = b + m1 - 1 /\ e = b + Len(c) /\ b + w.arg = t
       /\ g[k] = Reg(b, Zero, Zero, Zero, Zero, Zero)
  BY <1>2, <1>3, <1>4, <1>6, <1>8, <1>9
<1>11. q1 = Reg(e, Zero, Zero, t, size, Zero)
  <2>1. Effect(q1, w, TRUE, b, Zero, Zero, Zero, Zero, Zero)
    BY <1>7, <1>9, <1>10, RideStep
  <2>2. ~InCode(b + w.arg)
    BY <1>10
  <2> QED
    BY <1>3, <1>9, <1>10, <2>1, <2>2 DEF Effect
<1>12. e \notin Own(i) /\ e = start[i + 2]
  BY <1>7, <1>10, BehindWords
<1>13. EndsAs(Outcome(i, TRUE), e, Zero, t, size, Zero)
  BY <1>7, <1>9, <1>10, <1>11, <1>12, RideEnds
<1> QED
  BY <1>1, <1>12, <1>13

(* An address from the literal behind the branch around it.                 *)
LEMMA AddressOutcome ==
  ASSUME NEW i, NEW words, NEW s, Block(i, words, s), NEW ins, NEW t \in Int,
         AddressForm(words, ins, t)
  PROVE  EndsAs(Outcome(i, TRUE), start[i + 2], Zero, t, Zero, Zero)
<1>1. PICK n, c : n \in 0 .. 1 /\ c = LoadAddress(t) /\ words = Nops(n) \o c
  BY DEF AddressForm
<1>2. n \in Nat /\ n \in 0 .. 3
  BY <1>1
<1>3. /\ c \in Seq(Words) /\ Len(c) = 4 /\ c[1] = Word("ldrx", 2) /\ c[2] = Word("b", 3)
      /\ c[3] = Word("lit", t)
  <2>1. PICK w1, w2, w3 : w1 = Word("ldrx", 2) /\ w2 = Word("b", 3) /\ w3 = Word("lit", t)
    OBVIOUS
  <2>2. w1 \in Words /\ w2 \in Words /\ w3 \in Words
    BY <2>1, WordType, OpsAreWords
  <2>3. PICK front, back, l : front = <<w1, w2>> /\ back = <<w3, w3>> /\ l = 2
    OBVIOUS
  <2>4. c = front \o back
    BY <1>1, <2>1, <2>3 DEF LoadAddress, Literal
  <2>5. /\ front \in Seq(Words) /\ back \in Seq(Words) /\ l = Len(front) /\ Len(back) = 2
        /\ front[1] = w1 /\ front[2] = w2 /\ back[1] = w3
    BY <2>2, <2>3
  <2>6. Joined(c, front, back, l)
    BY <2>4, <2>5, ConcatElements
  <2>7. c \in Seq(Words) /\ Len(c) = 4 /\ c[1] = front[1] /\ c[2] = front[2] /\ c[3] = back[1]
    BY <2>3, <2>5, <2>6 DEF Joined
  <2> QED
    BY <2>1, <2>5, <2>7
<1>4. Padded(words, n, c)
  BY <1>1, <1>2, <1>3, PaddedWords
<1>5. PICK b : b = s + n
  OBVIOUS
<1>6. PICK g : Ride(g, i, TRUE, c, b)
  BY <1>2, <1>3, <1>4, <1>5, RideBegins
<1>7. g[0] = Reg(b, Zero, Zero, Zero, Zero, Zero) /\ b \in Int
  BY <1>6 DEF Ride
<1>8. PICK k, k1, k2, m1, m2, b1, e :
        k = 0 /\ k1 = 1 /\ k2 = 2 /\ m1 = 1 /\ m2 = 2 /\ b1 = b + 1 /\ e = b + 4
  OBVIOUS
<1>9. PICK w1, w2, q1, q2 : w1 = c[m1] /\ w2 = c[m2] /\ q1 = g[k1] /\ q2 = g[k2]
  OBVIOUS
<1>10. /\ k \in 0 .. 4 /\ k1 \in 0 .. 4 /\ k2 \in 0 .. 5 /\ k1 = k + 1 /\ k2 = k1 + 1
       /\ m1 \in 1 .. Len(c) /\ m2 \in 1 .. Len(c)
       /\ b = b + m1 - 1 /\ b1 = b + m2 - 1 /\ e = b + Len(c) /\ b1 + 3 = e
       /\ g[k] = Reg(b, Zero, Zero, Zero, Zero, Zero)
  BY <1>3, <1>7, <1>8
<1>11. w1.op = "ldrx" /\ w1.arg = 2 /\ w2.op = "b" /\ w2.arg = 3 /\ WordAt(b + 2).arg = t
  <2>1. WordAt(b + 3 - 1) = c[3] /\ b + 3 - 1 = b + 2
    BY <1>3, <1>6, <1>7 DEF Ride
  <2> QED
    BY <1>3, <1>8, <1>9, <2>1 DEF Word
<1>12. q1 = Reg(b1, Zero, Zero, t, Zero, Zero)
  <2>1. Effect(q1, w1, TRUE, b, Zero, Zero, Zero, Zero, Zero)
    BY <1>6, <1>9, <1>10, RideStep
  <2> QED
    BY <1>8, <1>11, <2>1 DEF Effect
<1>13. q2 = Reg(e, Zero, Zero, t, Zero, Zero)
  <2>1. Effect(q2, w2, TRUE, b1, Zero, Zero, t, Zero, Zero)
    BY <1>6, <1>9, <1>10, <1>12, RideStep
  <2> QED
    BY <1>10, <1>11, <2>1 DEF Effect
<1>14. e \notin Own(i) /\ e = start[i + 2]
  <2>1. e = b + Len(c)
    BY <1>10
  <2> QED
    BY <1>6, <2>1, BehindWords
<1>15. EndsAs(Outcome(i, TRUE), e, Zero, t, Zero, Zero)
  BY <1>6, <1>9, <1>10, <1>13, <1>14, RideEnds
<1> QED
  BY <1>14, <1>15

-----------------------------------------------------------------------------
(* The trampoline at the end.                                               *)

AtEnd ==
  /\ TypeOK /\ Current = Count /\ Count \in Nat /\ Here \in Int /\ outBase \in Int
  /\ \A i \in 0 .. Count :
       /\ start[i + 1] \in Int /\ outBase <= start[i + 1] /\ start[i + 1] <= Here
       /\ Begin(i) = start[i + 1] /\ Begin(i + 1) = start[i + 2]
  /\ \A i \in 0 .. Count - 1 : FixedOK(i)

LEMMA EndShape == ASSUME IInv, ShapeInv, done PROVE AtEnd
<1>1. PICK c : c = Count
  OBVIOUS
<1>2. /\ TypeOK /\ LengthOK /\ BlocksOK /\ Current = c /\ c \in Nat /\ Here \in Int
      /\ outBase \in Int
  BY <1>1, HereType, WindowAssumption DEF IInv, LengthOK, ShapeInv, TypeOK
<1>3. start \in Seq(Int) /\ Len(start) = c + 2
  BY <1>2 DEF TypeOK, Current
<1>4. ASSUME NEW i \in 0 .. c
      PROVE  /\ start[i + 1] \in Int /\ outBase <= start[i + 1] /\ start[i + 1] <= Here
             /\ Begin(i) = start[i + 1] /\ Begin(i + 1) = start[i + 2]
  <2>1. i + 1 \in 1 .. Len(start) /\ i < Len(start) /\ i + 1 < Len(start) /\ i + 1 + 1 = i + 2
    BY <1>2, <1>3
  <2>2. Begin(i) = start[i + 1] /\ Begin(i + 1) = start[i + 2]
    BY <2>1 DEF Begin
  <2>3. start[i + 1] \in Int
    BY <1>3, <2>1, ElementOfSeq
  <2>4. outBase <= Begin(i) /\ Begin(i) <= Here
    BY <1>2 DEF BlocksOK
  <2> QED
    BY <2>2, <2>3, <2>4
<1>5. \A i \in 0 .. c - 1 : FixedOK(i)
  BY <1>2 DEF ShapeInv
<1> QED
  BY <1>1, <1>2, <1>4, <1>5 DEF AtEnd

LEMMA WrittenBlock ==
  ASSUME AtEnd, NEW i \in 0 .. Count, NEW words \in Seq(Words), Written(i, words),
         NEW s, s = Begin(i)
  PROVE  Block(i, words, s)
<1>1. s = start[i + 1] /\ s \in Int /\ Begin(i + 1) = start[i + 2]
  BY DEF AtEnd
<1> QED
  BY <1>1 DEF Written, Block

LEMMA TargetType ==
  ASSUME AtEnd, NEW i \in 0 .. Count - 1, NEW ins, ins = window[i + 1]
  PROVE  ins \in Instructions /\ ins \in Instruction /\ Target(i) \in Int
<1>1. window \in Seq(Instructions) /\ i + 1 \in 1 .. Len(window)
  BY DEF AtEnd, TypeOK, Current
<1>2. ins \in Instructions
  BY <1>1, ElementOfSeq
<1>3. ins \in Instruction
  BY <1>2, WindowAssumption
<1>4. ins.off \in Int /\ At(i) \in Int
  BY <1>3, WindowAssumption DEF Instruction, At, AtEnd
<1>5. (At(i) \div PageWords + ins.off) * PageWords \in Int
  BY <1>4 DEF PageWords
<1> QED
  BY <1>2, <1>3, <1>4, <1>5 DEF Target

(* A completed word leads to where its target's words begin.                *)
LEMMA Referred ==
  ASSUME AtEnd, NEW i \in 0 .. Count - 1, Refers(i), NEW s, s = start[i + 1],
         NEW j, j = RefIndex(Target(i)), window[j + 1].op # "adrp",
         NEW w, w = WordAt(s), NEW ins, ins = window[i + 1]
  PROVE  /\ OneWord(i, w, s) /\ w.op = ins.op /\ w.rd = 0
         /\ dat[j] \in Int /\ dat[j] = s + w.arg /\ IsAt(dat[j], Target(i))
<1>1. i \in 0 .. Count /\ s = Begin(i) /\ s \in Int /\ Begin(i + 1) = start[i + 2]
  BY DEF AtEnd
<1>2. Target(i) \in Int /\ InBase \in Int /\ Count \in Int
  BY TargetType, WindowAssumption DEF AtEnd
<1>3. j \in 0 .. Count - 1
  BY <1>2 DEF Refers, InFixingRange, RefIndex
<1>4. dat[j] \in Int /\ j < Current /\ Starts(j)
  BY <1>3 DEF AtEnd, TypeOK, FixedOK
<1>5. start[i + 2] = s + 1 /\ w.op = ins.op /\ w.rd = 0 /\ w.arg = dat[j] - s
  BY <1>1, <1>4 DEF Refers
<1>6. s + w.arg = dat[j]
  BY <1>1, <1>4, <1>5
<1>7. OneWord(i, w, s)
  BY <1>1, <1>5 DEF OneWord
<1>8. IsAt(dat[j], Target(i))
  <2>1. j \in 0 .. Count /\ Begin(j) = start[j + 1] /\ Begin(j + 1) = start[j + 2]
    BY <1>3 DEF AtEnd
  <2>2. /\ dat[j] \in start[j + 1] .. start[j + 2]
        /\ \A a \in start[j + 1] .. dat[j] - 1 : WordAt(a).op = "nop"
    BY <1>4, <2>1 DEF Starts
  <2>3. InFixingRange(Target(i))
    BY DEF Refers
  <2> QED
    BY <2>2, <2>3 DEF IsAt
<1> QED
  BY <1>4, <1>5, <1>6, <1>7, <1>8

LEMMA ShortWord ==
  ASSUME NEW i, NEW words, NEW s, Block(i, words, s), NEW ins, NEW t \in Int,
         ShortForm(words, ins, t, s), NEW w, w = WordAt(s)
  PROVE  /\ OneWord(i, w, s) /\ w.op = ins.op /\ t = s + w.arg
         /\ ins.op = "adr" /\ ins.lsb = 0 => w.rd = 0
<1>1. PICK rd \in Nat : /\ ins.op = "adr" /\ ins.lsb = 0 => rd = 0
                        /\ words = <<[Word(ins.op, t - s) EXCEPT !.rd = rd]>>
  BY DEF ShortForm
<1>2. Len(words) = 1 /\ words[1] = [Word(ins.op, t - s) EXCEPT !.rd = rd]
  BY <1>1
<1>3. s \in Int /\ s = start[i + 1] /\ start[i + 2] = s + 1
  BY <1>2 DEF Block
<1>4. w = words[1]
  <2>1. WordAt(s + 1 - 1) = words[1] /\ s + 1 - 1 = s
    BY <1>2, <1>3 DEF Block
  <2> QED
    BY <2>1
<1>5. w.op = ins.op /\ w.arg = t - s /\ w.rd = rd
  BY <1>2, <1>4 DEF Word
<1>6. s + w.arg = t
  BY <1>3, <1>5
<1> QED
  BY <1>1, <1>3, <1>5, <1>6 DEF OneWord

LEMMA BranchReaches ==
  ASSUME AtEnd, NEW i \in 0 .. Count - 1, NEW ins, ins = window[i + 1],
         ins.op \in BranchOps \cup CondOps, ~(ins.op \in CondOps /\ ins.off < 0),
         ~(InFixingRange(Target(i)) /\ window[RefIndex(Target(i)) + 1].op = "adrp")
  PROVE  ReachesTarget(i)
<1>1. PICK s, t, w : s = start[i + 1] /\ t = Target(i) /\ w = WordAt(s)
  OBVIOUS
<1>2. i \in 0 .. Count /\ s = Begin(i) /\ s \in Int
  BY <1>1 DEF AtEnd
<1>3. t \in Int
  BY <1>1, TargetType
<1>4. ~LosesSign(ins) /\ ins.op # "adrp"
  BY DEF LosesSign, BranchOps, CondOps, LoadOps
<1>5. "bl" \notin CondOps
  BY DEF CondOps
<1>6. CASE Refers(i)
  <2>1. PICK j, a : j = RefIndex(t) /\ a = dat[j]
    OBVIOUS
  <2>2. window[j + 1].op # "adrp"
    BY <1>1, <1>6, <2>1 DEF Refers
  <2>3. OneWord(i, w, s) /\ w.op = ins.op /\ a \in Int /\ a = s + w.arg /\ IsAt(a, t)
    BY <1>1, <1>6, <2>1, <2>2, Referred
  <2>4. Outcome(i, TRUE).pc = a /\ (ins.op = "bl" => Outcome(i, TRUE).x30 = start[i + 2])
    <3>1. Branches(w, TRUE)
      BY <2>3 DEF Branches
    <3>2. Goes(i, w, a, TRUE)
      BY <2>3, <3>1, OneBranch
    <3> QED
      BY <2>3, <3>2 DEF Goes
  <2>5. ins.op \in CondOps => Outcome(i, FALSE).pc = start[i + 2]
    BY <2>3, OneFallsThrough
  <2> QED
    BY <1>1, <2>3, <2>4, <2>5 DEF ReachesTarget
<1>7. ASSUME NEW words \in Seq(Words), Form(words, ins, t, s), Written(i, words)
      PROVE  ReachesTarget(i)
  <2>1. Block(i, words, s)
    BY <1>2, <1>7, WrittenBlock
  <2>2. BranchForm(words, ins, t, s) \/ CondForm(words, ins, t, s) \/ ShortForm(words, ins, t, s)
    BY <1>7 DEF Form, CopyForm, CopiedForm, LoadForm, AddressForm, BranchOps, CondOps, LoadOps
  <2>3. ~InFixingRange(t)
    BY <2>2 DEF BranchForm, CondForm, ShortForm, Outside
  <2>4. SUFFICES /\ Outcome(i, TRUE).pc = t
                 /\ ins.op = "bl" => Outcome(i, TRUE).x30 = start[i + 2]
                 /\ ins.op \in CondOps => Outcome(i, FALSE).pc = start[i + 2]
    BY <1>1, <2>3 DEF ReachesTarget, IsAt
  <2>5. CASE BranchForm(words, ins, t, s)
    <3>1. ins.op \notin CondOps
      BY <2>5 DEF BranchForm, BranchOps, CondOps
    <3> QED
      BY <1>3, <2>1, <2>5, <3>1, BranchOutcome
  <2>6. CASE CondForm(words, ins, t, s)
    <3>1. ins.op # "bl"
      BY <1>5, <2>6 DEF CondForm
    <3>2. Outcome(i, TRUE).pc = t
      BY <1>3, <2>1, <2>6, CondOutcome
    <3>3. Outcome(i, FALSE).pc = start[i + 2]
      BY <1>3, <2>1, <2>6, CondOutcome
    <3> QED
      BY <3>1, <3>2, <3>3
  <2>7. CASE ShortForm(words, ins, t, s)
    <3>1. OneWord(i, w, s) /\ w.op = ins.op /\ t = s + w.arg
      BY <1>1, <1>3, <2>1, <2>7, ShortWord
    <3>2. Outcome(i, TRUE).pc = t /\ (ins.op = "bl" => Outcome(i, TRUE).x30 = start[i + 2])
      <4>1. Branches(w, TRUE)
        BY <3>1 DEF Branches
      <4>2. Goes(i, w, t, TRUE)
        BY <1>3, <3>1, <4>1, OneBranch
      <4> QED
        BY <3>1, <4>2 DEF Goes
    <3>3. ins.op \in CondOps => Outcome(i, FALSE).pc = start[i + 2]
      BY <3>1, OneFallsThrough
    <3> QED
      BY <3>2, <3>3
  <2> QED
    BY <2>2, <2>5, <2>6, <2>7
<1>8. FixedOK(i)
  BY DEF AtEnd
<1> QED
  BY <1>1, <1>2, <1>4, <1>6, <1>7, <1>8 DEF FixedOK

(* The literals of a function are outside its trampoline.                   *)
LEMMA LiteralOutside ==
  ASSUME AtEnd, LengthOK, done, NEW i \in 0 .. Count - 1, window[i + 1].op \in LoadOps
  PROVE  ~InCode(Target(i))
<1>1. PICK ins, t : ins = window[i + 1] /\ t = Target(i)
  OBVIOUS
<1>2. ins \in Instructions /\ t \in Int
  BY <1>1, TargetType
<1>3. t = At(i) + ins.off
  BY <1>1 DEF Target, LoadOps
<1>4. outBase \in OutBases /\ outBase \in Int /\ Len(code) \in Nat /\ Count \in 1 .. 5
  BY LenProperties, WindowAssumption DEF AtEnd, TypeOK
<1>5. t \notin outBase .. outBase + TrampolineSize - 1
  BY <1>1, <1>2, <1>3, <1>4, LiteralsAssumption
<1>6. Len(code) <= TrampolineSize
  BY <1>4 DEF LengthOK, TrampolineSize
<1>7. TrampolineSize \in Int
  BY DEF TrampolineSize
<1>8. ~InCode(t)
  BY <1>2, <1>4, <1>5, <1>6, <1>7 DEF InCode
<1> QED
  BY <1>1, <1>8

LEMMA ValueIsKept ==
  ASSUME AtEnd, LengthOK, done, NEW i \in 0 .. Count - 1, NEW ins, ins = window[i + 1],
         ins.op \in LoadOps \cup {"adr", "adrp"}, ~(ins.off < 0),
         ~(ins.op \in LoadOps /\ WidthAfter(ins, -1) # ins.size /\ Target(i) < start[i + 1]),
         ~(ins.op = "adr" /\ ins.lsb # 0 /\ WordAt(start[i + 1]).op = "adr"),
         ~(/\ InFixingRange(Target(i))
           /\ ins.op = "adrp" \/ window[RefIndex(Target(i)) + 1].op = "adrp")
  PROVE  GetsValue(i)
<1>1. PICK s, t, w, e : s = start[i + 1] /\ t = Target(i) /\ w = WordAt(s) /\ e = start[i + 2]
  OBVIOUS
<1>2. i \in 0 .. Count /\ s = Begin(i) /\ s \in Int
  BY <1>1 DEF AtEnd
<1>3. t \in Int /\ ins \in Instruction
  BY <1>1, TargetType
<1>4. ~LosesSign(ins) /\ ~(ins.op = "adrp" /\ InFixingRange(t))
  BY <1>1 DEF LosesSign
<1>5. "adr" \notin LoadOps /\ "adrp" \notin LoadOps /\ Zero = 0
  BY DEF LoadOps, Zero
<1>6. CASE Refers(i)
  <2>1. PICK j, a : j = RefIndex(t) /\ a = dat[j]
    OBVIOUS
  <2>2. window[j + 1].op # "adrp"
    BY <1>1, <1>6, <2>1 DEF Refers
  <2>3. OneWord(i, w, s) /\ w.op = ins.op /\ w.rd = 0 /\ a = s + w.arg /\ IsAt(a, t)
    BY <1>1, <1>6, <2>1, <2>2, Referred
  <2>4. ins.op = "adr"
    BY <1>6 DEF Refers, BranchOps, CondOps, LoadOps
  <2>5. EndsAs(Outcome(i, TRUE), start[i + 2], Zero, a, Zero, w.rd)
    BY <2>3, <2>4, OneAddress
  <2> QED
    BY <1>1, <1>5, <2>3, <2>4, <2>5 DEF GetsValue, EndsAs
<1>7. ASSUME NEW words \in Seq(Words), Form(words, ins, t, s), Written(i, words)
      PROVE  GetsValue(i)
  <2>1. Block(i, words, s)
    BY <1>2, <1>7, WrittenBlock
  <2>2. \/ CopiedForm(words, ins, t) \/ LoadForm(words, ins, t, s)
        \/ AddressForm(words, ins, t) \/ ShortForm(words, ins, t, s)
    BY <1>7 DEF Form, CopyForm, BranchForm, CondForm, BranchOps, CondOps, LoadOps
  <2>3. CASE CopiedForm(words, ins, t)
    <3>1. ins.op \in LoadOps /\ ins.size \in {1, 2, 4}
      BY <1>3, <2>3 DEF CopiedForm, Instruction
    <3>2. TypeOK /\ outBase <= s /\ start[i + 2] <= Here
      <4>1. i + 1 \in 0 .. Count /\ i + 1 + 1 = i + 2
        BY DEF AtEnd
      <4> QED
        BY <1>1, <1>2, <4>1 DEF AtEnd
    <3>3. EndsAs(Outcome(i, TRUE), start[i + 2], Zero, t, ins.size, Zero)
      BY <1>3, <2>1, <2>3, <3>1, <3>2, CopiedOutcome
    <3> QED
      BY <1>1, <3>1, <3>3 DEF GetsValue, EndsAs
  <2>4. CASE LoadForm(words, ins, t, s)
    <3>1. ins.op \in LoadOps
      BY <2>4 DEF LoadForm
    <3>2. ~(t < s /\ WidthAfter(ins, -1) # ins.size)
      BY <1>1, <3>1
    <3>3. ~InCode(t)
      BY <1>1, <3>1, LiteralOutside
    <3>4. EndsAs(Outcome(i, TRUE), start[i + 2], Zero, t, ins.size, Zero)
      BY <1>3, <2>1, <2>4, <3>2, <3>3, LoadOutcome
    <3> QED
      BY <1>1, <3>1, <3>4 DEF GetsValue, EndsAs
  <2>5. CASE AddressForm(words, ins, t)
    <3>1. ins.op \notin LoadOps /\ ~InFixingRange(t)
      BY <1>5, <2>5 DEF AddressForm
    <3>2. EndsAs(Outcome(i, TRUE), start[i + 2], Zero, t, Zero, Zero)
      BY <1>3, <2>1, <2>5, AddressOutcome
    <3>3. IsAt(t, t)
      BY <3>1 DEF IsAt
    <3> QED
      BY <1>1, <1>5, <3>1, <3>2, <3>3 DEF GetsValue, EndsAs
  <2>6. CASE ShortForm(words, ins, t, s)
    <3>1. ins.op = "adr" /\ ~InFixingRange(t)
      BY <2>6 DEF ShortForm, BranchOps, CondOps, LoadOps
    <3>2. /\ OneWord(i, w, s) /\ w.op = ins.op /\ t = s + w.arg
          /\ ins.op = "adr" /\ ins.lsb = 0 => w.rd = 0
      BY <1>1, <1>3, <2>1, <2>6, ShortWord
    <3>3. w.rd = 0
      BY <1>1, <3>1, <3>2
    <3>4. EndsAs(Outcome(i, TRUE), start[i + 2], Zero, t, Zero, w.rd)
      BY <3>1, <3>2, OneAddress
    <3>5. IsAt(t, t)
      BY <3>1 DEF IsAt
    <3> QED
      BY <1>1, <1>5, <3>1, <3>3, <3>4, <3>5 DEF GetsValue, EndsAs
  <2> QED
    BY <2>2, <2>3, <2>4, <2>5, <2>6
<1>8. FixedOK(i)
  BY DEF AtEnd
<1> QED
  BY <1>1, <1>2, <1>4, <1>6, <1>7, <1>8 DEF FixedOK

LEMMA CopyFallsThrough ==
  ASSUME AtEnd, NEW i \in 0 .. Count - 1, NEW ins, ins = window[i + 1],
         ins.op \in {"prfm", "other"}
  PROVE  Outcome(i, TRUE).pc = start[i + 2]
<1>1. PICK s, t : s = Begin(i) /\ t = Target(i)
  OBVIOUS
<1>2. ~LosesSign(ins) /\ ins.op # "adrp" /\ i \in 0 .. Count
  BY DEF LosesSign, CondOps, LoadOps, AtEnd
<1>3. ~Refers(i)
  BY DEF Refers, BranchOps, CondOps
<1>4. FixedOK(i)
  BY DEF AtEnd
<1>5. PICK words \in Seq(Words) : Form(words, ins, t, s) /\ Written(i, words)
  BY <1>1, <1>2, <1>3, <1>4 DEF FixedOK
<1>6. CopyForm(words, ins)
  BY <1>5 DEF Form, BranchForm, CondForm, CopiedForm, LoadForm, AddressForm, ShortForm,
              BranchOps, CondOps, LoadOps
<1>7. Block(i, words, s)
  BY <1>1, <1>2, <1>5, WrittenBlock
<1> QED
  BY <1>6, <1>7, CopyOutcome

LEMMA JumpReturns ==
  ASSUME AtEnd, JumpOK, done PROVE Outcome(Count, TRUE).pc = At(Count)
<1>1. PICK i, s, t : i = Count /\ s = Begin(i) /\ t = At(i)
  OBVIOUS
<1>2. i \in 0 .. Count /\ s \in Int /\ s = start[i + 1] /\ t \in Int
  BY <1>1, WindowAssumption DEF AtEnd, At
<1>3. PICK words \in Seq(Words) : JumpForm(words, s) /\ Written(i, words)
  BY <1>1 DEF JumpOK
<1>4. Block(i, words, s)
  BY <1>1, <1>2, <1>3, WrittenBlock
<1>5. CASE words = <<Word("b", t - s)>>
  <2>1. PICK w : w = WordAt(s)
    OBVIOUS
  <2>2. Len(words) = 1 /\ words[1] = Word("b", t - s)
    BY <1>5
  <2>3. w = words[1]
    <3>1. WordAt(s + 1 - 1) = words[1] /\ s + 1 - 1 = s
      BY <1>2, <1>4, <2>2 DEF Block
    <3> QED
      BY <2>1, <3>1
  <2>4. w.op = "b" /\ w.arg = t - s
    BY <2>2, <2>3 DEF Word
  <2>5. OneWord(i, w, s) /\ t = s + w.arg /\ w.op \in BranchOps
    BY <1>2, <1>4, <2>1, <2>2, <2>4 DEF OneWord, Block, BranchOps
  <2>6. Outcome(i, TRUE).pc = t
    <3>1. Branches(w, TRUE)
      BY <2>5 DEF Branches
    <3>2. Goes(i, w, t, TRUE)
      BY <1>2, <2>5, <3>1, OneBranch
    <3> QED
      BY <3>2 DEF Goes
  <2> QED
    BY <1>1, <2>6
<1>6. ASSUME NEW n \in 0 .. 1, Abs(t - s) >= 2 ^ 25 - 1,
             words = Nops(n) \o <<Word("ldr17", 2), Word("br17", 0)>> \o Literal(t)
      PROVE  Outcome(Count, TRUE).pc = At(Count)
  <2>1. PICK ins : ins = [op |-> "b"]
    OBVIOUS
  <2>2. Outside(t, s)
    <3>1. ~InFixingRange(t)
      BY <1>1, WindowAssumption DEF InFixingRange, At, AtEnd
    <3>2. Abs(t - s) >= 2 ^ 13 - 1
      <4>1. PICK x : x = Abs(t - s)
        OBVIOUS
      <4>2. PICK d : d = t - s
        OBVIOUS
      <4>3. d \in Int
        BY <1>2, <4>2
      <4>4. x = Abs(d) /\ x >= 2 ^ 25 - 1
        BY <1>6, <4>1, <4>2
      <4>5. x \in Int
        BY <4>3, <4>4 DEF Abs
      <4>6. x >= 2 ^ 13 - 1
        BY <4>4, <4>5
      <4> QED
        BY <4>1, <4>6
    <3> QED
      BY <3>1, <3>2 DEF Outside
  <2>3. BranchForm(words, ins, t, s)
    BY <1>6, <2>1, <2>2 DEF BranchForm, BranchOps
  <2>4. Outcome(i, TRUE).pc = t
    BY <1>2, <1>4, <2>3, BranchOutcome
  <2> QED
    BY <1>1, <2>4
<1> QED
  BY <1>1, <1>3, <1>5, <1>6 DEF JumpForm

(* hook_impl.cpp:149-203 and 241-276: a branch of the window, long or short, *)
(* goes where it went in the function, whatever the distance.               *)
THEOREM BranchesHold == Spec => []BranchesReachTheirTargets
<1>1. IInv /\ ShapeInv => BranchesReachTheirTargets
  <2> SUFFICES ASSUME IInv, ShapeInv, done, NEW i \in Indices(BranchOps \cup CondOps)
               PROVE  \/ window[i + 1].op \in CondOps /\ window[i + 1].off < 0
                      \/ InFixingRange(Target(i)) /\ window[RefIndex(Target(i)) + 1].op = "adrp"
                      \/ ReachesTarget(i)
    BY DEF BranchesReachTheirTargets
  <2>1. AtEnd
    BY EndShape
  <2>2. i \in 0 .. Count - 1 /\ window[i + 1].op \in BranchOps \cup CondOps
    BY DEF Indices
  <2>3. PICK ins : ins = window[i + 1]
    OBVIOUS
  <2> QED
    BY <2>1, <2>2, <2>3, BranchReaches
<1> QED
  BY <1>1, ShapeHolds, PTL

(* hook_impl.cpp:323-361 and 387-461: a load of a literal or of an address  *)
(* gives the register what it would have given it in the function.          *)
THEOREM ValuesHold == Spec => []ValuesAreKept
<1>1. IInv /\ ShapeInv => ValuesAreKept
  <2> SUFFICES ASSUME IInv, ShapeInv, done, NEW i \in Indices(LoadOps \cup {"adr", "adrp"}),
                      NEW ins, ins = window[i + 1], ~(ins.off < 0),
                      ~(ins.op \in LoadOps /\ WidthAfter(ins, -1) # ins.size
                          /\ Target(i) < start[i + 1]),
                      ~(ins.op = "adr" /\ ins.lsb # 0 /\ WordAt(start[i + 1]).op = "adr"),
                      ~(/\ InFixingRange(Target(i))
                        /\ ins.op = "adrp" \/ window[RefIndex(Target(i)) + 1].op = "adrp")
               PROVE  GetsValue(i)
    BY DEF ValuesAreKept
  <2>1. AtEnd /\ LengthOK
    BY EndShape DEF IInv
  <2>2. i \in 0 .. Count - 1 /\ ins.op \in LoadOps \cup {"adr", "adrp"}
    BY DEF Indices
  <2> QED
    BY <2>1, <2>2, ValueIsKept
<1> QED
  BY <1>1, ShapeHolds, PTL

(* hook_impl.cpp:490-516: after what is copied, and after the whole window, *)
(* control goes on behind it: in the trampoline, then in the function.      *)
THEOREM LeadsBack == Spec => []LeadsBackToFunction
<1>1. IInv /\ ShapeInv => LeadsBackToFunction
  <2> SUFFICES ASSUME IInv, ShapeInv, done PROVE LeadsBackToFunction
    BY DEF LeadsBackToFunction
  <2>1. AtEnd /\ JumpOK
    BY EndShape DEF ShapeInv
  <2>2. ASSUME NEW i \in Indices({"prfm", "other"}) PROVE Outcome(i, TRUE).pc = start[i + 2]
    <3>1. i \in 0 .. Count - 1 /\ window[i + 1].op \in {"prfm", "other"}
      BY DEF Indices
    <3> QED
      BY <2>1, <3>1, CopyFallsThrough
  <2>3. Outcome(Count, TRUE).pc = At(Count)
    BY <2>1, JumpReturns
  <2> QED
    BY <2>2, <2>3 DEF LeadsBackToFunction
<1> QED
  BY <1>1, ShapeHolds, PTL
=============================================================================
