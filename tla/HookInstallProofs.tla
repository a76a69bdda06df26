------------------------- MODULE HookInstallProofs --------------------------
(***************************************************************************)
(* Proofs about RwPages and HookInstall for every number of pages, ranges, *)
(* functions, hooks and patches: the aliases belong to their claims, no    *)
(* stale instruction is left, and hooks nest.                              *)
(***************************************************************************)
EXTENDS HookInstall, FiniteSetTheorems, SequenceTheorems, WellFoundedInduction, TLAPS

-----------------------------------------------------------------------------
(* Induction over the natural numbers, as the least counterexample.        *)
LEMMA LeastNat ==
  ASSUME NEW S, S \subseteq Nat, S # {}
  PROVE  \E n \in S : \A m \in S : n <= m
<1> DEFINE R == OpToRel(<, Nat)
<1>1. \E x \in S : \A y \in S : ~(<<y, x>> \in R)
  BY WFMin, NatLessThanWellFounded
<1>2. ASSUME NEW x \in Nat, NEW y \in Nat
      PROVE  <<y, x>> \in R <=> y < x
  BY DEF OpToRel
<1> HIDE DEF R
<1>3. PICK x \in S : \A y \in S : ~(<<y, x>> \in R)
  BY <1>1
<1>4. \A m \in S : x <= m
  <2> TAKE m \in S
  <2>1. x \in Nat /\ m \in Nat
    OBVIOUS
  <2>2. ~(m < x)
    BY <2>1, <1>2, <1>3
  <2> QED
    BY <2>1, <2>2
<1> QED
  BY <1>4

-----------------------------------------------------------------------------
(* The aliases.                                                            *)

Live == {i \in Claims : claim[i] # NoClaim}

Claim == [ro : Nat, size : Nat \ {0}, rw : Nat]

(* A claim's pages are pages of code and of the alias region. *)
ClaimsOK ==
  /\ claim \in [Claims -> Claim \cup {NoClaim}]
  /\ \A i \in Live :
       /\ claim[i].rw + AlignedSize(claim[i]) <= AslrPages
       /\ AlignedRo(claim[i]) + AlignedSize(claim[i]) <= CodePages
  /\ alias \in [Aslr -> 0 .. CodePages - 1 \cup {Unmapped}]
  /\ stopped \in BOOLEAN

(* The search has left each claim pages of its own. *)
Disjoint(c, d) ==
  c.rw + AlignedSize(c) <= d.rw \/ d.rw + AlignedSize(d) <= c.rw

ReservedFor(c) == [from |-> c.rw, to |-> c.rw + AlignedSize(c)]

ClaimsAreDisjoint ==
  /\ \A i, j \in Live : i # j => Disjoint(claim[i], claim[j])
  /\ reserved = {ReservedFor(claim[i]) : i \in Live}

(* Is a one of the claim's pages, and what it then shows. *)
Shows(c, a) == a \in c.rw .. c.rw + AlignedSize(c) - 1 /\ alias[a] = AlignedRo(c) + a - c.rw

(* What is mapped, and how far the one claim that is being mapped or given  *)
(* up has come.                                                             *)
AliasesOK ==
  /\ \A a \in Aslr : alias[a] # Unmapped => \E i \in Live : Shows(claim[i], a)
  /\ \A i \in Live : i # current.id =>
       \A p \in ClaimedPages(claim[i]) : alias[Alias(claim[i], p)] = p

CurrentOK ==
  \/ current = NoneRunning
  \/ /\ current \in [id : Live, phase : {"map", "unmap"}, next : Nat]
     /\ current.next \in ClaimedPages(claim[current.id])
     /\ \A p \in ClaimedPages(claim[current.id]) : p < current.next =>
          alias[Alias(claim[current.id], p)] = IF current.phase = "map" THEN p ELSE Unmapped

PagesInv == ClaimsOK /\ ClaimsAreDisjoint /\ AliasesOK /\ CurrentOK

(* A claim has at least one page. *)
LEMMA Sizes ==
  ASSUME NEW c, c.ro \in Nat, c.size \in Nat \ {0}
  PROVE  AlignedRo(c) \in Nat /\ AlignedSize(c) \in Nat \ {0}
<1>1. PageWords \in Nat \ {0}
  BY PagesAssumption
<1>2. AlignedRo(c) \in Nat
  BY <1>1 DEF AlignedRo
<1>3. c.size + PageWords - 1 >= PageWords
  BY <1>1
<1>4. ASSUME NEW x \in Nat, NEW y \in Nat \ {0}, x >= y
      PROVE  x \div y \in Nat \ {0}
  BY <1>4
<1>5. AlignedSize(c) \in Nat \ {0}
  BY <1>1, <1>3, <1>4 DEF AlignedSize
<1> QED
  BY <1>2, <1>5

(* The kernel's ranges cut the rest of a claim behind its first pages. *)
LEMMA Ranges ==
  ASSUME NEW c, c.ro \in Nat, c.size \in Nat \ {0},
         AlignedRo(c) + AlignedSize(c) <= CodePages,
         NEW page \in ClaimedPages(c)
  PROVE  LET last == AlignedRo(c) + AlignedSize(c) - 1 IN
         IF last \in RangeFrom(c, page) THEN RangeFrom(c, page) = page .. last
         ELSE \E m \in page .. last - 1 :
                RangeFrom(c, page) = page .. m /\ Cardinality(RangeFrom(c, page)) = m - page + 1
<1> DEFINE last == AlignedRo(c) + AlignedSize(c) - 1
           now == RangeFrom(c, page)
           Cuts == {s \in RangeStarts : page < s /\ s <= last}
<1> USE Sizes, PagesAssumption
<1>1. page \in Nat /\ last \in Nat /\ page <= last /\ RangeStarts \subseteq Nat
  BY DEF ClaimedPages
<1>2. ASSUME NEW p
      PROVE p \in now <=> p \in page .. last /\ \A s \in RangeStarts : ~(page < s /\ s <= p)
  BY <1>1 DEF RangeFrom, ClaimedPages
<1>3. CASE last \in now
  <2>1. \A p \in page .. last : \A s \in RangeStarts : ~(page < s /\ s <= p)
    BY <1>1, <1>2, <1>3
  <2> QED
    BY <1>2, <1>3, <2>1
<1>4. CASE last \notin now
  <2>1. PICK cut \in RangeStarts : page < cut /\ cut <= last
    BY <1>1, <1>2, <1>4
  <2>2. Cuts # {} /\ Cuts \subseteq Nat
    BY <1>1, <2>1
  <2> HIDE DEF Cuts
  <2>3. PICK s \in Cuts : \A t \in Cuts : s <= t
    BY <2>2, LeastNat
  <2> USE DEF Cuts
  <2>4. s \in RangeStarts /\ s \in Nat /\ page < s /\ s <= last
    BY <2>1
  <2>5. now = page .. s - 1
    <3>1. ASSUME NEW p \in page .. s - 1 PROVE p \in now
      <4>1. \A t \in RangeStarts : ~(page < t /\ t <= p)
        BY <1>1, <2>3, <2>4
      <4> QED
        BY <1>1, <1>2, <2>4, <4>1
    <3>2. ASSUME NEW p \in now PROVE p \in page .. s - 1
      BY <1>1, <1>2, <2>4
    <3> QED
      BY <3>1, <3>2
  <2>6. Cardinality(page .. s - 1) = s - 1 - page + 1
    BY <1>1, <2>4, FS_Interval
  <2> QED
    BY <1>1, <1>4, <2>4, <2>5, <2>6
<1> QED
  BY <1>3, <1>4

LEMMA LiveClaims ==
  ASSUME ClaimsOK, NEW i \in Live
  PROVE  /\ i \in Claims /\ claim[i] \in Claim /\ claim[i].rw \in Nat
         /\ AlignedRo(claim[i]) \in Nat /\ AlignedSize(claim[i]) \in Nat \ {0}
         /\ claim[i].rw + AlignedSize(claim[i]) <= AslrPages
         /\ AlignedRo(claim[i]) + AlignedSize(claim[i]) <= CodePages
<1>1. i \in Claims /\ claim[i] \in Claim
  BY DEF ClaimsOK, Live
<1>2. claim[i].ro \in Nat /\ claim[i].size \in Nat \ {0} /\ claim[i].rw \in Nat
  BY <1>1 DEF Claim
<1> QED
  BY <1>1, <1>2, Sizes DEF ClaimsOK

LEMMA InitPagesInv == InitPages => PagesInv
<1> SUFFICES ASSUME InitPages PROVE PagesInv
  OBVIOUS
<1> USE DEF InitPages
<1>1. Live = {}
  BY DEF Live
<1>2. ClaimsOK
  BY <1>1 DEF ClaimsOK
<1>3. ClaimsAreDisjoint /\ AliasesOK /\ CurrentOK
  BY <1>1 DEF ClaimsAreDisjoint, AliasesOK, CurrentOK
<1> QED
  BY <1>2, <1>3 DEF PagesInv

(* A new claim gets pages that are neither reserved nor mapped. *)
LEMMA ConstructStep ==
  ASSUME PagesInv, NEW i \in Claims, NEW ro \in Nat, NEW size \in Nat \ {0},
         AlignedRo([ro |-> ro, size |-> size]) + AlignedSize([ro |-> ro, size |-> size]) <= CodePages,
         Construct(i, ro, size)
  PROVE  PagesInv'
<1> DEFINE asked == [ro |-> ro, size |-> size]
           n == AlignedSize(asked)
<1>1. n \in Nat \ {0} /\ AlignedRo(asked) \in Nat
  BY Sizes
<1>2. PICK from \in FreeRegions(n) :
        /\ claim' = [claim EXCEPT ![i] = [ro |-> ro, size |-> size, rw |-> from]]
        /\ reserved' = reserved \cup {[from |-> from, to |-> from + n]}
  BY DEF Construct
<1>3. current = NoneRunning /\ claim[i] = NoClaim /\ UNCHANGED <<alias, stopped>>
      /\ current' = [id |-> i, phase |-> "map", next |-> ro \div PageWords]
  BY DEF Construct
<1> DEFINE c == [ro |-> ro, size |-> size, rw |-> from]
<1>4. AlignedSize(c) = n /\ AlignedRo(c) = AlignedRo(asked)
  BY DEF AlignedSize, AlignedRo
<1>5. from \in Nat /\ from + n <= AslrPages
  BY <1>1, PagesAssumption DEF FreeRegions
<1>6. claim' \in [Claims -> Claim \cup {NoClaim}] /\ c \in Claim
  BY <1>2, <1>5 DEF PagesInv, ClaimsOK, Claim
<1>7. c # NoClaim
  BY <1>5, PagesAssumption
<1>8. Live' = Live \cup {i} /\ i \notin Live /\ claim'[i] = c
      /\ \A j \in Live : claim'[j] = claim[j]
  BY <1>2, <1>3, <1>6, <1>7 DEF Live, PagesInv, ClaimsOK
<1>9. ClaimsOK'
  <2>1. \A j \in Live' : claim'[j].rw + AlignedSize(claim'[j]) <= AslrPages
                         /\ AlignedRo(claim'[j]) + AlignedSize(claim'[j]) <= CodePages
    BY <1>4, <1>5, <1>8 DEF PagesInv, ClaimsOK
  <2> QED
    BY <2>1, <1>3, <1>6 DEF PagesInv, ClaimsOK
<1>10. ClaimsAreDisjoint'
  <2>1. \A j \in Live : Disjoint(claim[j], c) /\ Disjoint(c, claim[j])
    <3> TAKE j \in Live
    <3>1. ReservedFor(claim[j]) \in reserved
      BY DEF PagesInv, ClaimsAreDisjoint
    <3>2. ~Overlaps(ReservedFor(claim[j]), from, from + n)
      BY <1>2, <3>1 DEF FreeRegions
    <3> QED
      BY <1>1, <1>4, <1>5, <3>2, LiveClaims DEF PagesInv, Overlaps, ReservedFor, Disjoint
  <2>2. reserved' = {ReservedFor(claim'[j]) : j \in Live'}
    BY <1>2, <1>4, <1>8 DEF PagesInv, ClaimsAreDisjoint, ReservedFor
  <2>3. \A j, k \in Live' : j # k => Disjoint(claim'[j], claim'[k])
    BY <1>8, <2>1 DEF PagesInv, ClaimsAreDisjoint
  <2> QED
    BY <2>2, <2>3 DEF ClaimsAreDisjoint, ReservedFor, Disjoint
<1>11. AliasesOK'
  <2>1. \A a \in Aslr : alias[a] # Unmapped => \E j \in Live : Shows(claim[j], a)
    BY DEF PagesInv, AliasesOK
  <2>2. \A j \in Live : \A p \in ClaimedPages(claim[j]) : alias[Alias(claim[j], p)] = p
    BY <1>3, PagesAssumption DEF PagesInv, AliasesOK, NoneRunning, Live
  <2> QED
    BY <1>3, <1>8, <2>1, <2>2
       DEF AliasesOK, Shows, Alias, ClaimedPages, AlignedRo, AlignedSize
<1>12. CurrentOK'
  <2>1. ro \div PageWords = AlignedRo(c)
    BY DEF AlignedRo
  <2>2. current' \in [id : Live', phase : {"map", "unmap"}, next : Nat]
    BY <1>1, <1>3, <1>4, <1>8, <2>1
  <2>3. AlignedRo(c) \in ClaimedPages(c) /\ ~\E p \in ClaimedPages(c) : p < AlignedRo(c)
    BY <1>1, <1>4 DEF ClaimedPages
  <2>4. current'.id = i /\ current'.next = AlignedRo(c)
    BY <1>3, <2>1
  <2>5. \A p \in ClaimedPages(claim'[current'.id]) : ~(p < current'.next)
    BY <1>8, <2>3, <2>4
  <2>6. current'.next \in ClaimedPages(claim'[current'.id])
    BY <1>8, <2>3, <2>4
  <2> QED
    BY <2>2, <2>5, <2>6 DEF CurrentOK, ClaimedPages, AlignedRo, AlignedSize
<1> QED
  BY <1>9, <1>10, <1>11, <1>12 DEF PagesInv

(* Steps that leave the aliases alone. *)
LEMMA FindFailsStep == ASSUME PagesInv, NEW i \in Claims, FindFails(i) PROVE PagesInv'
<1> USE DEF FindFails
<1>1. ClaimsOK'
  BY DEF PagesInv, ClaimsOK, Live, AlignedRo, AlignedSize
<1>2. ClaimsAreDisjoint' /\ AliasesOK'
  BY DEF PagesInv, ClaimsAreDisjoint, AliasesOK, Live, ReservedFor, Disjoint,
         Shows, Alias, ClaimedPages, AlignedRo, AlignedSize
<1>3. CurrentOK'
  BY DEF PagesInv, CurrentOK, Live, Alias, ClaimedPages, AlignedRo, AlignedSize
<1> QED
  BY <1>1, <1>2, <1>3 DEF PagesInv

LEMMA RangeFailsStep == ASSUME PagesInv, RangeFails PROVE PagesInv'
<1> USE DEF RangeFails
<1>1. ClaimsOK'
  BY DEF PagesInv, ClaimsOK, Live, AlignedRo, AlignedSize
<1>2. ClaimsAreDisjoint' /\ AliasesOK'
  BY DEF PagesInv, ClaimsAreDisjoint, AliasesOK, Live, ReservedFor, Disjoint,
         Shows, Alias, ClaimedPages, AlignedRo, AlignedSize
<1>3. CurrentOK'
  BY DEF PagesInv, CurrentOK, Live, Alias, ClaimedPages, AlignedRo, AlignedSize
<1> QED
  BY <1>1, <1>2, <1>3 DEF PagesInv

LEMMA PagesStutter == ASSUME PagesInv, UNCHANGED pages PROVE PagesInv'
<1> USE DEF pages
<1>1. ClaimsOK'
  BY DEF PagesInv, ClaimsOK, Live, AlignedRo, AlignedSize
<1>2. ClaimsAreDisjoint' /\ AliasesOK'
  BY DEF PagesInv, ClaimsAreDisjoint, AliasesOK, Live, ReservedFor, Disjoint,
         Shows, Alias, ClaimedPages, AlignedRo, AlignedSize
<1>3. CurrentOK'
  BY DEF PagesInv, CurrentOK, Live, Alias, ClaimedPages, AlignedRo, AlignedSize
<1> QED
  BY <1>1, <1>2, <1>3 DEF PagesInv

LEMMA DestroyStep == ASSUME PagesInv, NEW i \in Claims, Destroy(i) PROVE PagesInv'
<1> USE DEF Destroy
<1>1. ClaimsOK'
  BY DEF PagesInv, ClaimsOK, Live, AlignedRo, AlignedSize
<1>2. ClaimsAreDisjoint'
  BY DEF PagesInv, ClaimsAreDisjoint, Live, ReservedFor, Disjoint, AlignedSize
<1>3. AliasesOK'
  <2>1. \A a \in Aslr : alias[a] # Unmapped => \E j \in Live : Shows(claim[j], a)
    BY DEF PagesInv, AliasesOK
  <2>2. \A j \in Live : \A p \in ClaimedPages(claim[j]) : alias[Alias(claim[j], p)] = p
    BY PagesAssumption DEF PagesInv, AliasesOK, NoneRunning, Live
  <2> QED
    BY <2>1, <2>2 DEF AliasesOK, Live, Shows, Alias, ClaimedPages, AlignedRo, AlignedSize
<1>4. CurrentOK'
  <2>1. i \in Live
    BY DEF Live
  <2>2. AlignedRo(claim[i]) \in Nat /\ AlignedSize(claim[i]) \in Nat \ {0}
    BY <2>1, LiveClaims DEF PagesInv
  <2>3. AlignedRo(claim[i]) \in ClaimedPages(claim[i])
        /\ \A p \in ClaimedPages(claim[i]) : ~(p < AlignedRo(claim[i]))
    BY <2>2 DEF ClaimedPages
  <2>4. current' \in [id : Live', phase : {"map", "unmap"}, next : Nat]
    BY <2>1, <2>2 DEF Live
  <2>5. claim' = claim /\ current'.id = i /\ current'.next = AlignedRo(claim[i])
    OBVIOUS
  <2> QED
    BY <2>3, <2>4, <2>5 DEF CurrentOK, ClaimedPages, AlignedRo, AlignedSize
<1> QED
  BY <1>1, <1>2, <1>3, <1>4 DEF PagesInv

-----------------------------------------------------------------------------
(* Mapping and unmapping a range.                                          *)

(* What both steps find: the claim, its pages so far and those of now. *)
LEMMA AtRange ==
  ASSUME PagesInv, current.phase \in {"map", "unmap"}
  PROVE  LET c == claim[current.id]
             now == RangeFrom(c, current.next)
             last == AlignedRo(c) + AlignedSize(c) - 1
         IN /\ current.id \in Live /\ c \in Claim
            /\ current \in [id : Live, phase : {"map", "unmap"}, next : Nat]
            /\ c.rw \in Nat /\ AlignedRo(c) \in Nat /\ AlignedSize(c) \in Nat \ {0}
            /\ c.rw + AlignedSize(c) <= AslrPages
            /\ AlignedRo(c) + AlignedSize(c) <= CodePages
            /\ current.next \in AlignedRo(c) .. last
            /\ \A p \in AlignedRo(c) .. last : p < current.next =>
                 alias[c.rw + p - AlignedRo(c)] = IF current.phase = "map" THEN p ELSE Unmapped
            /\ IF last \in now THEN now = current.next .. last
               ELSE \E m \in current.next .. last - 1 :
                      now = current.next .. m /\ Cardinality(now) = m - current.next + 1
<1> DEFINE c == claim[current.id]
           now == RangeFrom(c, current.next)
           last == AlignedRo(c) + AlignedSize(c) - 1
<1>1. current # NoneRunning
  BY DEF NoneRunning
<1>2. /\ current \in [id : Live, phase : {"map", "unmap"}, next : Nat]
      /\ current.next \in ClaimedPages(c)
      /\ \A p \in ClaimedPages(c) : p < current.next =>
           alias[Alias(c, p)] = IF current.phase = "map" THEN p ELSE Unmapped
  BY <1>1 DEF PagesInv, CurrentOK
<1>3. current.id \in Live
  BY <1>2
<1>4. /\ c \in Claim /\ c.rw \in Nat
      /\ AlignedRo(c) \in Nat /\ AlignedSize(c) \in Nat \ {0}
      /\ c.rw + AlignedSize(c) <= AslrPages
      /\ AlignedRo(c) + AlignedSize(c) <= CodePages
  BY <1>3, LiveClaims DEF PagesInv
<1>5. c.ro \in Nat /\ c.size \in Nat \ {0}
  BY <1>4 DEF Claim
<1>6. IF last \in now THEN now = current.next .. last
      ELSE \E m \in current.next .. last - 1 :
             now = current.next .. m /\ Cardinality(now) = m - current.next + 1
  BY <1>2, <1>4, <1>5, Ranges
<1> QED
  BY <1>2, <1>3, <1>4, <1>6 DEF ClaimedPages, Alias

(* Page p of the claim is at w + p - R.  A step adds the pages n .. m, and  *)
(* is the last one when m is the claim's last page.                         *)
LEMMA MapRangeStep == ASSUME PagesInv, MapRange PROVE PagesInv'
<1> DEFINE c == claim[current.id]
           now == RangeFrom(c, current.next)
           w == c.rw
           R == AlignedRo(c)
           S == AlignedSize(c)
           n == current.next
           last == R + S - 1
<1>1. /\ current.phase = "map" /\ UNCHANGED <<claim, reserved>>
      /\ alias' = [a \in Aslr |-> IF \E p \in now : a = w + p - R
                                  THEN R + a - w ELSE alias[a]]
      /\ IF last \in now
         THEN current' = NoneRunning /\ stopped' \in BOOLEAN
         ELSE /\ current' = [current EXCEPT !.next = n + Cardinality(now)]
              /\ stopped' = stopped
  BY DEF MapRange, Alias
<1>2. /\ current.id \in Live
      /\ current \in [id : Live, phase : {"map", "unmap"}, next : Nat]
      /\ w \in Nat /\ R \in Nat /\ S \in Nat \ {0}
      /\ w + S <= AslrPages /\ R + S <= CodePages
      /\ n \in R .. last
  BY <1>1, AtRange
<1>3. \A p \in R .. last : p < n => alias[w + p - R] = p
  BY <1>1, AtRange
<1>4. IF last \in now THEN now = n .. last
      ELSE \E m \in n .. last - 1 : now = n .. m /\ Cardinality(now) = m - n + 1
  BY <1>1, AtRange
<1>5. Live' = Live /\ claim' = claim
  BY <1>1 DEF Live
<1>6. AslrPages \in Nat /\ CodePages \in Nat
  BY PagesAssumption
<1>7. ClaimsAreDisjoint'
  BY <1>1, <1>5 DEF PagesInv, ClaimsAreDisjoint, ReservedFor, Disjoint, AlignedSize
<1>8. ClaimedPages(c) = R .. last /\ \A p : Alias(c, p) = w + p - R
  BY DEF ClaimedPages, Alias
<1>9. \A i \in Live : i # current.id =>
        claim[i].rw + AlignedSize(claim[i]) <= w \/ w + S <= claim[i].rw
  BY <1>2 DEF PagesInv, ClaimsAreDisjoint, Disjoint
<1>10. current.phase = "map"
  BY <1>1
<1> HIDE DEF now, w, R, S, n
<1>11. PICK m \in n .. last :
        /\ now = n .. m
        /\ IF m = last THEN current' = NoneRunning
           ELSE current' = [current EXCEPT !.next = m + 1]
  <2>1. CASE last \in now
    BY <1>1, <1>2, <1>4, <2>1
  <2>2. CASE last \notin now
    <3>1. PICK k \in n .. last - 1 : now = n .. k /\ Cardinality(now) = k - n + 1
      BY <1>4, <2>2
    <3>2. n + Cardinality(now) = k + 1
      BY <1>2, <3>1
    <3>3. current' = [current EXCEPT !.next = k + 1]
      BY <1>1, <2>2, <3>2
    <3>4. k \in n .. last /\ k # last
      BY <1>2, <3>1
    <3> QED
      BY <3>1, <3>3, <3>4
  <2> QED
    BY <2>1, <2>2
<1>12. n \in Nat /\ m \in Nat /\ n <= m /\ R <= n /\ m < R + S
  BY <1>2, <1>11
<1>13. \A a \in Aslr :
        alias'[a] = IF w + n - R <= a /\ a <= w + m - R THEN R + a - w ELSE alias[a]
  <2> TAKE a \in Aslr
  <2>1. a \in Nat
    BY <1>6 DEF Aslr
  <2>2. ASSUME w + n - R <= a, a <= w + m - R
        PROVE  R + a - w \in n .. m /\ a = w + (R + a - w) - R
    BY <1>2, <1>12, <2>1, <2>2
  <2>3. ASSUME NEW p \in n .. m, a = w + p - R
        PROVE  w + n - R <= a /\ a <= w + m - R
    BY <1>2, <1>12, <2>3
  <2>4. (\E p \in now : a = w + p - R) <=> w + n - R <= a /\ a <= w + m - R
    BY <1>11, <2>2, <2>3
  <2> QED
    BY <1>1, <2>4
<1>14. \A p \in R .. last : w + p - R \in Aslr
  BY <1>2, <1>6 DEF Aslr
<1>15. \A p \in R .. last : p <= m => alias'[w + p - R] = p
  <2> TAKE p \in R .. last
  <2>1. CASE p < n
    <3>1. p \in Nat /\ ~(w + n - R <= w + p - R)
      BY <1>2, <1>12, <2>1
    <3> QED
      BY <1>3, <1>13, <1>14, <2>1, <3>1
  <2>2. CASE n <= p /\ p <= m
    BY <1>2, <1>12, <1>13, <1>14, <2>2
  <2> QED
    BY <1>2, <1>12, <2>1, <2>2
<1>16. ClaimsOK'
  <2>1. \A a \in Aslr : alias'[a] \in 0 .. CodePages - 1 \cup {Unmapped}
    <3> TAKE a \in Aslr
    <3>1. CASE w + n - R <= a /\ a <= w + m - R
      <4>1. a \in Nat
        BY <1>6 DEF Aslr
      <4>2. R + a - w \in 0 .. CodePages - 1
        BY <1>2, <1>6, <1>12, <3>1, <4>1
      <4> QED
        BY <1>13, <3>1, <4>2
    <3>2. CASE ~(w + n - R <= a /\ a <= w + m - R)
      BY <1>13, <3>2 DEF PagesInv, ClaimsOK
    <3> QED
      BY <3>1, <3>2
  <2>2. alias' \in [Aslr -> 0 .. CodePages - 1 \cup {Unmapped}]
    BY <1>1, <2>1
  <2>3. stopped' \in BOOLEAN
    BY <1>1 DEF PagesInv, ClaimsOK
  <2> QED
    BY <1>5, <2>2, <2>3 DEF PagesInv, ClaimsOK, AlignedRo, AlignedSize
<1>17. AliasesOK'
  <2>1. ASSUME NEW a \in Aslr, alias'[a] # Unmapped
        PROVE  \E i \in Live : a \in claim[i].rw .. claim[i].rw + AlignedSize(claim[i]) - 1
                              /\ alias'[a] = AlignedRo(claim[i]) + a - claim[i].rw
    <3>1. CASE w + n - R <= a /\ a <= w + m - R
      <4>1. a \in w .. w + S - 1 /\ alias'[a] = R + a - w
        BY <1>2, <1>6, <1>12, <1>13, <3>1 DEF Aslr
      <4> QED
        BY <1>2, <4>1 DEF w, S, R
    <3>2. CASE ~(w + n - R <= a /\ a <= w + m - R)
      BY <1>13, <2>1, <3>2 DEF PagesInv, AliasesOK, Shows
    <3> QED
      BY <3>1, <3>2
  <2>2. ASSUME NEW i \in Live, i # current'.id, NEW p \in ClaimedPages(claim[i])
        PROVE  alias'[Alias(claim[i], p)] = p
    <3>1. /\ claim[i].rw \in Nat /\ AlignedRo(claim[i]) \in Nat
          /\ AlignedSize(claim[i]) \in Nat \ {0}
          /\ claim[i].rw + AlignedSize(claim[i]) <= AslrPages
      BY LiveClaims DEF PagesInv
    <3>2. CASE i # current.id
      <4> DEFINE a == Alias(claim[i], p)
      <4>1. alias[a] = p
        BY <3>2 DEF PagesInv, AliasesOK
      <4>2. a \in Nat /\ claim[i].rw <= a /\ a < claim[i].rw + AlignedSize(claim[i])
        BY <3>1 DEF Alias, ClaimedPages
      <4>3. a \in Aslr
        BY <1>6, <3>1, <4>2 DEF Aslr
      <4> HIDE DEF a
      <4>4. ~(w + n - R <= a /\ a <= w + m - R)
        BY <1>2, <1>9, <1>12, <3>1, <3>2, <4>2
      <4> QED
        BY <1>13, <4>1, <4>3, <4>4 DEF a
    <3>3. CASE i = current.id
      <4>1. m = last
        BY <1>2, <1>11, <2>2, <3>3
      <4>2. ClaimedPages(claim[i]) = R .. last /\ Alias(claim[i], p) = w + p - R
        BY <1>8, <3>3
      <4> QED
        BY <1>2, <1>15, <4>1, <4>2
    <3> QED
      BY <3>2, <3>3
  <2> QED
    BY <1>5, <2>1, <2>2 DEF AliasesOK, Shows, Alias, ClaimedPages, AlignedRo, AlignedSize
<1>18. CurrentOK'
  <2>1. CASE m = last
    BY <1>11, <2>1 DEF CurrentOK, NoneRunning
  <2>2. CASE m # last
    <3>1. current' = [current EXCEPT !.next = m + 1] /\ m + 1 \in Nat
      BY <1>11, <1>12, <2>2
    <3>2. /\ current' \in [id : Live, phase : {"map", "unmap"}, next : Nat]
          /\ current'.id = current.id /\ current'.phase = "map" /\ current'.next = m + 1
      BY <1>2, <1>10, <3>1
    <3>3. m + 1 \in R .. last
      BY <1>2, <1>11, <2>2
    <3>4. \A p \in R .. last : p < m + 1 => alias'[w + p - R] = p
      BY <1>2, <1>12, <1>15
    <3>5. claim'[current'.id] = c
      BY <1>5, <3>2
    <3> QED
      BY <1>5, <1>8, <3>2, <3>3, <3>4, <3>5 DEF CurrentOK
  <2> QED
    BY <2>1, <2>2
<1> QED
  BY <1>7, <1>16, <1>17, <1>18 DEF PagesInv

(* The same for a claim that is given up: the last range takes it, and what *)
(* was reserved for it, off the lists.                                      *)
LEMMA UnmapRangeStep == ASSUME PagesInv, UnmapRange PROVE PagesInv'
<1> DEFINE c == claim[current.id]
           now == RangeFrom(c, current.next)
           w == c.rw
           R == AlignedRo(c)
           S == AlignedSize(c)
           n == current.next
           last == R + S - 1
<1>1. /\ current.phase = "unmap" /\ stopped' = stopped
      /\ alias' = [a \in Aslr |-> IF \E p \in now : a = w + p - R THEN Unmapped ELSE alias[a]]
      /\ IF last \in now
         THEN /\ current' = NoneRunning
              /\ claim' = [claim EXCEPT ![current.id] = NoClaim]
              /\ reserved' = {r \in reserved : r.from # w}
         ELSE /\ current' = [current EXCEPT !.next = n + Cardinality(now)]
              /\ UNCHANGED <<claim, reserved>>
  BY DEF UnmapRange, Alias
<1>2. /\ current.id \in Live
      /\ current \in [id : Live, phase : {"map", "unmap"}, next : Nat]
      /\ w \in Nat /\ R \in Nat /\ S \in Nat \ {0}
      /\ w + S <= AslrPages /\ R + S <= CodePages
      /\ n \in R .. last
  BY <1>1, AtRange
<1>3. \A p \in R .. last : p < n => alias[w + p - R] = Unmapped
  BY <1>1, AtRange
<1>4. IF last \in now THEN now = n .. last
      ELSE \E m \in n .. last - 1 : now = n .. m /\ Cardinality(now) = m - n + 1
  BY <1>1, AtRange
<1>5. AslrPages \in Nat /\ CodePages \in Nat
  BY PagesAssumption
<1>6. ClaimedPages(c) = R .. last /\ \A p : Alias(c, p) = w + p - R
  BY DEF ClaimedPages, Alias
<1>7. \A i \in Live : i # current.id =>
        claim[i].rw + AlignedSize(claim[i]) <= w \/ w + S <= claim[i].rw
  BY <1>2 DEF PagesInv, ClaimsAreDisjoint, Disjoint
<1>8. current.phase = "unmap"
  BY <1>1
<1>9. \A a \in Aslr : Shows(c, a) => a \in w .. w + S - 1
  BY DEF Shows
<1> HIDE DEF now, w, R, S, n
<1>10. PICK m \in n .. last :
        /\ now = n .. m
        /\ IF m = last
           THEN /\ current' = NoneRunning
                /\ claim' = [claim EXCEPT ![current.id] = NoClaim]
                /\ reserved' = {r \in reserved : r.from # w}
           ELSE /\ current' = [current EXCEPT !.next = m + 1]
                /\ UNCHANGED <<claim, reserved>>
  <2>1. CASE last \in now
    BY <1>1, <1>2, <1>4, <2>1
  <2>2. CASE last \notin now
    <3>1. PICK k \in n .. last - 1 : now = n .. k /\ Cardinality(now) = k - n + 1
      BY <1>4, <2>2
    <3>2. n + Cardinality(now) = k + 1
      BY <1>2, <3>1
    <3>3. current' = [current EXCEPT !.next = k + 1] /\ UNCHANGED <<claim, reserved>>
      BY <1>1, <2>2, <3>2
    <3>4. k \in n .. last /\ k # last
      BY <1>2, <3>1
    <3> QED
      BY <3>1, <3>3, <3>4
  <2> QED
    BY <2>1, <2>2
<1>11. n \in Nat /\ m \in Nat /\ n <= m /\ R <= n /\ m < R + S
  BY <1>2, <1>10
<1>12. \A a \in Aslr :
        alias'[a] = IF w + n - R <= a /\ a <= w + m - R THEN Unmapped ELSE alias[a]
  <2> TAKE a \in Aslr
  <2>1. a \in Nat
    BY <1>5 DEF Aslr
  <2>2. ASSUME w + n - R <= a, a <= w + m - R
        PROVE  R + a - w \in n .. m /\ a = w + (R + a - w) - R
    BY <1>2, <1>11, <2>1, <2>2
  <2>3. ASSUME NEW p \in n .. m, a = w + p - R
        PROVE  w + n - R <= a /\ a <= w + m - R
    BY <1>2, <1>11, <2>3
  <2>4. (\E p \in now : a = w + p - R) <=> w + n - R <= a /\ a <= w + m - R
    BY <1>10, <2>2, <2>3
  <2> QED
    BY <1>1, <2>4
<1>13. \A p \in R .. last : w + p - R \in Aslr
  BY <1>2, <1>5 DEF Aslr
<1>14. \A p \in R .. last : p <= m => alias'[w + p - R] = Unmapped
  <2> TAKE p \in R .. last
  <2>1. CASE p < n
    <3>1. p \in Nat /\ ~(w + n - R <= w + p - R)
      BY <1>2, <1>11, <2>1
    <3> QED
      BY <1>3, <1>12, <1>13, <2>1, <3>1
  <2>2. CASE n <= p /\ p <= m
    <3>1. w + n - R <= w + p - R /\ w + p - R <= w + m - R
      BY <1>2, <1>11, <2>2
    <3> QED
      BY <1>12, <1>13, <3>1
  <2> QED
    BY <1>2, <1>11, <2>1, <2>2
<1>15. alias' \in [Aslr -> 0 .. CodePages - 1 \cup {Unmapped}]
  <2>1. \A a \in Aslr : alias'[a] \in 0 .. CodePages - 1 \cup {Unmapped}
    BY <1>12 DEF PagesInv, ClaimsOK
  <2> QED
    BY <1>1, <2>1
<1>16. ASSUME NEW a \in Aslr, alias'[a] # Unmapped
       PROVE  /\ alias'[a] = alias[a] /\ \E i \in Live : Shows(claim[i], a)
              /\ m = last => a \notin w .. w + S - 1
  <2>1. ~(w + n - R <= a /\ a <= w + m - R) /\ alias'[a] = alias[a]
    BY <1>12, <1>16
  <2>2. \E i \in Live : Shows(claim[i], a)
    BY <1>16, <2>1 DEF PagesInv, AliasesOK
  <2>3. ASSUME m = last, a \in w .. w + S - 1 PROVE FALSE
    <3>1. R + a - w \in R .. last /\ R + a - w <= m /\ w + (R + a - w) - R = a
      BY <1>2, <2>3
    <3> QED
      BY <1>14, <1>16, <3>1
  <2> QED
    BY <2>1, <2>2, <2>3
<1>17. ASSUME NEW i \in Live, i # current.id, NEW p \in ClaimedPages(claim[i])
       PROVE  alias'[Alias(claim[i], p)] = p
  <2>1. /\ claim[i].rw \in Nat /\ AlignedRo(claim[i]) \in Nat
        /\ AlignedSize(claim[i]) \in Nat \ {0}
        /\ claim[i].rw + AlignedSize(claim[i]) <= AslrPages
    BY LiveClaims DEF PagesInv
  <2> DEFINE a == Alias(claim[i], p)
  <2>2. alias[a] = p
    BY <1>17 DEF PagesInv, AliasesOK
  <2>3. a \in Nat /\ claim[i].rw <= a /\ a < claim[i].rw + AlignedSize(claim[i])
    BY <2>1 DEF Alias, ClaimedPages
  <2>4. a \in Aslr
    BY <1>5, <2>1, <2>3 DEF Aslr
  <2> HIDE DEF a
  <2>5. ~(w + n - R <= a /\ a <= w + m - R)
    BY <1>2, <1>7, <1>11, <1>17, <2>1, <2>3
  <2> QED
    BY <1>12, <2>2, <2>4, <2>5 DEF a
<1>18. CASE m # last
  <2>1. current' = [current EXCEPT !.next = m + 1] /\ m + 1 \in Nat
        /\ claim' = claim /\ reserved' = reserved
    BY <1>10, <1>11, <1>18
  <2>2. Live' = Live
    BY <2>1 DEF Live
  <2>3. /\ current' \in [id : Live, phase : {"map", "unmap"}, next : Nat]
        /\ current'.id = current.id /\ current'.phase = "unmap" /\ current'.next = m + 1
    BY <1>2, <1>8, <2>1
  <2>4. ClaimsOK'
    BY <1>1, <1>15, <2>1, <2>2 DEF PagesInv, ClaimsOK
  <2>5. ClaimsAreDisjoint'
    BY <2>1, <2>2 DEF PagesInv, ClaimsAreDisjoint, ReservedFor
  <2>6. AliasesOK'
    <3>1. \A a \in Aslr : alias'[a] # Unmapped => \E i \in Live : Shows(claim[i], a)'
      BY <1>16, <2>1 DEF Shows
    <3>2. \A i \in Live : i # current'.id =>
            \A p \in ClaimedPages(claim[i]) : alias'[Alias(claim[i], p)] = p
      BY <1>17, <2>3
    <3> QED
      BY <2>1, <2>2, <3>1, <3>2 DEF AliasesOK
  <2>7. CurrentOK'
    <3>1. m + 1 \in R .. last
      BY <1>2, <1>10, <1>18
    <3>2. \A p \in R .. last : p < m + 1 => alias'[w + p - R] = Unmapped
      BY <1>2, <1>11, <1>14
    <3>3. claim'[current'.id] = c
      BY <2>1, <2>3
    <3> QED
      BY <1>6, <2>2, <2>3, <3>1, <3>2, <3>3 DEF CurrentOK
  <2> QED
    BY <2>4, <2>5, <2>6, <2>7 DEF PagesInv
<1>19. CASE m = last
  <2>1. /\ current' = NoneRunning
        /\ claim' = [claim EXCEPT ![current.id] = NoClaim]
        /\ reserved' = {r \in reserved : r.from # w}
    BY <1>10, <1>19
  <2>2. Live' = Live \ {current.id} /\ \A i \in Live' : claim'[i] = claim[i]
    BY <1>2, <2>1 DEF PagesInv, ClaimsOK, Live
  <2>3. ClaimsOK'
    <3>1. claim' \in [Claims -> Claim \cup {NoClaim}]
      BY <2>1 DEF PagesInv, ClaimsOK
    <3> QED
      BY <1>1, <1>15, <2>2, <3>1 DEF PagesInv, ClaimsOK
  <2>4. ClaimsAreDisjoint'
    <3>1. \A i \in Live' : claim[i].rw # w
      <4> TAKE i \in Live'
      <4>1. claim[i].rw \in Nat /\ AlignedSize(claim[i]) \in Nat \ {0} /\ i \in Live /\ i # current.id
        BY <2>2, LiveClaims DEF PagesInv
      <4> QED
        BY <1>2, <1>7, <4>1
    <3>2. claim[current.id].rw = w
      BY DEF w
    <3>3. reserved' = {ReservedFor(claim[i]) : i \in Live'}
      BY <2>1, <2>2, <3>1, <3>2 DEF PagesInv, ClaimsAreDisjoint, ReservedFor
    <3>4. reserved' = {ReservedFor(claim'[i]) : i \in Live'}
      BY <2>2, <3>3
    <3>5. \A i, j \in Live' : i # j => Disjoint(claim'[i], claim'[j])
      BY <2>2 DEF PagesInv, ClaimsAreDisjoint
    <3> QED
      BY <3>4, <3>5 DEF ClaimsAreDisjoint, ReservedFor
  <2>5. AliasesOK'
    <3>1. ASSUME NEW a \in Aslr, alias'[a] # Unmapped
          PROVE  \E i \in Live' : Shows(claim[i], a)'
      <4>1. PICK i \in Live : Shows(claim[i], a)
        BY <1>16, <3>1
      <4>2. i # current.id
        BY <1>9, <1>16, <1>19, <3>1, <4>1
      <4> QED
        BY <1>16, <2>2, <3>1, <4>1, <4>2 DEF Shows
    <3>2. \A i \in Live' : \A p \in ClaimedPages(claim'[i]) : alias'[Alias(claim'[i], p)] = p
      BY <1>17, <2>2
    <3> QED
      BY <3>1, <3>2 DEF AliasesOK
  <2>6. CurrentOK'
    BY <2>1 DEF CurrentOK, NoneRunning
  <2> QED
    BY <2>3, <2>4, <2>5, <2>6 DEF PagesInv
<1> QED
  BY <1>18, <1>19

(* What the steps keep is what the property says. *)
LEMMA PagesInvClaims == PagesInv => AliasesAreClaimed
<1> SUFFICES ASSUME PagesInv PROVE AliasesAreClaimed
  OBVIOUS
<1> DEFINE region(i) == claim[i].rw .. claim[i].rw + AlignedSize(claim[i]) - 1
<1>1. ASSUME NEW i \in Live
      PROVE  \A a \in region(i) : a \in Nat /\ claim[i].rw <= a
                               /\ a < claim[i].rw + AlignedSize(claim[i])
  <2>1. claim[i].rw \in Nat /\ AlignedRo(claim[i]) \in Nat /\ AlignedSize(claim[i]) \in Nat \ {0}
    BY LiveClaims DEF PagesInv
  <2> QED
    BY <2>1 DEF Alias, ClaimedPages
<1>2. ASSUME NEW i \in Live, NEW j \in Live, i # j
      PROVE  region(i) \cap region(j) = {}
  <2>1. Disjoint(claim[i], claim[j])
    BY <1>2 DEF PagesInv, ClaimsAreDisjoint
  <2>2. /\ claim[i].rw \in Nat /\ AlignedSize(claim[i]) \in Nat
        /\ claim[j].rw \in Nat /\ AlignedSize(claim[j]) \in Nat
    BY LiveClaims DEF PagesInv
  <2>3. ASSUME NEW a \in region(i), a \in region(j) PROVE FALSE
    <3>1. /\ a \in Nat /\ claim[i].rw <= a /\ a < claim[i].rw + AlignedSize(claim[i])
          /\ claim[j].rw <= a /\ a < claim[j].rw + AlignedSize(claim[j])
      BY <1>1, <2>3
    <3> QED
      BY <2>1, <2>2, <3>1 DEF Disjoint
  <2> QED
    BY <2>3
<1>3. ASSUME NEW a \in Aslr, alias[a] # Unmapped
      PROVE  \E i \in Live : a \in region(i) /\ alias[a] = AlignedRo(claim[i]) + a - claim[i].rw
  <2>1. PICK i \in Live : Shows(claim[i], a)
    BY <1>3 DEF PagesInv, AliasesOK
  <2>2. claim[i].rw \in Nat /\ AlignedRo(claim[i]) \in Nat /\ AlignedSize(claim[i]) \in Nat \ {0}
    BY LiveClaims DEF PagesInv
  <2>3. a \in region(i) /\ alias[a] = AlignedRo(claim[i]) + a - claim[i].rw
    BY <2>1, <2>2, PagesAssumption DEF Shows, Aslr
  <2> QED
    BY <2>3
<1>4. reserved = {[from |-> claim[i].rw, to |-> claim[i].rw + AlignedSize(claim[i])] : i \in Live}
  BY DEF PagesInv, ClaimsAreDisjoint, ReservedFor
<1>5. \A i \in Live : i # current.id /\ ~stopped =>
        \A p \in ClaimedPages(claim[i]) : alias[Alias(claim[i], p)] = p
  BY DEF PagesInv, AliasesOK
<1> QED
  BY <1>2, <1>3, <1>4, <1>5 DEF AliasesAreClaimed, Live

-----------------------------------------------------------------------------
(* The hooks: what each has written, and what it has kept.                 *)

Word == {"orig", "nop", "ldr", "br", "b", "lit"} \X Nat

Hook == [kind : Kinds, at : Functions, near : BOOLEAN, direct : BOOLEAN,
         kept : Seq(Word), back : Nat]

(* The newest of the first n hooks on f, and the newest far one; 0 if none. *)
Newest(n, f, m) ==
  /\ m \in 0 .. n /\ (m # 0 => hooks[m].at = f)
  /\ \A j \in 1 .. n : j > m => hooks[j].at # f

NewestFar(n, f, m) ==
  /\ m \in 0 .. n /\ (m # 0 => hooks[m].at = f /\ ~hooks[m].near)
  /\ \A j \in 1 .. n : j > m /\ hooks[j].at = f => hooks[j].near

(* The k-th word, from 0, that a far hook m writes at f. *)
FarWord(m, f, k) ==
  IF k < f % 2 THEN Nop ELSE IF k = f % 2 THEN LoadX17
  ELSE IF k = (f % 2) + 1 THEN BranchX17 ELSE Literal(m)

(* The first word of f is the newest hook's, the others are the newest far  *)
(* hook's as far as those go.                                               *)
First(m, f) ==
  IF m = 0 THEN Orig(f) ELSE IF hooks[m].near THEN Branch(m) ELSE FarWord(m, f, 0)

Later(far, f, k) ==
  IF far # 0 /\ k < 4 + (f % 2) THEN FarWord(far, f, k) ELSE Orig(f + k)

CodeShape(n) ==
  \A f \in Functions, m, far \in 0 .. n : Newest(n, f, m) /\ NewestFar(n, f, far) =>
    /\ code[f] = First(m, f)
    /\ \A k \in 1 .. FunctionWords - 1 : code[f + k] = Later(far, f, k)

(* A kept load has its literal with it: the hook that wrote it. *)
Kept(word, m) == IF word = LoadX17 THEN <<"ldr", m>> ELSE word

KeptShape(h) ==
  \A f \in Functions, c \in 1 .. 5, m, far \in 0 .. h - 1 :
    f = hooks[h].at /\ c = Count(hooks[h]) /\ Newest(h - 1, f, m) /\ NewestFar(h - 1, f, far) =>
    /\ Len(hooks[h].kept) = c /\ hooks[h].back = f + c
    /\ hooks[h].kept[1] = Kept(First(m, f), m)
    /\ \A k \in 2 .. c : hooks[h].kept[k] = Kept(Later(far, f, k - 1), far)

(* The hooks whose words are written. *)
Written == IF step = "window" THEN Len(hooks) - 1 ELSE Len(hooks)

HooksOK ==
  /\ code \in [Words -> Word] /\ hooks \in Seq(Hook)
  /\ step \in {"idle", "window", "written", "closed"}
  /\ step # "idle" => hooks # <<>> /\ patcher = NoPatcher
  /\ \A h \in DOMAIN hooks :
       hooks[h].kind = "inline" /\ (h < Len(hooks) \/ step = "idle") => h \in entries

ShapesOK ==
  /\ CodeShape(Written)
  /\ \A h \in 1 .. Written : hooks[h].kind # "replace" => KeptShape(h)

(* A patcher has not left what it wrote behind. *)
PatchingOK ==
  /\ patcher \in [kind : {"none", "stream", "random"}, start : Int, current : Int]
  /\ patcher.start <= patcher.current
  /\ patched \in 0 .. MaxPatches /\ stale \subseteq Words
  /\ CodeIsCoherent

PoolsOK == Cardinality(Trampolines) <= HookMax + 1 /\ Cardinality(Inlines) <= InlineMax

IInv == PagesInv /\ HooksOK /\ ShapesOK /\ PatchingOK /\ PoolsOK

LEMMA PatchWords ==
  ASSUME NEW n, NEW h, h.at \in Nat, h.near \in BOOLEAN
  PROVE  /\ Count(h) \in 1 .. 5
         /\ h.near => Count(h) = 1 /\ Patch(n, h)[1] = Branch(n)
         /\ ~h.near => /\ Count(h) = 4 + (h.at % 2)
                       /\ \A k \in 1 .. Count(h) : Patch(n, h)[k] = FarWord(n, h.at, k - 1)
<1>1. h.at % 2 \in {0, 1}
  OBVIOUS
<1>2. CASE h.near
  <2>1. Count(h) = 1 /\ Patch(n, h) = <<Branch(n)>>
    BY <1>2 DEF Count, Patch
  <2> QED
    BY <1>2, <2>1
<1>3. CASE ~h.near /\ h.at % 2 = 0
  <2>1. Count(h) = 4
    BY <1>3 DEF Count
  <2>2. Patch(n, h) = <<LoadX17, BranchX17, Literal(n), Literal(n)>>
    BY <1>3, <2>1 DEF Patch
  <2>3. \A k \in 1 .. 4 : Patch(n, h)[k] = FarWord(n, h.at, k - 1)
    BY <1>3, <2>2 DEF FarWord
  <2>4. Count(h) = 4 + (h.at % 2) /\ ~h.near
    BY <1>3, <2>1
  <2>5. Count(h) \in 1 .. 5 /\ \A k \in 1 .. Count(h) : Patch(n, h)[k] = FarWord(n, h.at, k - 1)
    BY <2>1, <2>3
  <2> QED
    BY <2>4, <2>5, Zenon
<1>4. CASE ~h.near /\ h.at % 2 = 1
  <2>1. Count(h) = 5
    BY <1>4 DEF Count
  <2>2. Patch(n, h) = <<Nop>> \o <<LoadX17, BranchX17, Literal(n), Literal(n)>>
    BY <1>4, <2>1 DEF Patch
  <2>3. \A k \in 1 .. 5 : Patch(n, h)[k] = FarWord(n, h.at, k - 1)
    BY <1>4, <2>2 DEF FarWord
  <2>4. Count(h) = 4 + (h.at % 2) /\ ~h.near
    BY <1>4, <2>1
  <2>5. Count(h) \in 1 .. 5 /\ \A k \in 1 .. Count(h) : Patch(n, h)[k] = FarWord(n, h.at, k - 1)
    BY <2>1, <2>3
  <2> QED
    BY <2>4, <2>5, Zenon
<1> QED
  BY <1>1, <1>2, <1>3, <1>4

(* There is a newest hook on f, or none, and so with the far ones. *)
LEMMA NewestExists ==
  ASSUME NEW n \in Nat, NEW f
  PROVE  (\E m \in 0 .. n : Newest(n, f, m)) /\ (\E m \in 0 .. n : NewestFar(n, f, m))
<1>1. ASSUME NEW S, S \subseteq 1 .. n
      PROVE  \E m \in 0 .. n : (m # 0 => m \in S) /\ \A j \in 1 .. n : j > m => j \notin S
  <2> DEFINE T == {m \in Nat : m <= n /\ \A j \in 1 .. n : j > m => j \notin S}
  <2>1. n \in T /\ T \subseteq Nat
    OBVIOUS
  <2> HIDE DEF T
  <2>2. PICK m \in T : \A k \in T : m <= k
    BY <2>1, LeastNat
  <2>3. m \in 0 .. n /\ \A j \in 1 .. n : j > m => j \notin S
    BY <2>2 DEF T
  <2>4. ASSUME m # 0 PROVE m \in S
    <3>1. m - 1 \notin T
      BY <2>2, <2>3, <2>4, <2>1
    <3>2. PICK j \in 1 .. n : j > m - 1 /\ j \in S
      BY <2>3, <2>4, <3>1 DEF T
    <3>3. j = m
      BY <2>3, <3>2
    <3> QED
      BY <3>2, <3>3
  <2> QED
    BY <2>3, <2>4
<1>2. PICK m \in 0 .. n :
        /\ m # 0 => m \in {j \in 1 .. n : hooks[j].at = f}
        /\ \A j \in 1 .. n : j > m => j \notin {i \in 1 .. n : hooks[i].at = f}
  BY <1>1
<1>3. PICK far \in 0 .. n :
        /\ far # 0 => far \in {j \in 1 .. n : hooks[j].at = f /\ ~hooks[j].near}
        /\ \A j \in 1 .. n : j > far => j \notin {i \in 1 .. n : hooks[i].at = f /\ ~hooks[i].near}
  BY <1>1
<1> QED
  BY <1>2, <1>3 DEF Newest, NewestFar

-----------------------------------------------------------------------------
(* The aliases are kept by every step.                                     *)

LEMMA WholePages ==
  ASSUME NEW k \in Nat, NEW b \in Nat \ {0}, NEW r \in 0 .. b - 1
  PROVE  (k * b + r) \div b = k
OBVIOUS

LEMMA PagesOfCode ==
  /\ AlignedRo([ro |-> 0, size |-> MainPages * PageWords]) = 0
  /\ AlignedSize([ro |-> 0, size |-> MainPages * PageWords]) = MainPages
  /\ \A k \in Nat : /\ AlignedRo([ro |-> k * PageWords, size |-> PageWords]) = k
                    /\ AlignedSize([ro |-> k * PageWords, size |-> PageWords]) = 1
  /\ \A f \in Functions, size \in {1, 5} :
       /\ f \in Nat /\ AlignedRo([ro |-> f, size |-> size]) < MainPages
       /\ AlignedSize([ro |-> f, size |-> size]) = 1
<1> DEFINE P == PageWords
<1>1. P \in Nat \ {0} /\ P >= 5 /\ MainPages \in Nat \ {0}
  BY PagesAssumption, HooksAssumption
<1>2. \A k \in Nat, r \in 0 .. P - 1 : (k * P + r) \div P = k
  BY <1>1, WholePages
<1> HIDE DEF P
<1>3. AlignedRo([ro |-> 0, size |-> MainPages * PageWords]) = 0
  BY <1>1 DEF AlignedRo, P
<1>4. AlignedSize([ro |-> 0, size |-> MainPages * PageWords]) = MainPages
  <2>1. (MainPages * P + (P - 1)) \div P = MainPages
    BY <1>1, <1>2
  <2>2. MainPages * P + (P - 1) = MainPages * P + P - 1
    BY <1>1
  <2> QED
    BY <2>1, <2>2 DEF AlignedSize, P
<1>5. ASSUME NEW k \in Nat
      PROVE  /\ AlignedRo([ro |-> k * PageWords, size |-> PageWords]) = k
             /\ AlignedSize([ro |-> k * PageWords, size |-> PageWords]) = 1
  <2>1. (k * P + 0) \div P = k /\ k * P + 0 = k * P
    BY <1>1, <1>2
  <2>2. (1 * P + (P - 1)) \div P = 1 /\ 1 * P + (P - 1) = P + P - 1
    BY <1>1, <1>2
  <2>3. (k * P) \div P = k
    BY <2>1
  <2>4. (P + P - 1) \div P = 1
    BY <2>2
  <2> QED
    BY <2>3, <2>4 DEF AlignedRo, AlignedSize, P
<1>6. ASSUME NEW f \in Functions, NEW size \in {1, 5}
      PROVE  /\ f \in Nat /\ AlignedRo([ro |-> f, size |-> size]) < MainPages
             /\ AlignedSize([ro |-> f, size |-> size]) = 1
  <2>1. f \in Nat /\ f < MainPages * P
    <3>1. f \in Nat /\ f + FunctionWords <= MainPages * P /\ FunctionWords \in Nat /\ FunctionWords >= 5
      BY HooksAssumption DEF P
    <3> DEFINE all == MainPages * P
    <3>2. all \in Nat
      BY <1>1
    <3> HIDE DEF all
    <3>3. f + FunctionWords <= all
      BY <3>1 DEF all
    <3>4. f < all
      BY <3>1, <3>2, <3>3
    <3> QED
      BY <3>1, <3>4 DEF all
  <2>2. f \div P \in Nat /\ (f \div P) * P <= f
    BY <1>1, <2>1
  <2> DEFINE q == f \div P
  <2> HIDE DEF q
  <2>3. q < MainPages
    <3>1. ASSUME q >= MainPages PROVE FALSE
      <4>1. PICK d \in Nat : q = MainPages + d
        <5>1. q - MainPages \in Nat /\ q = MainPages + (q - MainPages)
          BY <1>1, <2>2, <3>1 DEF q
        <5> QED
          BY <5>1
      <4>2. q * P = MainPages * P + d * P /\ d * P >= 0
        BY <1>1, <4>1
      <4>3. MainPages * P <= q * P
        BY <1>1, <4>1, <4>2
      <4> QED
        BY <1>1, <2>1, <2>2, <4>3 DEF q
    <3> QED
      BY <1>1, <2>2, <3>1 DEF q
  <2>4. (1 * P + (size - 1)) \div P = 1 /\ 1 * P + (size - 1) = size + P - 1
    BY <1>1, <1>2
  <2>5. (size + P - 1) \div P = 1
    BY <2>4
  <2> QED
    BY <2>1, <2>3, <2>5 DEF AlignedRo, AlignedSize, P, q
<1> QED
  BY <1>3, <1>4, <1>5, <1>6

LEMMA PagesStep == PagesInv /\ HooksOK /\ [Next]_vars => PagesInv'
<1> SUFFICES ASSUME PagesInv, HooksOK, [Next]_vars PROVE PagesInv'
  OBVIOUS
<1>1. CASE InitPatcherImpl
  <2>1. "patcher" \in Claims /\ MainPages * PageWords \in Nat \ {0} /\ 0 + MainPages <= CodePages
    BY PagesAssumption, HooksAssumption
  <2> QED
    BY <1>1, <2>1, PagesOfCode, ConstructStep DEF InitPatcherImpl
<1>2. CASE InitializeJit
  <2>1. "jit" \in Claims /\ MainPages * PageWords \in Nat /\ PageWords \in Nat \ {0}
        /\ MainPages + 1 <= CodePages /\ MainPages \in Nat
    BY PagesAssumption, HooksAssumption
  <2> QED
    BY <1>2, <2>1, PagesOfCode, ConstructStep DEF InitializeJit
<1>3. CASE InitializeInline
  <2>1. "inline" \in Claims /\ (MainPages + 1) * PageWords \in Nat /\ PageWords \in Nat \ {0}
        /\ MainPages + 1 + 1 <= CodePages /\ MainPages + 1 \in Nat
    BY PagesAssumption, HooksAssumption
  <2> QED
    BY <1>3, <2>1, PagesOfCode, ConstructStep DEF InitializeInline
<1>4. ASSUME NEW kind \in Kinds, NEW f \in Functions, NEW near \in BOOLEAN,
             NEW direct \in BOOLEAN, BeginHook(kind, f, near, direct)
      PROVE  PagesInv'
  <2> DEFINE size == IF near THEN 1 ELSE 5
  <2>1. "window" \in Claims /\ size \in {1, 5} /\ MainPages \in Nat /\ MainPages + 2 <= CodePages
        /\ CodePages \in Nat
    BY PagesAssumption, HooksAssumption
  <2>2. Construct("window", f, size)
    BY <1>4 DEF BeginHook
  <2> HIDE DEF size
  <2> DEFINE asked == [ro |-> f, size |-> size]
  <2>3. f \in Nat /\ size \in Nat \ {0} /\ AlignedRo(asked) < MainPages /\ AlignedSize(asked) = 1
    <3>1. size \in {1, 5}
      BY <2>1
    <3>2. f \in Nat /\ AlignedRo(asked) < MainPages /\ AlignedSize(asked) = 1
      BY <3>1, PagesOfCode, Zenon
    <3> QED
      BY <3>1, <3>2
  <2>4. AlignedRo(asked) + AlignedSize(asked) <= CodePages
    <3>1. asked.ro \in Nat /\ asked.size \in Nat \ {0}
      BY <2>3
    <3>2. AlignedRo(asked) \in Nat
      BY <3>1, Sizes
    <3> QED
      BY <2>1, <2>3, <3>2
  <2> QED
    BY <2>1, <2>2, <2>3, <2>4, ConstructStep
<1>5. CASE CloseWindow
  BY <1>5, HooksAssumption, DestroyStep DEF CloseWindow
<1>6. CASE Mapping
  BY <1>6, MapRangeStep, UnmapRangeStep, RangeFailsStep DEF Mapping
<1>7. CASE FindAslrFails
  BY <1>7, FindFailsStep, HooksAssumption DEF FindAslrFails
<1>8. CASE UNCHANGED pages
  BY <1>8, PagesStutter
<1>9. ASSUME NEW kind \in Kinds, HookAborts(kind) PROVE PagesInv'
  BY <1>9 DEF HookAborts, PagesInv, ClaimsOK, ClaimsAreDisjoint, AliasesOK, CurrentOK, Live,
     Shows, ReservedFor
<1>10. (\E w \in Words : (\E kind \in {"stream", "random"} : BeginPatch(kind, w))
                      \/ WriteRandom(w) \/ Seek(w))
       \/ WriteStream \/ EndPatch \/ HookFuncImpl \/ EndHook \/ Stopped \/ UNCHANGED vars
       => UNCHANGED pages
  BY DEF BeginPatch, WriteRandom, Seek, WriteStream, EndPatch, HookFuncImpl, EndHook, Stopped, vars
<1> QED
  BY <1>1, <1>2, <1>3, <1>4, <1>5, <1>6, <1>7, <1>8, <1>9, <1>10 DEF Next

-----------------------------------------------------------------------------
(* What a patcher has written is always in the range it will flush.        *)
LEMMA PatchingStep == HooksOK /\ PatchingOK /\ [Next]_vars => PatchingOK'
<1> SUFFICES ASSUME HooksOK, PatchingOK, [Next]_vars PROVE PatchingOK'
  OBVIOUS
<1>1. /\ patcher.start \in Int /\ patcher.current \in Int /\ patcher.start <= patcher.current
      /\ patcher.kind \in {"none", "stream", "random"} /\ stale \subseteq Words
      /\ \A w \in stale : patcher.start <= w /\ w < patcher.current
      /\ patched \in 0 .. MaxPatches /\ MaxPatches \in Nat
      /\ \A w \in Words : w \in Int
  BY HooksAssumption DEF PatchingOK, CodeIsCoherent, Words
<1>2. CASE UNCHANGED <<patching, stale>>
  BY <1>2 DEF PatchingOK, CodeIsCoherent, patching
<1>3. ASSUME NEW w \in Words, NEW kind \in {"stream", "random"}, BeginPatch(kind, w)
      PROVE  PatchingOK'
  <2>1. /\ patcher' = [kind |-> kind, start |-> w, current |-> w]
        /\ patcher = NoPatcher /\ patched' = patched /\ stale' = stale
    BY <1>3 DEF BeginPatch
  <2>2. stale = {}
    BY <1>1, <2>1 DEF NoPatcher
  <2> QED
    BY <1>1, <2>1, <2>2 DEF PatchingOK, CodeIsCoherent
<1>4. CASE WriteStream
  <2>1. /\ patcher.current \in Words /\ patched < MaxPatches
        /\ stale' = stale \cup {patcher.current} /\ patched' = patched + 1
        /\ patcher' = [patcher EXCEPT !.current = @ + 1]
    BY <1>4 DEF WriteStream
  <2>2. /\ patcher'.start = patcher.start /\ patcher'.current = patcher.current + 1
        /\ patcher' \in [kind : {"none", "stream", "random"}, start : Int, current : Int]
    BY <1>1, <2>1 DEF PatchingOK
  <2>3. patched' \in 0 .. MaxPatches
    BY <1>1, <2>1
  <2>4. stale' \subseteq patcher'.start .. patcher'.current - 1
    BY <1>1, <2>1, <2>2
  <2> QED
    BY <1>1, <2>1, <2>2, <2>3, <2>4 DEF PatchingOK, CodeIsCoherent
<1>5. ASSUME NEW w \in Words, WriteRandom(w) PROVE PatchingOK'
  <2>1. /\ patched < MaxPatches /\ stale' = stale \cup {w} /\ patched' = patched + 1
        /\ patcher' = [patcher EXCEPT
             !.start = IF Unset \/ w < @ THEN w ELSE @,
             !.current = IF Unset \/ w + 1 > @ THEN w + 1 ELSE @]
    BY <1>5 DEF WriteRandom
  <2> DEFINE first == IF Unset \/ w < patcher.start THEN w ELSE patcher.start
             next == IF Unset \/ w + 1 > patcher.current THEN w + 1 ELSE patcher.current
  <2>2. patcher' = [patcher EXCEPT !.start = first, !.current = next]
    BY <2>1
  <2>8. first \in Int /\ next \in Int
    BY <1>1
  <2>9. first = (IF Unset \/ w < patcher.start THEN w ELSE patcher.start)
        /\ next = (IF Unset \/ w + 1 > patcher.current THEN w + 1 ELSE patcher.current)
    OBVIOUS
  <2> HIDE DEF first, next
  <2>3. /\ patcher' \in [kind : {"none", "stream", "random"}, start : Int, current : Int]
        /\ patcher'.start = first /\ patcher'.current = next
    BY <1>1, <2>2, <2>8 DEF PatchingOK
  <2>4. patched' \in 0 .. MaxPatches
    BY <1>1, <2>1
  <2>5. /\ patcher'.start <= w /\ w < patcher'.current
        /\ \A v \in stale : patcher'.start <= v /\ v < patcher'.current
    BY <1>1, <2>3, <2>8, <2>9 DEF Unset
  <2>6. stale' \subseteq patcher'.start .. patcher'.current - 1
    BY <1>1, <2>1, <2>3, <2>5
  <2>7. patcher'.start <= patcher'.current
    BY <1>1, <2>3, <2>5
  <2> QED
    BY <1>1, <2>1, <2>3, <2>4, <2>6, <2>7 DEF PatchingOK, CodeIsCoherent
<1>6. ASSUME NEW w \in Words, Seek(w) PROVE PatchingOK'
  <2>1. /\ stale' = stale \ (patcher.start .. patcher.current - 1) /\ patched' = patched
        /\ patcher' = [patcher EXCEPT !.start = w, !.current = w]
    BY <1>6 DEF Seek, Flush
  <2>2. stale' = {}
    BY <2>1 DEF PatchingOK, CodeIsCoherent
  <2>3. /\ patcher'.start = w /\ patcher'.current = w
        /\ patcher' \in [kind : {"none", "stream", "random"}, start : Int, current : Int]
    BY <1>1, <2>1 DEF PatchingOK
  <2> QED
    BY <1>1, <2>1, <2>2, <2>3 DEF PatchingOK, CodeIsCoherent
<1>7. CASE EndPatch
  <2>1. /\ stale' = stale \ (patcher.start .. patcher.current - 1)
        /\ patched' = 0 /\ patcher' = NoPatcher
    BY <1>7 DEF EndPatch, Flush
  <2>2. stale' = {}
    BY <2>1 DEF PatchingOK, CodeIsCoherent
  <2>3. /\ NoPatcher \in [kind : {"none", "stream", "random"}, start : Int, current : Int]
        /\ NoPatcher.start <= NoPatcher.current
    BY DEF NoPatcher
  <2>4. patched' \in 0 .. MaxPatches
    BY <1>1, <2>1
  <2> QED
    BY <2>1, <2>2, <2>3, <2>4 DEF PatchingOK, CodeIsCoherent
<1>8. CASE HookFuncImpl
  <2> DEFINE h == hooks[Len(hooks)]
             written == h.at .. h.at + Count(h) - 1
  <2>1. /\ stale' = (stale \cup written) \ Flushed(h)
        /\ patcher' = patcher /\ patched' = patched /\ step = "window"
    BY <1>8 DEF HookFuncImpl, Overwrite, patching
  <2>2. h.at \in Nat /\ h.near \in BOOLEAN /\ patcher = NoPatcher
    <3>1. hooks \in Seq(Hook) /\ hooks # <<>> /\ patcher = NoPatcher
      BY <2>1 DEF HooksOK
    <3>2. h \in Hook
      BY <3>1
    <3> QED
      BY <3>1, <3>2, HooksAssumption DEF Hook
  <2>3. stale = {}
    BY <1>1, <2>2 DEF NoPatcher
  <2> HIDE DEF h
  <2>4. written \subseteq Flushed(h)
    BY <2>2 DEF Flushed, Count
  <2>5. stale' = {}
    BY <2>1, <2>3, <2>4
  <2> QED
    BY <1>1, <2>1, <2>5 DEF PatchingOK, CodeIsCoherent
<1>9. ASSUME NEW kind \in Kinds, HookAborts(kind) PROVE UNCHANGED <<patching, stale>>
  BY <1>9 DEF HookAborts
<1>10. ASSUME NEW kind \in Kinds, NEW f \in Functions, NEW near \in BOOLEAN,
             NEW direct \in BOOLEAN, BeginHook(kind, f, near, direct)
       PROVE  UNCHANGED <<patching, stale>>
  BY <1>10 DEF BeginHook
<1>11. InitPatcherImpl \/ InitializeJit \/ InitializeInline \/ Mapping \/ FindAslrFails
       \/ CloseWindow \/ EndHook \/ Stopped \/ UNCHANGED vars => UNCHANGED <<patching, stale>>
  BY DEF InitPatcherImpl, InitializeJit, InitializeInline, Mapping, FindAslrFails, CloseWindow,
     EndHook, Stopped, vars, patching
<1> QED
  BY <1>2, <1>3, <1>4, <1>5, <1>6, <1>7, <1>8, <1>9, <1>10, <1>11 DEF Next

-----------------------------------------------------------------------------
(* What the code and the trampolines hold after each hook.                 *)

LEMMA FunctionsApart ==
  ASSUME NEW f \in Functions
  PROVE  /\ f \in Nat /\ FunctionWords \in Nat /\ FunctionWords >= 5
         /\ \A k \in 0 .. FunctionWords - 1 : f + k \in Words
         /\ \A g \in Functions, j, k \in 0 .. FunctionWords - 1 : g # f => g + j # f + k
<1> DEFINE all == MainPages * PageWords
<1>1. all \in Nat
  BY PagesAssumption, HooksAssumption
<1>2. \A w : w \in Words <=> w \in 0 .. all - 1
  BY DEF Words
<1>3. FunctionWords \in Nat /\ FunctionWords >= 5
      /\ \A g \in Functions : g \in Nat /\ g + FunctionWords <= all
  BY HooksAssumption
<1> HIDE DEF all
<1>4. \A k \in 0 .. FunctionWords - 1 : f + k \in Words
  BY <1>1, <1>2, <1>3
<1>5. ASSUME NEW g \in Functions, NEW j \in 0 .. FunctionWords - 1,
             NEW k \in 0 .. FunctionWords - 1, g # f
      PROVE  g + j # f + k
  <2>1. f < g \/ g < f
    BY <1>3, <1>5
  <2>2. f + FunctionWords <= g \/ g + FunctionWords <= f
    BY <2>1, HooksAssumption
  <2> QED
    BY <1>3, <1>5, <2>2
<1> QED
  BY <1>3, <1>4, <1>5

LEMMA HookTypes ==
  ASSUME HooksOK
  PROVE  /\ Len(hooks) \in Nat /\ DOMAIN hooks = 1 .. Len(hooks)
         /\ \A h \in 1 .. Len(hooks) :
              /\ hooks[h] \in Hook /\ hooks[h].kind \in Kinds /\ hooks[h].near \in BOOLEAN
              /\ hooks[h].at \in Functions /\ hooks[h].at \in Nat
              /\ hooks[h].kept \in Seq(Word) /\ hooks[h].back \in Nat
<1>1. hooks \in Seq(Hook)
  BY DEF HooksOK
<1>2. Len(hooks) \in Nat /\ DOMAIN hooks = 1 .. Len(hooks)
      /\ \A h \in 1 .. Len(hooks) : hooks[h] \in Hook
  BY <1>1
<1>3. \A f \in Functions : f \in Nat
  BY FunctionsApart
<1>4. ASSUME NEW c \in Hook
      PROVE  /\ c.kind \in Kinds /\ c.near \in BOOLEAN /\ c.at \in Functions
             /\ c.kept \in Seq(Word) /\ c.back \in Nat
  BY DEF Hook
<1> QED
  BY <1>2, <1>3, <1>4, Zenon

LEMMA WordTypes ==
  /\ \A m, k \in Nat, f \in Functions : FarWord(m, f, k) \in Word
  /\ \A m \in Nat, f \in Functions : First(m, f) \in Word
  /\ \A m, k \in Nat, f \in Functions : Later(m, f, k) \in Word
  /\ \A word \in Word, m \in Nat : Kept(word, m) \in Word
<1>1. \A w \in Nat : /\ Orig(w) \in Word /\ Branch(w) \in Word /\ Literal(w) \in Word
                     /\ Nop \in Word /\ LoadX17 \in Word /\ BranchX17 \in Word
                     /\ <<"ldr", w>> \in Word
  BY DEF Orig, Branch, Literal, Nop, LoadX17, BranchX17, Word
<1>2. \A f \in Functions : f \in Nat
  BY HooksAssumption
<1>3. \A m, k \in Nat, f \in Functions : FarWord(m, f, k) \in Word
  BY <1>1, <1>2 DEF FarWord
<1>4. \A m \in Nat, f \in Functions : First(m, f) \in Word
  BY <1>1, <1>2, <1>3 DEF First
<1>5. \A m, k \in Nat, f \in Functions : Later(m, f, k) \in Word
  <2> TAKE m, k \in Nat, f \in Functions
  <2>1. f + k \in Nat
    BY <1>2
  <2> QED
    BY <1>1, <1>3, <2>1 DEF Later
<1>6. \A word \in Word, m \in Nat : Kept(word, m) \in Word
  BY <1>1 DEF Kept
<1> QED
  BY <1>3, <1>4, <1>5, <1>6

(* Which words are loads. *)
LEMMA WordKinds ==
  /\ \A w : Orig(w) # LoadX17 /\ Branch(w) # LoadX17 /\ Literal(w) # LoadX17
            /\ Literal(w)[2] = w
  /\ Nop # LoadX17 /\ BranchX17 # LoadX17
BY DEF Orig, Branch, Literal, Nop, LoadX17, BranchX17

LEMMA NewestIsUnique ==
  ASSUME NEW n \in Nat, NEW f, NEW m \in 0 .. n, Newest(n, f, m)
  PROVE  /\ \A j \in 0 .. n : Newest(n, f, j) => j = m
         /\ \A far \in 0 .. n : NewestFar(n, f, far) =>
              /\ far <= m /\ (m # 0 /\ ~hooks[m].near => far = m)
              /\ \A j \in 0 .. n : NewestFar(n, f, j) => j = far
<1>1. \A j \in 0 .. n : Newest(n, f, j) => j = m
  <2> TAKE j \in 0 .. n
  <2> HAVE Newest(n, f, j)
  <2>1. j \in Nat /\ m \in Nat /\ (j # 0 => j \in 1 .. n) /\ (m # 0 => m \in 1 .. n)
    OBVIOUS
  <2>2. ~(j > m) /\ ~(m > j)
    BY <2>1 DEF Newest
  <2> QED
    BY <2>1, <2>2
<1>2. ASSUME NEW far \in 0 .. n, NewestFar(n, f, far)
      PROVE  /\ far <= m /\ (m # 0 /\ ~hooks[m].near => far = m)
             /\ \A j \in 0 .. n : NewestFar(n, f, j) => j = far
  <2>1. far \in Nat /\ m \in Nat /\ (far # 0 => far \in 1 .. n) /\ (m # 0 => m \in 1 .. n)
    OBVIOUS
  <2>2. far <= m
    <3>1. ~(far > m)
      BY <1>2, <2>1 DEF Newest, NewestFar
    <3> QED
      BY <2>1, <3>1
  <2>3. ASSUME m # 0, ~hooks[m].near PROVE far = m
    <3>1. ~(m > far)
      BY <1>2, <2>1, <2>3 DEF Newest, NewestFar
    <3> QED
      BY <2>1, <2>2, <3>1
  <2>4. ASSUME NEW j \in 0 .. n, NewestFar(n, f, j) PROVE j = far
    <3>1. j \in Nat /\ (j # 0 => j \in 1 .. n)
      OBVIOUS
    <3>2. ~(j > far) /\ ~(far > j)
      BY <1>2, <2>1, <2>4, <3>1 DEF NewestFar
    <3> QED
      BY <2>1, <3>1, <3>2
  <2> QED
    BY <2>2, <2>3, <2>4
<1> QED
  BY <1>1, <1>2

(* What is kept of the words: a load, of the hook that wrote it, brings     *)
(* that hook.                                                               *)
LEMMA KeptWords ==
  ASSUME NEW n \in Nat, CodeShape(n), NEW f \in Functions, NEW m \in 0 .. n, NEW far \in 0 .. n,
         Newest(n, f, m), NewestFar(n, f, far)
  PROVE  /\ Fixed(f) = Kept(First(m, f), m)
         /\ \A k \in 1 .. 4 : Fixed(f + k) = Kept(Later(far, f, k), far)
<1>1. f \in Nat /\ FunctionWords \in Nat /\ FunctionWords >= 5 /\ f % 2 \in {0, 1}
  BY FunctionsApart
<1>2. code[f] = First(m, f) /\ \A k \in 1 .. 4 : code[f + k] = Later(far, f, k)
  BY <1>1 DEF CodeShape
<1>3. \A k \in 2 .. 3 : far # 0 /\ k = (f % 2) + 2 => code[f + k] = Literal(far)
  BY <1>1, <1>2 DEF Later, FarWord
<1> DEFINE first == First(m, f)
<1>7. code[f] = first
  BY <1>2
<1> HIDE DEF first
<1>4. ASSUME code[f] = LoadX17 PROVE Fixed(f) = Kept(First(m, f), m)
  <2>1. m # 0 /\ ~hooks[m].near /\ f % 2 = 0
    <3>1. m # 0 /\ ~hooks[m].near
      BY <1>4, <1>7, WordKinds DEF First, first
    <3>2. f % 2 # 1
      BY <1>4, <1>7, <3>1, WordKinds DEF First, FarWord, first
    <3> QED
      BY <1>1, <3>1, <3>2
  <2>2. far = m
    BY <2>1, NewestIsUnique
  <2>3. code[f + 2] = Literal(m)
    BY <1>3, <2>1, <2>2
  <2>4. Fixed(f) = <<"ldr", m>>
    BY <1>4, <2>3, WordKinds DEF Fixed
  <2>5. Kept(first, m) = <<"ldr", m>>
    BY <1>4, <1>7 DEF Kept
  <2> QED
    BY <2>4, <2>5 DEF first
<1>5. ASSUME code[f] # LoadX17 PROVE Fixed(f) = Kept(First(m, f), m)
  <2>1. Fixed(f) = first /\ Kept(first, m) = first
    BY <1>5, <1>7 DEF Fixed, Kept
  <2> QED
    BY <2>1 DEF first
<1>6. ASSUME NEW k \in 1 .. 4 PROVE Fixed(f + k) = Kept(Later(far, f, k), far)
  <2>1. CASE code[f + k] = LoadX17
    <3>1. far # 0 /\ k < 4 + (f % 2)
      BY <1>2, <1>6, <2>1, WordKinds DEF Later
    <3>2. FarWord(far, f, k) = LoadX17
      BY <1>2, <1>6, <2>1, <3>1 DEF Later
    <3>3. k = f % 2
      BY <3>2, WordKinds DEF FarWord
    <3>4. k = 1 /\ f % 2 = 1 /\ f + k + 2 = f + 3
      BY <1>1, <3>3
    <3>5. code[f + k + 2] = Literal(far)
      BY <1>3, <3>1, <3>4
    <3>6. Fixed(f + k) = <<"ldr", far>>
      BY <2>1, <3>5, WordKinds DEF Fixed
    <3> QED
      BY <1>2, <1>6, <2>1, <3>6 DEF Kept
  <2>2. CASE code[f + k] # LoadX17
    BY <1>2, <1>6, <2>2 DEF Fixed, Kept
  <2> QED
    BY <2>1, <2>2
<1> QED
  BY <1>4, <1>5, <1>6

(* What __fix_instructions and the copy of the patch have done. *)
LEMMA HookFuncImplEffect ==
  ASSUME HooksOK, HookFuncImpl, NEW n, n = Len(hooks)
  PROVE  /\ n \in Nat \ {0} /\ step = "window" /\ step' = "written" /\ entries' = entries
         /\ Len(hooks') = n /\ DOMAIN hooks' = 1 .. n
         /\ \A j \in 1 .. n : /\ hooks'[j].at = hooks[j].at /\ hooks'[j].near = hooks[j].near
                              /\ hooks'[j].kind = hooks[j].kind
                              /\ j # n => hooks'[j] = hooks[j]
         /\ IF hooks[n].kind = "replace" THEN hooks' = hooks
            ELSE /\ hooks' = [hooks EXCEPT
                      ![n].kept = [k \in 1 .. Count(hooks[n]) |-> Fixed(hooks[n].at + k - 1)],
                      ![n].back = hooks[n].at + Count(hooks[n])]
                 /\ hooks'[n].kept = [k \in 1 .. Count(hooks[n]) |-> Fixed(hooks[n].at + k - 1)]
                 /\ hooks'[n].back = hooks[n].at + Count(hooks[n])
         /\ code' = [w \in Words |->
              IF w \in hooks[n].at .. hooks[n].at + Count(hooks[n]) - 1
              THEN Patch(n, hooks[n])[w - hooks[n].at + 1] ELSE code[w]]
<1>1. /\ step = "window" /\ step' = "written" /\ entries' = entries
      /\ hooks' = IF hooks[n].kind = "replace" THEN hooks
           ELSE [hooks EXCEPT ![n].kept = [k \in 1 .. Count(hooks[n]) |-> Fixed(hooks[n].at + k - 1)],
                              ![n].back = hooks[n].at + Count(hooks[n])]
      /\ code' = [w \in Words |->
              IF w \in hooks[n].at .. hooks[n].at + Count(hooks[n]) - 1
              THEN Patch(n, hooks[n])[w - hooks[n].at + 1] ELSE code[w]]
  BY DEF HookFuncImpl, Overwrite
<1>2. hooks \in Seq(Hook) /\ hooks # <<>>
  BY <1>1 DEF HooksOK
<1>3. n \in Nat \ {0} /\ DOMAIN hooks = 1 .. n
  BY <1>2
<1> DEFINE kept == [k \in 1 .. Count(hooks[n]) |-> Fixed(hooks[n].at + k - 1)]
           back == hooks[n].at + Count(hooks[n])
<1>4. hooks' = IF hooks[n].kind = "replace" THEN hooks
               ELSE [hooks EXCEPT ![n].kept = kept, ![n].back = back]
  BY <1>1
<1> HIDE DEF kept, back
<1>5. CASE hooks[n].kind = "replace"
  <2>1. hooks' = hooks
    BY <1>4, <1>5
  <2> QED
    BY <1>1, <1>3, <1>5, <2>1
<1>6. CASE hooks[n].kind # "replace"
  <2>1. hooks' = [hooks EXCEPT ![n] = [hooks[n] EXCEPT !.kept = kept, !.back = back]]
    BY <1>4, <1>6
  <2> DEFINE new == [hooks[n] EXCEPT !.kept = kept, !.back = back]
  <2>2. hooks[n] \in Hook
    BY <1>2, <1>3
  <2>3. new.at = hooks[n].at /\ new.near = hooks[n].near /\ new.kind = hooks[n].kind
        /\ new.kept = kept /\ new.back = back
    BY <2>2 DEF Hook
  <2> HIDE DEF new
  <2>4. hooks' = [hooks EXCEPT ![n] = new]
    BY <2>1 DEF new
  <2>5. DOMAIN hooks' = 1 .. n /\ hooks'[n] = new /\ \A j \in 1 .. n : j # n => hooks'[j] = hooks[j]
    BY <1>3, <2>4
  <2>6. Len(hooks') = n
    BY <1>2, <1>3, <2>4
  <2>7. \A j \in 1 .. n : /\ hooks'[j].at = hooks[j].at /\ hooks'[j].near = hooks[j].near
                          /\ hooks'[j].kind = hooks[j].kind
    BY <2>3, <2>5
  <2> QED
    BY <1>1, <1>3, <1>6, <2>3, <2>5, <2>6, <2>7 DEF kept, back
<1> QED
  BY <1>5, <1>6

(* The newest hooks do not change with what the hooks keep. *)
LEMMA SameNewest ==
  ASSUME NEW n \in Nat,
         \A j \in 1 .. n : hooks'[j].at = hooks[j].at /\ hooks'[j].near = hooks[j].near
  PROVE  \A k \in 0 .. n : \A f, m : /\ Newest(k, f, m)' <=> Newest(k, f, m)
                                     /\ NewestFar(k, f, m)' <=> NewestFar(k, f, m)
<1> TAKE k \in 0 .. n
<1> TAKE f, m
<1>1. \A j \in 1 .. k : hooks'[j].at = hooks[j].at /\ hooks'[j].near = hooks[j].near
  OBVIOUS
<1>2. m \in 0 .. k /\ m # 0 => m \in 1 .. k
  OBVIOUS
<1>3. Newest(k, f, m)' <=> Newest(k, f, m)
  BY <1>1, <1>2 DEF Newest
<1>4. NewestFar(k, f, m)' <=> NewestFar(k, f, m)
  BY <1>1, <1>2 DEF NewestFar
<1> QED
  BY <1>3, <1>4

LEMMA HookFuncImplCode ==
  ASSUME HooksOK, ShapesOK, HookFuncImpl, NEW n, n = Len(hooks)
  PROVE  CodeShape(n)' /\ code' \in [Words -> Word]
<1> DEFINE h == hooks[n]
           f == h.at
           c == Count(h)
<1>1. /\ n \in Nat \ {0} /\ Len(hooks') = n /\ step = "window"
      /\ \A j \in 1 .. n : /\ hooks'[j].at = hooks[j].at /\ hooks'[j].near = hooks[j].near
      /\ code' = [w \in Words |-> IF w \in f .. f + c - 1 THEN Patch(n, h)[w - f + 1] ELSE code[w]]
  <2>1. code' = [w \in Words |-> IF w \in f .. f + c - 1 THEN Patch(n, h)[w - f + 1] ELSE code[w]]
    BY DEF HookFuncImpl, Overwrite
  <2>2. /\ n \in Nat \ {0} /\ Len(hooks') = n /\ step = "window"
        /\ \A j \in 1 .. n : /\ hooks'[j].at = hooks[j].at /\ hooks'[j].near = hooks[j].near
    BY HookFuncImplEffect
  <2> QED
    BY <2>1, <2>2
<1>2. f \in Functions /\ f \in Nat /\ h.near \in BOOLEAN /\ n \in 1 .. n
  BY <1>1, HookTypes
<1>3. CodeShape(n - 1)
  BY <1>1 DEF ShapesOK, Written
<1>4. /\ c \in 1 .. 5
      /\ h.near => (c = 1 /\ Patch(n, h)[1] = Branch(n))
      /\ ~h.near => (c = 4 + (f % 2) /\ \A k \in 1 .. c : Patch(n, h)[k] = FarWord(n, f, k - 1))
  BY <1>2, PatchWords, ZenonT(30)
<1>5. FunctionWords \in Nat /\ FunctionWords >= 5
      /\ \A k \in 0 .. FunctionWords - 1 : f + k \in Words
  BY <1>2, FunctionsApart
<1>6. code \in [Words -> Word]
  BY DEF HooksOK
<1>7. \A w \in Words : w \in Int
  BY DEF Words
<1>8. \A k \in 1 .. c : Patch(n, h)[k] \in Word
  <2>1. CASE h.near
    <3>1. Branch(n) \in Word
      BY <1>1 DEF Word, Branch
    <3>2. \A k \in 1 .. c : k = 1
      BY <1>4, <2>1
    <3> QED
      BY <1>4, <2>1, <3>1, <3>2
  <2>2. CASE ~h.near
    <3> TAKE k \in 1 .. c
    <3>1. k - 1 \in Nat /\ Patch(n, h)[k] = FarWord(n, f, k - 1)
      BY <1>4, <2>2
    <3> QED
      BY <1>1, <1>2, <3>1, WordTypes
  <2> QED
    BY <2>1, <2>2
<1> HIDE DEF h, f, c
<1>9. code' \in [Words -> Word]
  <2>1. ASSUME NEW w \in Words
        PROVE  (IF w \in f .. f + c - 1 THEN Patch(n, h)[w - f + 1] ELSE code[w]) \in Word
    <3>1. w \in f .. f + c - 1 => w - f + 1 \in 1 .. c
      BY <1>2, <1>4, <1>7
    <3> QED
      BY <1>6, <1>8, <3>1
  <2> QED
    BY <1>1, <2>1
<1>10. \A k \in 0 .. FunctionWords - 1 :
         code'[f + k] = IF k < c THEN Patch(n, h)[k + 1] ELSE code[f + k]
  <2> TAKE k \in 0 .. FunctionWords - 1
  <2>1. f + k \in Words /\ k \in Int /\ 0 <= k
    BY <1>5
  <2>2. c \in Nat
    BY <1>4
  <2> DEFINE w == f + k
  <2>3. w \in f .. f + c - 1 <=> k < c
    BY <1>2, <2>1, <2>2
  <2>4. w - f + 1 = k + 1
    BY <1>2, <2>1
  <2>5. code'[w] = IF w \in f .. f + c - 1 THEN Patch(n, h)[w - f + 1] ELSE code[w]
    BY <1>1, <2>1
  <2> HIDE DEF w
  <2>6. code'[w] = IF k < c THEN Patch(n, h)[k + 1] ELSE code[w]
    BY <2>3, <2>4, <2>5
  <2> QED
    BY <2>6 DEF w
<1>11. \A g \in Functions, k \in 0 .. FunctionWords - 1 : g # f => code'[g + k] = code[g + k]
  <2> TAKE g \in Functions, k \in 0 .. FunctionWords - 1
  <2> HAVE g # f
  <2>1. g \in Nat /\ g + k \in Words
    BY FunctionsApart
  <2>2. ASSUME g + k \in f .. f + c - 1 PROVE FALSE
    <3>1. g + k - f \in 0 .. FunctionWords - 1 /\ g + k = f + (g + k - f)
      BY <1>2, <1>4, <1>5, <2>1, <2>2
    <3> QED
      BY <1>2, <3>1, FunctionsApart
  <2> QED
    BY <1>1, <2>1, <2>2
<1>12. ASSUME NEW g \in Functions, NEW m \in 0 .. n, NEW far \in 0 .. n,
              Newest(n, g, m)', NewestFar(n, g, far)'
       PROVE  /\ code'[g] = First(m, g)'
              /\ \A k \in 1 .. FunctionWords - 1 : code'[g + k] = Later(far, g, k)'
  <2>1. Newest(n, g, m) /\ NewestFar(n, g, far)
    <3>1. n \in Nat /\ n \in 0 .. n
      BY <1>1
    <3>2. /\ Newest(n, g, m)' <=> Newest(n, g, m)
          /\ NewestFar(n, g, far)' <=> NewestFar(n, g, far)
      BY <1>1, <3>1, SameNewest
    <3> QED
      BY <1>12, <3>2
  <2>2. First(m, g)' = First(m, g) /\ \A k : Later(far, g, k)' = Later(far, g, k)
    <3>1. m # 0 => hooks'[m].near = hooks[m].near
      BY <1>1
    <3> QED
      BY <3>1 DEF First, Later, FarWord
  <2>3. h.at = f /\ h = hooks[n]
    BY DEF h, f
  <2>4. CASE g # f
    <3>1. m # n /\ far # n
      BY <1>1, <1>2, <2>1, <2>3, <2>4 DEF Newest, NewestFar
    <3>2. m \in 0 .. n - 1 /\ far \in 0 .. n - 1
      BY <1>1, <3>1
    <3>3. Newest(n - 1, g, m) /\ NewestFar(n - 1, g, far)
      BY <1>1, <2>1, <3>2 DEF Newest, NewestFar
    <3>4. /\ code[g] = First(m, g)
          /\ \A k \in 1 .. FunctionWords - 1 : code[g + k] = Later(far, g, k)
      BY <1>3, <3>2, <3>3 DEF CodeShape
    <3>5. g + 0 = g /\ 0 \in 0 .. FunctionWords - 1
      BY <1>5, FunctionsApart
    <3>6. code'[g] = code[g]
      BY <1>11, <2>4, <3>5
    <3>7. \A k \in 1 .. FunctionWords - 1 : code'[g + k] = code[g + k]
      BY <1>5, <1>11, <2>4
    <3> QED
      BY <2>2, <3>4, <3>6, <3>7
  <2>5. CASE g = f
    <3>1. m = n
      BY <1>1, <1>2, <2>1, <2>3, <2>5 DEF Newest
    <3>2. PICK m0 \in 0 .. n - 1, far0 \in 0 .. n - 1 :
            Newest(n - 1, f, m0) /\ NewestFar(n - 1, f, far0)
      <4>1. n - 1 \in Nat
        BY <1>1
      <4> QED
        BY <4>1, NewestExists
    <3>3. \A k \in 1 .. FunctionWords - 1 : code[f + k] = Later(far0, f, k)
      BY <1>2, <1>3, <3>2 DEF CodeShape
    <3>4. f + 0 = f /\ 0 \in 0 .. FunctionWords - 1
      BY <1>2, <1>5
    <3>5. code'[f] = Patch(n, h)[1]
      BY <1>4, <1>10, <3>4
    <3>6. CASE h.near
      <4>1. far # n
        BY <1>1, <2>1, <2>3, <3>6 DEF NewestFar
      <4>2. far \in 0 .. n - 1
        BY <1>1, <4>1
      <4>3. NewestFar(n - 1, f, far)
        BY <1>1, <2>1, <2>5, <4>2 DEF NewestFar
      <4>4. far = far0
        <5>1. n - 1 \in Nat
          BY <1>1
        <5> QED
          BY <3>2, <4>2, <4>3, <5>1, NewestIsUnique
      <4>5. First(m, g) = Branch(n)
        BY <1>1, <2>3, <3>1, <3>6 DEF First
      <4>6. code'[f] = Branch(n)
        BY <1>4, <3>5, <3>6
      <4>7. \A k \in 1 .. FunctionWords - 1 : code'[f + k] = Later(far, f, k)
        <5> TAKE k \in 1 .. FunctionWords - 1
        <5>1. k \in 0 .. FunctionWords - 1 /\ ~(k < c)
          BY <1>4, <1>5, <3>6
        <5> QED
          BY <1>10, <3>3, <4>4, <5>1
      <4> QED
        BY <2>2, <2>5, <4>5, <4>6, <4>7
    <3>7. CASE ~h.near
      <4>1. far = n
        BY <1>1, <1>2, <2>1, <2>3, <2>5, <3>7 DEF NewestFar
      <4>2. code'[f] = FarWord(n, f, 0)
        <5>1. Patch(n, h)[1] = FarWord(n, f, 1 - 1) /\ 1 - 1 = 0
          BY <1>4, <3>7
        <5> QED
          BY <3>5, <5>1
      <4>3. First(m, f) = FarWord(n, f, 0)
        BY <1>1, <2>3, <3>1, <3>7 DEF First
      <4>4. \A k \in 1 .. FunctionWords - 1 : code'[f + k] = Later(n, f, k)
        <5> TAKE k \in 1 .. FunctionWords - 1
        <5>1. CASE k < c
          <6>1. k + 1 \in 1 .. c /\ k + 1 - 1 = k /\ k < 4 + (f % 2) /\ k \in 0 .. FunctionWords - 1
            BY <1>4, <1>5, <3>7, <5>1
          <6>2. code'[f + k] = FarWord(n, f, k)
            BY <1>4, <1>10, <3>7, <5>1, <6>1
          <6> QED
            BY <1>1, <6>1, <6>2 DEF Later
        <5>2. CASE ~(k < c)
          <6>1. ~(k < 4 + (f % 2)) /\ k \in 0 .. FunctionWords - 1
            BY <1>4, <1>5, <3>7, <5>2
          <6>2. code'[f + k] = Later(far0, f, k)
            BY <1>10, <3>3, <5>2, <6>1
          <6> QED
            BY <6>1, <6>2 DEF Later
        <5> QED
          BY <5>1, <5>2
      <4> QED
        BY <2>2, <2>5, <4>1, <4>2, <4>3, <4>4
    <3> QED
      BY <3>6, <3>7
  <2> QED
    BY <2>4, <2>5
<1>13. CodeShape(n)'
  BY <1>12 DEF CodeShape
<1> QED
  BY <1>9, <1>13

(* The shape after a step, unfolded. *)
LEMMA KeptShapeNext ==
  ASSUME NEW h,
         \A f \in Functions, c \in 1 .. 5, m, far \in 0 .. h - 1 :
           f = hooks'[h].at /\ c = Count(hooks[h])' /\ Newest(h - 1, f, m)' /\ NewestFar(h - 1, f, far)' =>
           /\ Len(hooks'[h].kept) = c /\ hooks'[h].back = f + c
           /\ hooks'[h].kept[1] = Kept(First(m, f)', m)
           /\ \A k \in 2 .. c : hooks'[h].kept[k] = Kept(Later(far, f, k - 1)', far)
  PROVE  KeptShape(h)'
BY DEF KeptShape, Kept

LEMMA HookFuncImplKept ==
  ASSUME HooksOK, ShapesOK, HookFuncImpl, NEW n
  PROVE  n = Len(hooks) =>
           /\ \A j \in 1 .. n : hooks[j].kind # "replace" => KeptShape(j)'
           /\ hooks' \in Seq(Hook)
<1>0. SUFFICES ASSUME n = Len(hooks)
               PROVE  /\ \A j \in 1 .. n : hooks[j].kind # "replace" => KeptShape(j)'
                      /\ hooks' \in Seq(Hook)
  OBVIOUS
<1>1. /\ n \in Nat \ {0} /\ Len(hooks') = n /\ DOMAIN hooks' = 1 .. n /\ step = "window"
      /\ \A j \in 1 .. n : /\ hooks'[j].at = hooks[j].at /\ hooks'[j].near = hooks[j].near
                           /\ j # n => hooks'[j] = hooks[j]
  BY <1>0, HookFuncImplEffect
<1>2. n \in 1 .. n /\ n - 1 \in Nat /\ n - 1 \in 0 .. n
  BY <1>1
<1>3. CodeShape(n - 1) /\ \A j \in 1 .. n - 1 : hooks[j].kind # "replace" => KeptShape(j)
  BY <1>0, <1>1 DEF ShapesOK, Written
<1>4. \A m : m \in 1 .. n => hooks'[m].near = hooks[m].near
  BY <1>1
<1>5. \A m \in 0 .. n : \A f, k : First(m, f)' = First(m, f) /\ Later(m, f, k)' = Later(m, f, k)
  <2> TAKE m \in 0 .. n
  <2> TAKE f, k
  <2>1. m # 0 => hooks'[m].near = hooks[m].near
    BY <1>4
  <2> QED
    BY <2>1 DEF First, Later, FarWord
<1>6. ASSUME NEW j \in 1 .. n - 1, hooks[j].kind # "replace" PROVE KeptShape(j)'
  <2>1. j \in 1 .. n /\ j # n /\ j - 1 \in 0 .. n
    BY <1>1
  <2>2. hooks'[j] = hooks[j] /\ KeptShape(j)
    BY <1>1, <1>3, <1>6, <2>1
  <2>3. \A f, m : /\ Newest(j - 1, f, m)' <=> Newest(j - 1, f, m)
                  /\ NewestFar(j - 1, f, m)' <=> NewestFar(j - 1, f, m)
    BY <1>1, <2>1, SameNewest
  <2>4. \A m \in 0 .. j - 1 : m \in 0 .. n
    BY <1>1
  <2>5. \A m \in 0 .. j - 1 : \A f, k : First(m, f)' = First(m, f) /\ Later(m, f, k)' = Later(m, f, k)
    BY <1>5, <2>4
  <2> SUFFICES ASSUME NEW f \in Functions, NEW c \in 1 .. 5, NEW m \in 0 .. j - 1, NEW far \in 0 .. j - 1,
                      f = hooks'[j].at, c = Count(hooks[j])',
                      Newest(j - 1, f, m)', NewestFar(j - 1, f, far)'
               PROVE  /\ Len(hooks'[j].kept) = c /\ hooks'[j].back = f + c
                      /\ hooks'[j].kept[1] = Kept(First(m, f)', m)
                      /\ \A k \in 2 .. c : hooks'[j].kept[k] = Kept(Later(far, f, k - 1)', far)
    BY KeptShapeNext, Zenon
  <2>8. Newest(j - 1, f, m) /\ NewestFar(j - 1, f, far) /\ f = hooks[j].at /\ c = Count(hooks[j])
    BY <2>2, <2>3 DEF Count
  <2>9. /\ Len(hooks[j].kept) = c /\ hooks[j].back = f + c
        /\ hooks[j].kept[1] = Kept(First(m, f), m)
        /\ \A k \in 2 .. c : hooks[j].kept[k] = Kept(Later(far, f, k - 1), far)
    BY <2>2, <2>8 DEF KeptShape
  <2> QED
    BY <2>2, <2>5, <2>9
<1>13. PICK f : f = hooks[n].at
  OBVIOUS
<1>14. PICK c : c = Count(hooks[n])
  OBVIOUS
<1>7. f \in Functions /\ f \in Nat /\ hooks[n].near \in BOOLEAN /\ hooks[n].at \in Nat
  BY <1>1, <1>2, <1>13, <1>0, HookTypes
<1>8. c \in 1 .. 5
  BY <1>7, <1>14, PatchWords
<1>9. Count(hooks'[n]) = c /\ hooks'[n].at = f
  BY <1>1, <1>2, <1>13, <1>14 DEF Count
<1>10. ASSUME hooks[n].kind # "replace" PROVE KeptShape(n)' /\ hooks'[n].kept \in Seq(Word)
  <2>1. /\ hooks'[n].kept = [k \in 1 .. c |-> Fixed(f + k - 1)]
        /\ hooks'[n].back = f + c
    BY <1>10, <1>13, <1>14, <1>0, HookFuncImplEffect
  <2> DEFINE kept == hooks'[n].kept
  <2>2. Len(kept) = c /\ \A k \in 1 .. c : kept[k] = Fixed(f + k - 1)
    BY <1>8, <2>1
  <2> HIDE DEF kept
  <2>3. f + 1 - 1 = f /\ \A k \in 2 .. c : f + k - 1 = f + (k - 1) /\ k - 1 \in 1 .. 4 /\ k \in 1 .. c
    BY <1>7, <1>8
  <2>4. kept[1] = Fixed(f) /\ \A k \in 2 .. c : kept[k] = Fixed(f + (k - 1))
    BY <1>8, <2>2, <2>3
  <2>5. ASSUME NEW m \in 0 .. n - 1, NEW far \in 0 .. n - 1,
               Newest(n - 1, f, m), NewestFar(n - 1, f, far)
        PROVE  /\ kept[1] = Kept(First(m, f), m)
               /\ \A k \in 2 .. c : kept[k] = Kept(Later(far, f, k - 1), far)
    <3>1. /\ Fixed(f) = Kept(First(m, f), m)
          /\ \A k \in 1 .. 4 : Fixed(f + k) = Kept(Later(far, f, k), far)
      BY <1>2, <1>3, <1>7, <2>5, KeptWords
    <3> QED
      BY <2>3, <2>4, <3>1
  <2>6. KeptShape(n)'
    <3>1. ASSUME NEW g \in Functions, NEW d \in 1 .. 5, NEW m \in 0 .. n - 1, NEW far \in 0 .. n - 1,
                 g = hooks'[n].at, d = Count(hooks[n])',
                 Newest(n - 1, g, m)', NewestFar(n - 1, g, far)'
          PROVE  /\ Len(hooks'[n].kept) = d /\ hooks'[n].back = g + d
                 /\ hooks'[n].kept[1] = Kept(First(m, g)', m)
                 /\ \A k \in 2 .. d : hooks'[n].kept[k] = Kept(Later(far, g, k - 1)', far)
      <4>3. g = f /\ d = c
        BY <1>9, <3>1 DEF Count
      <4>1. Newest(n - 1, f, m) /\ NewestFar(n - 1, f, far)
        BY <1>1, <1>2, <3>1, <4>3, SameNewest
      <4>2. m \in 0 .. n /\ far \in 0 .. n
        BY <1>1
      <4>4. \A k : First(m, g)' = First(m, f) /\ Later(far, g, k)' = Later(far, f, k)
        BY <1>5, <4>2, <4>3
      <4>5. /\ kept[1] = Kept(First(m, f), m)
            /\ \A k \in 2 .. c : kept[k] = Kept(Later(far, f, k - 1), far)
        BY <2>5, <4>1
      <4> QED
        BY <2>1, <2>2, <4>3, <4>4, <4>5 DEF kept
    <3>2. \A g \in Functions, d \in 1 .. 5, m, far \in 0 .. n - 1 :
            g = hooks'[n].at /\ d = Count(hooks[n])' /\ Newest(n - 1, g, m)' /\ NewestFar(n - 1, g, far)' =>
            /\ Len(hooks'[n].kept) = d /\ hooks'[n].back = g + d
            /\ hooks'[n].kept[1] = Kept(First(m, g)', m)
            /\ \A k \in 2 .. d : hooks'[n].kept[k] = Kept(Later(far, g, k - 1)', far)
      BY <3>1
    <3> QED
      BY <3>2, KeptShapeNext
  <2>7. kept \in Seq(Word)
    <3>1. PICK m \in 0 .. n - 1, far \in 0 .. n - 1 : Newest(n - 1, f, m) /\ NewestFar(n - 1, f, far)
      BY <1>2, NewestExists
    <3>2. m \in Nat /\ far \in Nat
      OBVIOUS
    <3>3. kept[1] \in Word /\ \A k \in 2 .. c : kept[k] \in Word
      <4>1. First(m, f) \in Word /\ \A k \in Nat : Later(far, f, k) \in Word
        BY <1>7, <3>2, WordTypes
      <4>2. \A k \in 2 .. c : k - 1 \in Nat
        BY <1>8
      <4>3. Kept(First(m, f), m) \in Word /\ \A k \in 2 .. c : Kept(Later(far, f, k - 1), far) \in Word
        BY <3>2, <4>1, <4>2, WordTypes
      <4> QED
        BY <2>5, <3>1, <4>3
    <3>4. \A k \in 1 .. c : kept[k] \in Word
      BY <1>8, <3>3
    <3>5. kept = [k \in 1 .. c |-> Fixed(f + k - 1)]
      BY <2>1 DEF kept
    <3>6. kept \in [1 .. c -> Word] /\ c \in Nat
      BY <1>8, <3>4, <3>5
    <3> QED
      BY <3>6
  <2> QED
    BY <2>6, <2>7 DEF kept
<1>11. hooks' \in Seq(Hook)
  <2>1. hooks \in Seq(Hook)
    BY DEF HooksOK
  <2>2. CASE hooks[n].kind = "replace"
    BY <2>1, <2>2, <1>0, HookFuncImplEffect
  <2>3. CASE hooks[n].kind # "replace"
    <3>1. hooks' = [hooks EXCEPT ![n].kept = [k \in 1 .. Count(hooks[n]) |-> Fixed(hooks[n].at + k - 1)],
                                 ![n].back = hooks[n].at + Count(hooks[n])]
      BY <1>0, <2>3 DEF HookFuncImpl
    <3> DEFINE kept == [k \in 1 .. Count(hooks[n]) |-> Fixed(hooks[n].at + k - 1)]
               back == hooks[n].at + Count(hooks[n])
               new == [hooks[n] EXCEPT !.kept = kept, !.back = back]
    <3>2. kept \in Seq(Word) /\ back \in Nat
      <4>1. hooks'[n].kept = kept /\ hooks'[n].back = back
        BY <2>3, <1>0, HookFuncImplEffect
      <4>2. back \in Nat
        BY <1>7, <1>8, <1>14
      <4> QED
        BY <1>10, <2>3, <4>1, <4>2
    <3>3. hooks[n] \in Hook
      BY <1>1, <1>2, <1>0, HookTypes
    <3>4. hooks' = [hooks EXCEPT ![n] = new]
      BY <3>1
    <3> HIDE DEF kept, back
    <3>5. new \in Hook
      BY <3>2, <3>3 DEF Hook
    <3> HIDE DEF new
    <3>6. \A j \in 1 .. n : hooks'[j] \in Hook
      BY <1>1, <1>2, <2>1, <3>3, <3>4, <3>5
    <3> QED
      BY <1>1, <2>1, <3>4, <3>5
  <2> QED
    BY <2>2, <2>3
<1>12. \A j \in 1 .. n : j = n \/ j \in 1 .. n - 1
  BY <1>1
<1> QED
  BY <1>6, <1>10, <1>11, <1>12

(* The shapes of the first hooks do not depend on the others. *)
LEMMA SameShapes ==
  ASSUME NEW n \in Nat, code' = code, \A j \in 1 .. n : hooks'[j] = hooks[j]
  PROVE  /\ CodeShape(n) => CodeShape(n)'
         /\ \A j \in 1 .. n : KeptShape(j) => KeptShape(j)'
<1>1. n \in 0 .. n /\ \A j \in 1 .. n : j - 1 \in 0 .. n
  OBVIOUS
<1>2. \A k \in 0 .. n : \A f, m : /\ Newest(k, f, m)' <=> Newest(k, f, m)
                                  /\ NewestFar(k, f, m)' <=> NewestFar(k, f, m)
  BY SameNewest
<1>3. \A m \in 0 .. n : \A f, k : First(m, f)' = First(m, f) /\ Later(m, f, k)' = Later(m, f, k)
  <2> TAKE m \in 0 .. n
  <2> TAKE f, k
  <2>1. m # 0 => hooks'[m] = hooks[m]
    OBVIOUS
  <2> QED
    BY <2>1 DEF First, Later, FarWord
<1>4. CodeShape(n) => CodeShape(n)'
  <2> HAVE CodeShape(n)
  <2> SUFFICES ASSUME NEW f \in Functions, NEW m \in 0 .. n, NEW far \in 0 .. n,
                      Newest(n, f, m)', NewestFar(n, f, far)'
               PROVE  /\ code'[f] = First(m, f)'
                      /\ \A k \in 1 .. FunctionWords - 1 : code'[f + k] = Later(far, f, k)'
    BY DEF CodeShape
  <2>1. Newest(n, f, m) /\ NewestFar(n, f, far)
    BY <1>1, <1>2
  <2>2. /\ code[f] = First(m, f)
        /\ \A k \in 1 .. FunctionWords - 1 : code[f + k] = Later(far, f, k)
    BY <2>1 DEF CodeShape
  <2> QED
    BY <1>3, <2>2
<1>5. ASSUME NEW j \in 1 .. n, KeptShape(j) PROVE KeptShape(j)'
  <2>1. hooks'[j] = hooks[j] /\ \A m \in 0 .. j - 1 : m \in 0 .. n
    OBVIOUS
  <2> SUFFICES ASSUME NEW f \in Functions, NEW c \in 1 .. 5, NEW m \in 0 .. j - 1, NEW far \in 0 .. j - 1,
                      f = hooks'[j].at, c = Count(hooks[j])',
                      Newest(j - 1, f, m)', NewestFar(j - 1, f, far)'
               PROVE  /\ Len(hooks'[j].kept) = c /\ hooks'[j].back = f + c
                      /\ hooks'[j].kept[1] = Kept(First(m, f)', m)
                      /\ \A k \in 2 .. c : hooks'[j].kept[k] = Kept(Later(far, f, k - 1)', far)
    BY KeptShapeNext, Zenon
  <2>2. Newest(j - 1, f, m) /\ NewestFar(j - 1, f, far) /\ f = hooks[j].at /\ c = Count(hooks[j])
    BY <1>1, <1>2, <2>1 DEF Count
  <2>3. /\ Len(hooks[j].kept) = c /\ hooks[j].back = f + c
        /\ hooks[j].kept[1] = Kept(First(m, f), m)
        /\ \A k \in 2 .. c : hooks[j].kept[k] = Kept(Later(far, f, k - 1), far)
    BY <1>5, <2>2 DEF KeptShape
  <2> QED
    BY <1>3, <2>1, <2>3
<1> QED
  BY <1>4, <1>5

LEMMA BeginHookEffect ==
  ASSUME HooksOK, NEW kind \in Kinds, NEW f \in Functions, NEW near \in BOOLEAN,
         NEW direct \in BOOLEAN, BeginHook(kind, f, near, direct), NEW n, n = Len(hooks)
  PROVE  /\ n \in Nat /\ Len(hooks') = n + 1 /\ hooks' \in Seq(Hook) /\ DOMAIN hooks' = 1 .. n + 1
         /\ \A j \in 1 .. n : hooks'[j] = hooks[j]
         /\ hooks'[n + 1].kind = kind /\ hooks'[n + 1].at = f
         /\ code' = code /\ step = "idle" /\ step' = "window" /\ entries' = entries
         /\ patcher = NoPatcher /\ patcher' = patcher
<1> DEFINE new == [kind |-> kind, at |-> f, near |-> near, direct |-> direct,
                  kept |-> <<>>, back |-> f]
<1>1. /\ hooks' = Append(hooks, new) /\ code' = code /\ step = "idle" /\ step' = "window"
      /\ entries' = entries /\ patcher = NoPatcher /\ patcher' = patcher
  BY DEF BeginHook, patching
<1>2. new \in Hook /\ new.kind = kind /\ new.at = f
  BY HooksAssumption DEF Hook
<1>3. hooks \in Seq(Hook)
  BY DEF HooksOK
<1> HIDE DEF new
<1>4. n \in Nat /\ Len(hooks') = n + 1 /\ hooks' \in Seq(Hook) /\ hooks'[n + 1] = new
      /\ \A j \in 1 .. n : hooks'[j] = hooks[j]
  BY <1>1, <1>2, <1>3
<1>5. DOMAIN hooks' = 1 .. n + 1
  BY <1>4
<1> QED
  BY <1>1, <1>2, <1>4, <1>5

LEMMA HooksStep == HooksOK /\ ShapesOK /\ [Next]_vars => HooksOK' /\ ShapesOK'
<1> SUFFICES ASSUME HooksOK, ShapesOK, [Next]_vars PROVE HooksOK' /\ ShapesOK'
  OBVIOUS
<1> DEFINE n == Len(hooks)
<1>1. n \in Nat /\ DOMAIN hooks = 1 .. n
  BY HookTypes
<1>2. ASSUME NEW kind \in Kinds, NEW f \in Functions, NEW near \in BOOLEAN,
             NEW direct \in BOOLEAN, BeginHook(kind, f, near, direct)
      PROVE  HooksOK' /\ ShapesOK'
  <2>1. PICK k : k = Len(hooks)
    OBVIOUS
  <2>2. /\ k \in Nat /\ Len(hooks') = k + 1 /\ hooks' \in Seq(Hook) /\ DOMAIN hooks' = 1 .. k + 1
        /\ \A j \in 1 .. k : hooks'[j] = hooks[j]
        /\ code' = code /\ step = "idle" /\ step' = "window" /\ entries' = entries
        /\ patcher = NoPatcher /\ patcher' = patcher
    BY <1>2, <2>1, BeginHookEffect
  <2>3. HooksOK'
    <3>1. hooks' # <<>>
      BY <2>2
    <3>2. \A h \in 1 .. k + 1 : h < k + 1 => h \in 1 .. k
      BY <2>2
    <3>3. \A h \in 1 .. k : hooks[h].kind = "inline" => h \in entries
      BY <1>1, <2>1, <2>2 DEF HooksOK
    <3> QED
      BY <2>2, <3>1, <3>2, <3>3 DEF HooksOK
  <2>4. Written = k /\ Written' = k
    BY <2>1, <2>2 DEF Written
  <2>5. CodeShape(k)' /\ \A j \in 1 .. k : KeptShape(j) => KeptShape(j)'
    BY <2>2, <2>4, SameShapes DEF ShapesOK
  <2> QED
    BY <2>2, <2>3, <2>4, <2>5 DEF ShapesOK
<1>3. CASE HookFuncImpl
  <2>1. PICK k : k = Len(hooks)
    OBVIOUS
  <2>2. /\ k \in Nat \ {0} /\ step' = "written" /\ entries' = entries /\ Len(hooks') = k
        /\ DOMAIN hooks' = 1 .. k /\ \A j \in 1 .. k : hooks'[j].kind = hooks[j].kind
    BY <1>3, <2>1, HookFuncImplEffect
  <2>3. CodeShape(k)' /\ code' \in [Words -> Word]
    BY <1>3, <2>1, HookFuncImplCode
  <2>4. hooks' \in Seq(Hook) /\ \A j \in 1 .. k : hooks[j].kind # "replace" => KeptShape(j)'
    BY <1>3, <2>1, HookFuncImplKept
  <2>5. step = "window" /\ patcher' = patcher
    BY <1>3 DEF HookFuncImpl, patching
  <2>6. HooksOK'
    BY <1>1, <2>1, <2>2, <2>3, <2>4, <2>5 DEF HooksOK
  <2>7. Written' = k
    BY <2>2 DEF Written
  <2> QED
    BY <2>2, <2>3, <2>4, <2>6, <2>7 DEF ShapesOK
<1>4. ASSUME code' = code, hooks' = hooks, Written' = Written PROVE ShapesOK'
  <2>1. PICK k : k = Written
    OBVIOUS
  <2>3. CodeShape(k) /\ \A h \in 1 .. k : hooks[h].kind # "replace" => KeptShape(h)
    BY <2>1 DEF ShapesOK
  <2>4. CodeShape(k)' /\ \A h \in 1 .. k : hooks[h].kind # "replace" => KeptShape(h)'
    BY <1>4, <2>3 DEF CodeShape, KeptShape, Newest, NewestFar, First, Later, FarWord, Count
  <2> QED
    BY <1>4, <2>1, <2>4 DEF ShapesOK
<1>5. CASE CloseWindow
  <2>1. /\ step = "written" /\ step' = "closed" /\ code' = code /\ hooks' = hooks
        /\ entries' = entries /\ patcher' = patcher
    BY <1>5 DEF CloseWindow, patching
  <2> QED
    BY <1>4, <2>1 DEF HooksOK, Written
<1>6. CASE EndHook
  <2>1. /\ step = "closed" /\ step' = "idle" /\ code' = code /\ hooks' = hooks
        /\ entries' = entries \cup (Inlines \cap {n}) /\ patcher' = patcher
    BY <1>6 DEF EndHook, patching
  <2>2. \A k \in Nat : \A h \in 1 .. k : h < k \/ h = k
    OBVIOUS
  <2>3. \A h \in DOMAIN hooks : hooks[h].kind = "inline" => h \in entries'
    BY <1>1, <2>1, <2>2 DEF HooksOK, Inlines
  <2> QED
    BY <1>4, <2>1, <2>3 DEF HooksOK, Written
<1>7. ASSUME UNCHANGED installed, step = "idle" \/ UNCHANGED patching PROVE HooksOK' /\ ShapesOK'
  BY <1>4, <1>7 DEF HooksOK, Written, installed, patching
<1>8. ASSUME NEW w \in Words, NEW kind \in {"stream", "random"}, BeginPatch(kind, w)
      PROVE  UNCHANGED installed /\ (step = "idle" \/ UNCHANGED patching)
  BY <1>8 DEF BeginPatch, HooksOK
<1>9. ASSUME NEW w \in Words, WriteRandom(w) \/ Seek(w)
      PROVE  UNCHANGED installed /\ (step = "idle" \/ UNCHANGED patching)
  BY <1>9 DEF WriteRandom, Seek, HooksOK, NoPatcher
<1>10. WriteStream \/ EndPatch => UNCHANGED installed /\ (step = "idle" \/ UNCHANGED patching)
  BY DEF WriteStream, EndPatch, HooksOK, NoPatcher
<1>11. ASSUME NEW kind \in Kinds, HookAborts(kind)
       PROVE  UNCHANGED installed /\ (step = "idle" \/ UNCHANGED patching)
  BY <1>11 DEF HookAborts
<1>12. InitPatcherImpl \/ InitializeJit \/ InitializeInline \/ Mapping \/ FindAslrFails
       \/ Stopped \/ UNCHANGED vars => UNCHANGED installed /\ (step = "idle" \/ UNCHANGED patching)
  BY DEF InitPatcherImpl, InitializeJit, InitializeInline, Mapping, FindAslrFails, Stopped, vars
<1> QED
  BY <1>2, <1>3, <1>5, <1>6, <1>7, <1>8, <1>9, <1>10, <1>11, <1>12 DEF Next

(* The pools: one more trampoline than HookMax, and no more entries than    *)
(* InlineMax.                                                               *)
LEMMA PoolsStep == HooksOK /\ PoolsOK /\ [Next]_vars => PoolsOK'
<1> SUFFICES ASSUME HooksOK, PoolsOK, [Next]_vars PROVE PoolsOK'
  OBVIOUS
<1>1. PICK n : n = Len(hooks)
  OBVIOUS
<1>2. n \in Nat /\ DOMAIN hooks = 1 .. n
  BY <1>1, HookTypes
<1>3. /\ IsFiniteSet(Trampolines) /\ IsFiniteSet(Inlines)
      /\ Cardinality(Trampolines) \in Nat /\ Cardinality(Inlines) \in Nat
  <2>1. IsFiniteSet(1 .. n)
    BY <1>2, FS_Interval
  <2>2. Trampolines \subseteq 1 .. n /\ Inlines \subseteq 1 .. n
    BY <1>2 DEF Trampolines, Inlines
  <2>3. IsFiniteSet(Trampolines) /\ IsFiniteSet(Inlines)
    BY <2>1, <2>2, FS_Subset
  <2> QED
    BY <2>3, FS_CardinalityType
<1>4. HookMax \in Nat /\ InlineMax \in Nat
  BY HooksAssumption
<1>5. ASSUME NEW kind \in Kinds, NEW f \in Functions, NEW near \in BOOLEAN,
             NEW direct \in BOOLEAN, BeginHook(kind, f, near, direct)
      PROVE  PoolsOK'
  <2>1. /\ DOMAIN hooks' = 1 .. n + 1 /\ hooks'[n + 1].kind = kind
        /\ \A j \in 1 .. n : hooks'[j] = hooks[j]
    BY <1>1, <1>5, BeginHookEffect
  <2>2. 1 .. n + 1 = (1 .. n) \cup {n + 1} /\ n + 1 \notin 1 .. n
    BY <1>2
  <2>3. Trampolines' = IF kind # "replace" THEN Trampolines \cup {n + 1} ELSE Trampolines
    BY <1>2, <2>1, <2>2 DEF Trampolines
  <2>4. Inlines' = IF kind = "inline" THEN Inlines \cup {n + 1} ELSE Inlines
    BY <1>2, <2>1, <2>2 DEF Inlines
  <2>5. (kind = "inline" => Cardinality(Inlines) < InlineMax)
        /\ (kind # "replace" => Cardinality(Trampolines) <= HookMax)
    BY <1>5 DEF BeginHook, EntriesLeft, TrampolinesLeft
  <2>6. n + 1 \notin Trampolines /\ n + 1 \notin Inlines
    BY <1>2, <2>2 DEF Trampolines, Inlines
  <2>7. Cardinality(Trampolines \cup {n + 1}) = Cardinality(Trampolines) + 1
        /\ Cardinality(Inlines \cup {n + 1}) = Cardinality(Inlines) + 1
    BY <1>3, <2>6, FS_AddElement
  <2>8. Cardinality(Trampolines') <= HookMax + 1
    BY <1>3, <1>4, <2>3, <2>5, <2>7 DEF PoolsOK
  <2>9. Cardinality(Inlines') <= InlineMax
    BY <1>3, <1>4, <2>4, <2>5, <2>7 DEF PoolsOK
  <2> QED
    BY <2>8, <2>9 DEF PoolsOK
<1>6. ASSUME DOMAIN hooks' = DOMAIN hooks, \A j \in DOMAIN hooks : hooks'[j].kind = hooks[j].kind
      PROVE  PoolsOK'
  <2>1. Trampolines' = Trampolines /\ Inlines' = Inlines
    BY <1>6 DEF Trampolines, Inlines
  <2> QED
    BY <2>1 DEF PoolsOK
<1>7. CASE HookFuncImpl
  <2>1. DOMAIN hooks' = 1 .. n /\ \A j \in 1 .. n : hooks'[j].kind = hooks[j].kind
    BY <1>1, <1>7, HookFuncImplEffect
  <2> QED
    BY <1>2, <1>6, <2>1
<1>8. CASE UNCHANGED hooks
  BY <1>6, <1>8
<1>9. ASSUME NEW w \in Words, NEW kind \in {"stream", "random"}, BeginPatch(kind, w)
      PROVE  UNCHANGED hooks
  BY <1>9 DEF BeginPatch, installed
<1>10. ASSUME NEW w \in Words, WriteRandom(w) \/ Seek(w) PROVE UNCHANGED hooks
  BY <1>10 DEF WriteRandom, Seek, installed
<1>11. ASSUME NEW kind \in Kinds, HookAborts(kind) PROVE UNCHANGED hooks
  BY <1>11 DEF HookAborts, installed
<1>12. InitPatcherImpl \/ InitializeJit \/ InitializeInline \/ Mapping \/ FindAslrFails
       \/ WriteStream \/ EndPatch \/ CloseWindow \/ EndHook \/ Stopped \/ UNCHANGED vars
       => UNCHANGED hooks
  BY DEF InitPatcherImpl, InitializeJit, InitializeInline, Mapping, FindAslrFails, WriteStream,
     EndPatch, CloseWindow, EndHook, Stopped, vars, installed
<1> QED
  BY <1>5, <1>7, <1>8, <1>9, <1>10, <1>11, <1>12 DEF Next

LEMMA InitIInv == Init => IInv
<1> SUFFICES ASSUME Init PROVE IInv
  OBVIOUS
<1> USE DEF Init
<1>1. PagesInv
  BY InitPagesInv
<1>2. HooksOK
  <2>1. \A w \in Words : w \in Nat
    BY DEF Words
  <2>2. \A w \in Words : Orig(w) \in Word
    BY <2>1 DEF Orig, Word
  <2> QED
    BY <2>2 DEF HooksOK
<1>3. ShapesOK
  <2>1. Written = 0
    BY DEF Written
  <2>2. ASSUME NEW f \in Functions
        PROVE  code[f] = Orig(f) /\ \A k \in 1 .. FunctionWords - 1 : code[f + k] = Orig(f + k)
    <3>1. f + 0 = f /\ 0 \in 0 .. FunctionWords - 1
      BY FunctionsApart
    <3>2. f \in Words
      BY <3>1, FunctionsApart
    <3>3. \A k \in 1 .. FunctionWords - 1 : k \in 0 .. FunctionWords - 1
      BY FunctionsApart
    <3> QED
      BY <3>2, <3>3, FunctionsApart
  <2>3. CodeShape(0)
    <3> SUFFICES ASSUME NEW f \in Functions, NEW m \in 0 .. 0, NEW far \in 0 .. 0
                 PROVE  /\ code[f] = First(m, f)
                        /\ \A k \in 1 .. FunctionWords - 1 : code[f + k] = Later(far, f, k)
      BY DEF CodeShape
    <3>1. m = 0 /\ far = 0
      OBVIOUS
    <3> QED
      BY <2>2, <3>1 DEF First, Later
  <2>4. \A h : h \notin 1 .. 0
    OBVIOUS
  <2> QED
    BY <2>1, <2>3, <2>4 DEF ShapesOK
<1>4. PatchingOK
  BY HooksAssumption DEF PatchingOK, CodeIsCoherent, NoPatcher
<1>5. PoolsOK
  <2>1. Trampolines = {} /\ Inlines = {}
    BY DEF Trampolines, Inlines
  <2> QED
    BY <2>1, FS_EmptySet, HooksAssumption DEF PoolsOK
<1> QED
  BY <1>1, <1>2, <1>3, <1>4, <1>5 DEF IInv

LEMMA NextIInv == IInv /\ [Next]_vars => IInv'
<1> SUFFICES ASSUME IInv, [Next]_vars PROVE IInv'
  OBVIOUS
<1>1. PagesInv'
  BY PagesStep DEF IInv
<1>2. HooksOK' /\ ShapesOK'
  BY HooksStep DEF IInv
<1>3. PatchingOK'
  BY PatchingStep DEF IInv
<1>4. PoolsOK'
  BY PoolsStep DEF IInv
<1> QED
  BY <1>1, <1>2, <1>3, <1>4 DEF IInv

THEOREM IInvHolds == Spec => []IInv
BY InitIInv, NextIInv, PTL DEF Spec

(* Every variable has its type: the claims lie in the alias region, the     *)
(* pools hold no more than one trampoline over HookMax and InlineMax        *)
(* entries.                                                                 *)
THEOREM TypeIsCorrect == Spec => []TypeOK
<1>1. IInv => TypeOK
  <2> SUFFICES ASSUME IInv PROVE TypeOK
    OBVIOUS
  <2>1. \A i \in Claims : claim[i] # NoClaim =>
          claim[i].rw \in Aslr /\ claim[i].rw + AlignedSize(claim[i]) <= AslrPages
    <3> TAKE i \in Claims
    <3> HAVE claim[i] # NoClaim
    <3>1. i \in Live
      BY DEF Live
    <3>2. claim[i].rw \in Nat /\ AlignedSize(claim[i]) \in Nat \ {0}
          /\ claim[i].rw + AlignedSize(claim[i]) <= AslrPages
      BY <3>1, LiveClaims DEF IInv, PagesInv
    <3> QED
      BY <3>2, PagesAssumption DEF Aslr
  <2>2. alias \in [Aslr -> 0 .. CodePages - 1 \cup {Unmapped}] /\ stopped \in BOOLEAN
    BY DEF IInv, PagesInv, ClaimsOK
  <2>3. step \in {"idle", "window", "written", "closed"} /\ DOMAIN code = Words
    BY DEF IInv, HooksOK
  <2> QED
    BY <2>1, <2>2, <2>3 DEF TypeOK, IInv, PatchingOK, PoolsOK
<1> QED
  BY <1>1, IInvHolds, PTL

(* The aliases are exactly the claims': each mapped page shows the page of   *)
(* the one claim that reserved it, regions are disjoint, and a window that   *)
(* was closed leaves nothing behind (rw_pages.cpp).                          *)
THEOREM AliasesBelongToClaims == Spec => []AliasesAreClaimed
<1>1. IInv => AliasesAreClaimed
  BY PagesInvClaims DEF IInv
<1> QED
  BY <1>1, IInvHolds, PTL

(* What the instruction cache may still have is what the living patcher      *)
(* will flush: nothing is left over by moving, by destroying it or by a      *)
(* hook (patch, hook_impl.cpp).                                              *)
THEOREM CodeStaysCoherent == Spec => []CodeIsCoherent
<1>1. IInv => CodeIsCoherent
  BY DEF IInv, PatchingOK
<1> QED
  BY <1>1, IInvHolds, PTL

-----------------------------------------------------------------------------
(* Running a function.                                                     *)

Step(f, p) == IF p.tramp < 0 THEN p ELSE RunWord(f, p)

Start(f) == Place(0, f, 0, <<>>)

IsRun(r, f, n) == r = [k \in 0 .. n |-> IF k = 0 THEN Start(f) ELSE Step(f, r[k - 1])]

LEMMA RunExists == ASSUME NEW f, NEW n \in Nat PROVE \E r : IsRun(r, f, n)
<1> DEFINE S == {k \in Nat : ~\E r : IsRun(r, f, k)}
<1>1. ASSUME S # {} PROVE FALSE
  <2>1. S \subseteq Nat
    OBVIOUS
  <2> HIDE DEF S
  <2>2. PICK k \in S : \A j \in S : k <= j
    BY <1>1, <2>1, LeastNat
  <2>3. k \in Nat /\ ~\E r : IsRun(r, f, k)
    BY <2>2 DEF S
  <2>4. CASE k = 0
    <3> DEFINE r == [j \in 0 .. 0 |-> Start(f)]
    <3>1. IsRun(r, f, 0)
      BY DEF IsRun
    <3> QED
      BY <2>3, <2>4, <3>1
  <2>5. CASE k # 0
    <3>1. k - 1 \in Nat /\ k - 1 \notin S
      BY <2>1, <2>2, <2>3, <2>5
    <3>2. PICK r : IsRun(r, f, k - 1)
      BY <3>1 DEF S
    <3> DEFINE q == [j \in 0 .. k |-> IF j = 0 THEN Start(f) ELSE Step(f, r[j - 1])]
    <3>3. \A j \in 0 .. k - 1 : q[j] = r[j]
      BY <2>3, <3>2 DEF IsRun
    <3>4. q = [j \in 0 .. k |-> IF j = 0 THEN Start(f) ELSE Step(f, q[j - 1])]
      <4>1. \A j \in 0 .. k : j # 0 => j - 1 \in 0 .. k - 1
        BY <2>3
      <4>2. \A j \in 0 .. k : j # 0 => q[j - 1] = r[j - 1]
        BY <3>3, <4>1
      <4> QED
        BY <4>2
    <3>5. IsRun(q, f, k)
      BY <3>4 DEF IsRun
    <3> QED
      BY <2>3, <3>5
  <2> QED
    BY <2>4, <2>5
<1> QED
  BY <1>1

(* The places r come to within n steps. *)
Runs(r, f, n) == \A k \in 0 .. n - 1 : r[k + 1] = Step(f, r[k])

(* Run(f) is the last place of such a run. *)
LEMMA RunIsARun ==
  ASSUME NEW f, Fuel \in Nat
  PROVE  \E r : Run(f) = r[Fuel] /\ r[0] = Start(f) /\ Runs(r, f, Fuel)
<1> DEFINE r == CHOOSE r : IsRun(r, f, Fuel)
<1>1. IsRun(r, f, Fuel)
  BY RunExists
<1>2. Run(f) = r[Fuel]
  BY DEF Run, IsRun, Start, Step
<1> HIDE DEF r
<1>3. r[0] = Start(f)
  BY <1>1 DEF IsRun
<1>4. ASSUME NEW k \in 0 .. Fuel - 1 PROVE r[k + 1] = Step(f, r[k])
  <2>1. k + 1 \in 0 .. Fuel /\ k + 1 # 0 /\ k + 1 - 1 = k
    OBVIOUS
  <2> QED
    BY <1>1, <2>1 DEF IsRun
<1> QED
  BY <1>2, <1>3, <1>4 DEF Runs

WordAt(t, a) == IF t = 0 THEN code[a] ELSE hooks[t].kept[a]

(* One step, by the word that is there. *)
LEMMA RunPlace ==
  ASSUME NEW f, NEW t, NEW a, NEW x, NEW s, t = 0 => InCode(f, a)
  PROVE  /\ \A w : WordAt(t, a) = Orig(w) =>
              RunWord(f, Place(t, a, x, s)) = After(Place(t, a, x, Append(s, Orig(w))))
         /\ WordAt(t, a) = Nop => RunWord(f, Place(t, a, x, s)) = After(Place(t, a, x, s))
         /\ WordAt(t, a) = LoadX17 =>
              RunWord(f, Place(t, a, x, s)) = After(Place(t, a, code[a + 2][2], s))
         /\ \A h : h # 0 /\ WordAt(t, a) = <<"ldr", h>> =>
              RunWord(f, Place(t, a, x, s)) = After(Place(t, a, h, s))
         /\ WordAt(t, a) = BranchX17 =>
              RunWord(f, Place(t, a, x, s)) = EnterHook(Place(t, a, x, s), x)
         /\ \A h : WordAt(t, a) = Branch(h) =>
              RunWord(f, Place(t, a, x, s)) = EnterHook(Place(t, a, x, s), h)
<1> DEFINE p == Place(t, a, x, s)
<1>1. /\ p.tramp = t /\ p.at = a /\ p.x17 = x /\ p.seen = s
      /\ \A e : [p EXCEPT !.seen = Append(@, e)] = Place(t, a, x, Append(s, e))
      /\ \A y : [p EXCEPT !.x17 = y] = Place(t, a, y, s)
  BY DEF Place
<1> HIDE DEF p
<1> DEFINE word == WordAt(t, a)
<1>2. RunWord(f, p) =
        CASE word[1] = "orig" -> After([p EXCEPT !.seen = Append(@, word)])
          [] word[1] = "nop" -> After(p)
          [] word[1] = "ldr" -> After([p EXCEPT !.x17 = IF word[2] = 0 THEN code[p.at + 2][2] ELSE word[2]])
          [] word[1] = "br" -> EnterHook(p, p.x17)
          [] word[1] = "b" -> EnterHook(p, word[2])
          [] OTHER -> [p EXCEPT !.tramp = Lost]
  BY <1>1 DEF RunWord, WordAt
<1> HIDE DEF word
<1>3. ASSUME NEW w, word = Orig(w) PROVE RunWord(f, p) = After(Place(t, a, x, Append(s, Orig(w))))
  <2>1. word[1] = "orig"
    BY <1>3 DEF Orig
  <2>2. RunWord(f, p) = After([p EXCEPT !.seen = Append(@, word)])
    BY <1>2, <2>1
  <2> QED
    BY <1>1, <1>3, <2>2
<1>4. ASSUME word = Nop PROVE RunWord(f, p) = After(p)
  <2>1. word[1] = "nop"
    BY <1>4 DEF Nop
  <2> QED
    BY <1>2, <2>1
<1>5. ASSUME NEW h, word = <<"ldr", h>>
      PROVE  RunWord(f, p) = After(Place(t, a, IF h = 0 THEN code[a + 2][2] ELSE h, s))
  <2>1. word[1] = "ldr" /\ word[2] = h
    BY <1>5
  <2>2. RunWord(f, p) = After([p EXCEPT !.x17 = IF word[2] = 0 THEN code[p.at + 2][2] ELSE word[2]])
    BY <1>2, <2>1
  <2> QED
    BY <1>1, <2>1, <2>2
<1>6. ASSUME word = BranchX17 PROVE RunWord(f, p) = EnterHook(p, x)
  <2>1. word[1] = "br"
    BY <1>6 DEF BranchX17
  <2> QED
    BY <1>1, <1>2, <2>1
<1>7. ASSUME NEW h, word = Branch(h) PROVE RunWord(f, p) = EnterHook(p, h)
  <2>1. word[1] = "b" /\ word[2] = h
    BY <1>7 DEF Branch
  <2> QED
    BY <1>2, <2>1
<1> QED
  BY <1>3, <1>4, <1>5, <1>6, <1>7 DEF p, word, LoadX17

LEMMA AfterPlace ==
  ASSUME NEW t, NEW a, NEW x, NEW s
  PROVE  /\ t > 0 /\ a = Len(hooks[t].kept) => After(Place(t, a, x, s))
               = Place(0, hooks[t].back, IF hooks[t].direct THEN x ELSE 0, s)
         /\ ~(t > 0 /\ a = Len(hooks[t].kept)) => After(Place(t, a, x, s)) = Place(t, a + 1, x, s)
BY DEF After, Place

(* What a branch to a hook that is installed leads to. *)
Entered(h, x, s) ==
  IF hooks[h].kind = "replace" THEN Place(End, 0, x, Append(s, h)) ELSE Place(h, 1, x, Append(s, h))

LEMMA EnterPlace ==
  ASSUME HooksOK, step = "idle", NEW h \in DOMAIN hooks, NEW t, NEW a, NEW x, NEW s
  PROVE  EnterHook(Place(t, a, x, s), h) = Entered(h, x, s)
<1>1. h # 0
  BY HookTypes
<1>2. hooks[h].kind = "inline" => h \in entries
  BY DEF HooksOK
<1>3. Place(t, a, x, s).x17 = x /\ Place(t, a, x, s).seen = s
  BY DEF Place
<1> QED
  BY <1>1, <1>2, <1>3 DEF EnterHook, Entered

Leads(f, p, q) == q \in {Step(f, p), Step(f, Step(f, p)), Step(f, Step(f, Step(f, p)))}

LEMMA StepPlace ==
  ASSUME NEW f, NEW t \in Nat, NEW a, NEW x, NEW s
  PROVE  Step(f, Place(t, a, x, s)) = RunWord(f, Place(t, a, x, s))
<1>1. Place(t, a, x, s).tramp = t /\ ~(t < 0)
  BY DEF Place
<1> QED
  BY <1>1 DEF Step

LEMMA FarWords ==
  ASSUME NEW f \in Nat, NEW m
  PROVE  /\ f % 2 = 0 => /\ FarWord(m, f, 0) = LoadX17 /\ FarWord(m, f, 1) = BranchX17
                         /\ FarWord(m, f, 2) = Literal(m) /\ 4 + (f % 2) = 4
         /\ f % 2 = 1 => /\ FarWord(m, f, 0) = Nop /\ FarWord(m, f, 1) = LoadX17
                         /\ FarWord(m, f, 2) = BranchX17 /\ FarWord(m, f, 3) = Literal(m)
                         /\ 4 + (f % 2) = 5
         /\ f % 2 = 0 \/ f % 2 = 1
BY DEF FarWord

LEMMA KeptValues ==
  /\ \A m : Kept(LoadX17, m) = <<"ldr", m>> /\ Kept(Nop, m) = Nop /\ Kept(BranchX17, m) = BranchX17
  /\ \A m, w : Kept(Branch(w), m) = Branch(w) /\ Kept(Orig(w), m) = Orig(w)
BY WordKinds DEF Kept

(* The words of a far hook in the code lead to its callback, from the first *)
(* on or, with what x17 has there, from the second on.                      *)
LEMMA CodeLeads ==
  ASSUME HooksOK, step = "idle", NEW f \in Functions, NEW m \in DOMAIN hooks,
         \A k \in 1 .. 3 : code[f + k] = FarWord(m, f, k), NEW x, NEW s
  PROVE  /\ f % 2 = 0 => Step(f, Place(0, f + 1, m, s)) = Entered(m, m, s)
         /\ f % 2 = 1 => Step(f, Step(f, Place(0, f + 1, x, s))) = Entered(m, m, s)
         /\ code[f] = FarWord(m, f, 0) => Leads(f, Place(0, f, x, s), Entered(m, m, s))
<1>1. f \in Nat /\ \A k \in 0 .. 4 : InCode(f, f + k)
  BY FunctionsApart DEF InCode
<1>2. /\ WordAt(0, f + 1) = FarWord(m, f, 1) /\ WordAt(0, f + 2) = FarWord(m, f, 2)
      /\ code[f + 3] = FarWord(m, f, 3) /\ WordAt(0, f) = code[f] /\ code[f + 2] = FarWord(m, f, 2)
  BY DEF WordAt
<1>3. InCode(f, f) /\ InCode(f, f + 1) /\ InCode(f, f + 2)
  <2>1. f + 0 = f /\ 0 \in 0 .. 4 /\ 1 \in 0 .. 4 /\ 2 \in 0 .. 4
    BY <1>1
  <2> QED
    BY <1>1, <2>1
<1>4. ASSUME NEW a, NEW y PROVE After(Place(0, a, y, s)) = Place(0, a + 1, y, s)
  BY AfterPlace
<1>5. f + 1 + 1 = f + 2 /\ f + 1 + 2 = f + 3
  BY <1>1
<1>6. CASE f % 2 = 0
  <2>1. WordAt(0, f + 1) = BranchX17 /\ code[f + 2] = Literal(m) /\ f % 2 # 1
    BY <1>1, <1>2, <1>6, FarWords
  <2>2. Step(f, Place(0, f + 1, m, s)) = Entered(m, m, s)
    <3>1. RunWord(f, Place(0, f + 1, m, s)) = EnterHook(Place(0, f + 1, m, s), m)
      BY <1>3, <2>1, RunPlace
    <3> QED
      BY <3>1, EnterPlace, StepPlace
  <2>3. ASSUME code[f] = FarWord(m, f, 0) PROVE Leads(f, Place(0, f, x, s), Entered(m, m, s))
    <3>1. WordAt(0, f) = LoadX17
      BY <1>1, <1>2, <1>6, <2>3, FarWords
    <3>2. RunWord(f, Place(0, f, x, s)) = After(Place(0, f, code[f + 2][2], s))
      BY <1>3, <3>1, RunPlace
    <3>3. code[f + 2][2] = m
      BY <2>1, WordKinds
    <3>4. Step(f, Place(0, f, x, s)) = Place(0, f + 1, m, s)
      BY <1>4, <3>2, <3>3, StepPlace
    <3> QED
      BY <2>2, <3>4 DEF Leads
  <2> QED
    BY <2>1, <2>2, <2>3
<1>7. CASE f % 2 = 1
  <2>1. /\ WordAt(0, f + 1) = LoadX17 /\ WordAt(0, f + 2) = BranchX17
        /\ code[f + 3] = Literal(m) /\ f % 2 # 0
    BY <1>1, <1>2, <1>7, FarWords
  <2>2. Step(f, Step(f, Place(0, f + 1, x, s))) = Entered(m, m, s)
    <3>1. RunWord(f, Place(0, f + 1, x, s)) = After(Place(0, f + 1, code[f + 1 + 2][2], s))
      BY <1>3, <2>1, RunPlace
    <3>2. code[f + 1 + 2][2] = m
      BY <1>5, <2>1, WordKinds
    <3>3. Step(f, Place(0, f + 1, x, s)) = Place(0, f + 2, m, s)
      BY <1>4, <1>5, <3>1, <3>2, StepPlace
    <3>4. RunWord(f, Place(0, f + 2, m, s)) = EnterHook(Place(0, f + 2, m, s), m)
      BY <1>3, <2>1, RunPlace
    <3> QED
      BY <3>3, <3>4, EnterPlace, StepPlace
  <2>3. ASSUME code[f] = FarWord(m, f, 0) PROVE Leads(f, Place(0, f, x, s), Entered(m, m, s))
    <3>1. WordAt(0, f) = Nop
      BY <1>1, <1>2, <1>7, <2>3, FarWords
    <3>2. RunWord(f, Place(0, f, x, s)) = After(Place(0, f, x, s))
      BY <1>3, <3>1, RunPlace
    <3>3. Step(f, Place(0, f, x, s)) = Place(0, f + 1, x, s)
      BY <1>4, <3>2, StepPlace
    <3> QED
      BY <2>2, <3>3 DEF Leads
  <2> QED
    BY <2>1, <2>2, <2>3
<1> QED
  BY <1>1, <1>6, <1>7, FarWords

(* A call of f comes to the callback of its newest hook. *)
LEMMA EnterFirst ==
  ASSUME IInv, step = "idle", NEW f \in Functions, NEW m \in DOMAIN hooks,
         Newest(Len(hooks), f, m), NEW x, NEW s
  PROVE  Leads(f, Place(0, f, x, s), Entered(m, m, s)) \/ Leads(f, Place(0, f, x, s), Entered(m, x, s))
<1>1. HooksOK /\ CodeShape(Len(hooks)) /\ Len(hooks) \in Nat /\ DOMAIN hooks = 1 .. Len(hooks)
  BY HookTypes DEF IInv, ShapesOK, Written
<1>2. PICK far \in 0 .. Len(hooks) : NewestFar(Len(hooks), f, far)
  BY <1>1, NewestExists
<1>3. m \in 0 .. Len(hooks) /\ m # 0 /\ hooks[m].near \in BOOLEAN
  BY <1>1, HookTypes
<1>4. /\ code[f] = First(m, f)
      /\ \A k \in 1 .. FunctionWords - 1 : code[f + k] = Later(far, f, k)
  BY <1>1, <1>2, <1>3 DEF CodeShape
<1>5. f \in Nat /\ FunctionWords \in Nat /\ FunctionWords >= 5 /\ f % 2 \in {0, 1}
  BY FunctionsApart
<1>6. CASE hooks[m].near
  <2>1. WordAt(0, f) = Branch(m)
    BY <1>3, <1>4, <1>6 DEF WordAt, First
  <2>2. InCode(f, f)
    BY <1>5 DEF InCode
  <2>3. RunWord(f, Place(0, f, x, s)) = EnterHook(Place(0, f, x, s), m)
    BY <2>1, <2>2, RunPlace
  <2>4. Step(f, Place(0, f, x, s)) = Entered(m, x, s)
    BY <1>1, <2>3, EnterPlace, StepPlace
  <2> QED
    BY <2>4 DEF Leads
<1>7. CASE ~hooks[m].near
  <2>1. far = m
    BY <1>1, <1>2, <1>3, <1>7, NewestIsUnique
  <2>2. code[f] = FarWord(m, f, 0)
    BY <1>3, <1>4, <1>7 DEF First
  <2>3. \A k \in 1 .. 3 : code[f + k] = FarWord(m, f, k)
    BY <1>3, <1>4, <1>5, <2>1 DEF Later
  <2> QED
    BY <1>1, <2>2, <2>3, CodeLeads
<1> QED
  BY <1>3, <1>6, <1>7

LEMMA KeptFacts ==
  ASSUME IInv, step = "idle", NEW h \in DOMAIN hooks, hooks[h].kind # "replace",
         NEW f, f = hooks[h].at,
         NEW m \in 0 .. h - 1, NEW far \in 0 .. h - 1, Newest(h - 1, f, m), NewestFar(h - 1, f, far)
  PROVE  /\ Len(hooks[h].kept) = Count(hooks[h]) /\ hooks[h].back = f + Count(hooks[h])
         /\ Count(hooks[h]) = IF hooks[h].near THEN 1 ELSE 4 + (f % 2)
         /\ WordAt(h, 1) = Kept(First(m, f), m)
         /\ \A k \in 2 .. Count(hooks[h]) : WordAt(h, k) = Kept(Later(far, f, k - 1), far)
         /\ h \in Nat /\ h # 0 /\ h - 1 \in Nat /\ f \in Functions /\ f \in Nat
<1>1. HooksOK /\ DOMAIN hooks = 1 .. Len(hooks) /\ Len(hooks) \in Nat
  BY HookTypes DEF IInv
<1>2. KeptShape(h)
  BY <1>1 DEF IInv, ShapesOK, Written
<1>3. /\ h \in Nat /\ h # 0 /\ h - 1 \in Nat
      /\ f \in Functions /\ f \in Nat /\ hooks[h].at \in Nat /\ hooks[h].near \in BOOLEAN
  BY <1>1, HookTypes
<1>4. Count(hooks[h]) \in 1 .. 5
      /\ Count(hooks[h]) = IF hooks[h].near THEN 1 ELSE 4 + (f % 2)
  BY <1>3, PatchWords
<1>5. /\ Len(hooks[h].kept) = Count(hooks[h]) /\ hooks[h].back = f + Count(hooks[h])
      /\ hooks[h].kept[1] = Kept(First(m, f), m)
      /\ \A k \in 2 .. Count(hooks[h]) : hooks[h].kept[k] = Kept(Later(far, f, k - 1), far)
  BY <1>2, <1>3, <1>4 DEF KeptShape
<1> QED
  BY <1>3, <1>4, <1>5 DEF WordAt

(* The original that a hook's callback calls comes to the callback of the    *)
(* next older hook on f.                                                     *)
LEMMA EnterNext ==
  ASSUME IInv, step = "idle", NEW h \in DOMAIN hooks, hooks[h].kind # "replace",
         NEW f, f = hooks[h].at, ~FarOverNear(f), ~ReturnLosesX17(f),
         NEW m \in 1 .. h - 1, Newest(h - 1, f, m), NEW x, NEW s
  PROVE  Leads(f, Place(h, 1, x, s), Entered(m, m, s)) \/ Leads(f, Place(h, 1, x, s), Entered(m, x, s))
<1>1. HooksOK /\ CodeShape(Len(hooks)) /\ DOMAIN hooks = 1 .. Len(hooks) /\ Len(hooks) \in Nat
  BY HookTypes DEF IInv, ShapesOK, Written
<1>2. h \in Nat /\ h - 1 \in Nat /\ h <= Len(hooks) /\ h >= 1
  BY <1>1
<1>3. PICK far \in 0 .. h - 1 : NewestFar(h - 1, f, far)
  BY <1>2, NewestExists
<1>4. m \in Nat /\ m # 0 /\ m \in 0 .. h - 1 /\ m \in DOMAIN hooks /\ m < h
  BY <1>1, <1>2
<1> DEFINE c == Count(hooks[h])
<1>5. /\ Len(hooks[h].kept) = c /\ hooks[h].back = f + c
      /\ c = IF hooks[h].near THEN 1 ELSE 4 + (f % 2)
      /\ WordAt(h, 1) = Kept(First(m, f), m)
      /\ \A k \in 2 .. c : WordAt(h, k) = Kept(Later(far, f, k - 1), far)
      /\ f \in Functions /\ f \in Nat
  BY <1>3, <1>4, KeptFacts
<1> HIDE DEF c
<1>6. hooks[m].near \in BOOLEAN /\ hooks[h].near \in BOOLEAN /\ hooks[m].at = f
  BY <1>1, <1>4, HookTypes DEF Newest
<1>7. CASE hooks[m].near
  <2>1. WordAt(h, 1) = Branch(m)
    BY <1>4, <1>5, <1>7, KeptValues DEF First
  <2>2. RunWord(f, Place(h, 1, x, s)) = EnterHook(Place(h, 1, x, s), m)
    BY <1>2, <2>1, RunPlace
  <2>3. Step(f, Place(h, 1, x, s)) = Entered(m, x, s)
    BY <1>1, <1>2, <1>4, <2>2, EnterPlace, StepPlace
  <2> QED
    BY <2>3 DEF Leads
<1>8. CASE ~hooks[m].near
  <2>1. far = m
    BY <1>2, <1>3, <1>4, <1>8, NewestIsUnique
  <2>2. WordAt(h, 1) = Kept(FarWord(m, f, 0), m)
    BY <1>4, <1>5, <1>8 DEF First
  <2>3. CASE ~hooks[h].near
    <3>1. c = 4 + (f % 2)
      BY <1>5, <2>3
    <3>2. \A k \in 2 .. 3 : WordAt(h, k) = Kept(FarWord(m, f, k - 1), m)
      <4>1. \A k \in 2 .. 3 : k \in 2 .. c /\ k - 1 < 4 + (f % 2)
        BY <1>5, <3>1
      <4> QED
        BY <1>4, <1>5, <2>1, <4>1 DEF Later
    <3>3. WordAt(h, 2) = Kept(FarWord(m, f, 1), m) /\ WordAt(h, 3) = Kept(FarWord(m, f, 2), m)
      <4>1. 2 \in 2 .. 3 /\ 3 \in 2 .. 3 /\ 2 - 1 = 1 /\ 3 - 1 = 2
        OBVIOUS
      <4> QED
        BY <3>2, <4>1
    <3>4. ASSUME NEW a \in {1, 2, 3}, NEW y PROVE After(Place(h, a, y, s)) = Place(h, a + 1, y, s)
      <4>1. a # Len(hooks[h].kept)
        BY <1>5, <3>1
      <4> QED
        BY <4>1, AfterPlace
    <3>5. CASE f % 2 = 0
      <4>1. WordAt(h, 1) = <<"ldr", m>> /\ WordAt(h, 2) = BranchX17
        BY <1>5, <2>2, <3>3, <3>5, FarWords, KeptValues
      <4>2. RunWord(f, Place(h, 1, x, s)) = After(Place(h, 1, m, s))
        BY <1>2, <1>4, <4>1, RunPlace
      <4>3. Step(f, Place(h, 1, x, s)) = Place(h, 1 + 1, m, s)
        BY <1>2, <3>4, <4>2, StepPlace
      <4>4. RunWord(f, Place(h, 2, m, s)) = EnterHook(Place(h, 2, m, s), m)
        BY <1>2, <4>1, RunPlace
      <4>5. Step(f, Place(h, 2, m, s)) = Entered(m, m, s)
        BY <1>1, <1>2, <1>4, <4>4, EnterPlace, StepPlace
      <4>6. 1 + 1 = 2
        OBVIOUS
      <4> QED
        BY <4>3, <4>5, <4>6 DEF Leads
    <3>6. CASE f % 2 = 1
      <4>1. WordAt(h, 1) = Nop /\ WordAt(h, 2) = <<"ldr", m>> /\ WordAt(h, 3) = BranchX17
        BY <1>5, <2>2, <3>3, <3>6, FarWords, KeptValues
      <4>2. RunWord(f, Place(h, 1, x, s)) = After(Place(h, 1, x, s))
        BY <1>2, <4>1, RunPlace
      <4>3. Step(f, Place(h, 1, x, s)) = Place(h, 1 + 1, x, s)
        BY <1>2, <3>4, <4>2, StepPlace
      <4>4. RunWord(f, Place(h, 2, x, s)) = After(Place(h, 2, m, s))
        BY <1>2, <1>4, <4>1, RunPlace
      <4>5. Step(f, Place(h, 2, x, s)) = Place(h, 2 + 1, m, s)
        BY <1>2, <3>4, <4>4, StepPlace
      <4>6. RunWord(f, Place(h, 3, m, s)) = EnterHook(Place(h, 3, m, s), m)
        BY <1>2, <4>1, RunPlace
      <4>7. Step(f, Place(h, 3, m, s)) = Entered(m, m, s)
        BY <1>1, <1>2, <1>4, <4>6, EnterPlace, StepPlace
      <4>8. 1 + 1 = 2 /\ 2 + 1 = 3
        OBVIOUS
      <4> QED
        BY <4>3, <4>5, <4>7, <4>8 DEF Leads
    <3> QED
      BY <1>5, <3>5, <3>6
  <2>4. CASE hooks[h].near
    <3>1. c = 1 /\ Len(hooks[h].kept) = 1 /\ hooks[h].back = f + 1
      BY <1>5, <2>4
    <3>2. PICK all \in 0 .. Len(hooks) : NewestFar(Len(hooks), f, all)
      BY <1>1, NewestExists
    <3>3. PICK newest \in 0 .. Len(hooks) : Newest(Len(hooks), f, newest)
      BY <1>1, NewestExists
    <3>4. all = m
      <4>1. all \in Nat /\ (all # 0 => all \in DOMAIN hooks)
        BY <1>1
      <4>2. m <= all
        BY <1>1, <1>4, <1>6, <1>8, <3>2, <4>1 DEF NewestFar
      <4>3. ASSUME all > h PROVE FALSE
        <5>1. all \in HooksOn(f) /\ h \in HooksOn(f) /\ ~hooks[all].near
          BY <1>2, <3>2, <4>1, <4>3 DEF HooksOn, NewestFar
        <5> QED
          BY <2>4, <4>3, <5>1 DEF FarOverNear
      <4>4. all # h
        BY <1>2, <2>4, <3>2 DEF NewestFar
      <4>5. ASSUME all > m PROVE FALSE
        <5>1. all \in 1 .. h - 1
          BY <1>2, <4>1, <4>3, <4>4, <4>5, <1>4
        <5>2. hooks[all].at = f
          BY <3>2, <5>1 DEF NewestFar
        <5> QED
          BY <4>5, <5>1, <5>2 DEF Newest
      <4> QED
        BY <1>4, <4>1, <4>2, <4>5
    <3>5. \A k \in 1 .. 3 : code[f + k] = FarWord(m, f, k)
      <4>1. FunctionWords \in Nat /\ FunctionWords >= 5 /\ f % 2 \in {0, 1}
        <5>1. FunctionWords \in Nat /\ FunctionWords >= 5
          BY HooksAssumption
        <5>2. f % 2 \in {0, 1}
          BY <1>5
        <5> QED
          BY <5>1, <5>2
      <4>2. \A k \in 1 .. FunctionWords - 1 : code[f + k] = Later(m, f, k)
        BY <1>1, <1>5, <3>2, <3>3, <3>4 DEF CodeShape
      <4> QED
        BY <1>4, <4>1, <4>2 DEF Later
    <3>6. ASSUME NEW y
          PROVE  After(Place(h, 1, y, s)) = Place(0, f + 1, IF hooks[h].direct THEN y ELSE 0, s)
      <4>1. h > 0 /\ 1 = Len(hooks[h].kept)
        BY <1>2, <3>1
      <4>2. After(Place(h, 1, y, s)) = Place(0, hooks[h].back, IF hooks[h].direct THEN y ELSE 0, s)
        BY <4>1 DEF After, Place
      <4> QED
        BY <3>1, <4>2
    <3>7. CASE f % 2 = 0
      <4>1. WordAt(h, 1) = <<"ldr", m>>
        BY <1>5, <2>2, <3>7, FarWords, KeptValues
      <4>2. RunWord(f, Place(h, 1, x, s)) = After(Place(h, 1, m, s))
        BY <1>2, <1>4, <4>1, RunPlace
      <4>5. hooks[h].direct
        <5>1. m \in HooksOn(f) /\ h \in HooksOn(f)
          BY <1>1, <1>2, <1>4, <1>6 DEF HooksOn
        <5>2. \A j \in HooksOn(f) : ~(m < j /\ j < h)
          <6> SUFFICES ASSUME NEW j \in HooksOn(f), m < j, j < h PROVE FALSE
            OBVIOUS
          <6>1. j \in 1 .. h - 1 /\ hooks[j].at = f
            BY <1>1, <1>2, <1>4 DEF HooksOn
          <6> QED
            BY <6>1 DEF Newest
        <5> QED
          BY <1>4, <1>8, <2>4, <3>7, <5>1, <5>2 DEF ReturnLosesX17
      <4>3. Step(f, Place(h, 1, x, s)) = Place(0, f + 1, m, s)
        BY <1>2, <3>6, <4>2, <4>5, StepPlace
      <4>4. Step(f, Place(0, f + 1, m, s)) = Entered(m, m, s)
        BY <1>1, <1>4, <1>5, <3>5, <3>7, CodeLeads
      <4> QED
        BY <4>3, <4>4 DEF Leads
    <3>8. CASE f % 2 = 1
      <4> DEFINE y == IF hooks[h].direct THEN x ELSE 0
      <4>1. WordAt(h, 1) = Nop
        BY <1>5, <2>2, <3>8, FarWords, KeptValues
      <4>2. RunWord(f, Place(h, 1, x, s)) = After(Place(h, 1, x, s))
        BY <1>2, <4>1, RunPlace
      <4>3. Step(f, Place(h, 1, x, s)) = Place(0, f + 1, y, s)
        BY <1>2, <3>6, <4>2, StepPlace
      <4> HIDE DEF y
      <4>4. Step(f, Step(f, Place(0, f + 1, y, s))) = Entered(m, m, s)
        <5>1. f \in Functions /\ m \in DOMAIN hooks /\ HooksOK
          BY <1>1, <1>4, <1>5
        <5>2. f % 2 = 1 => Step(f, Step(f, Place(0, f + 1, y, s))) = Entered(m, m, s)
          BY <3>5, <5>1, CodeLeads
        <5> QED
          BY <3>8, <5>2
      <4> QED
        BY <4>3, <4>4 DEF Leads
    <3> QED
      BY <1>5, <3>7, <3>8, FarWords
  <2> QED
    BY <1>6, <2>3, <2>4
<1> QED
  BY <1>6, <1>7, <1>8

(* Where the run has ended it stays. *)
Ended(r, i) == r[i].tramp < 0

LEMMA EndIsFinal ==
  ASSUME NEW f, NEW n \in Nat, NEW r, Runs(r, f, n),
         NEW i \in 0 .. n, Ended(r, i)
  PROVE  r[n] = r[i]
<1> DEFINE S == {k \in i .. n : r[k] # r[i]}
<1>1. ASSUME S # {} PROVE FALSE
  <2>1. S \subseteq Nat
    OBVIOUS
  <2> HIDE DEF S
  <2>2. PICK k \in S : \A j \in S : k <= j
    BY <1>1, <2>1, LeastNat
  <2>3. k \in i .. n /\ r[k] # r[i]
    BY <2>2 DEF S
  <2>4. k - 1 \in i .. n /\ k - 1 \in 0 .. n - 1 /\ k - 1 + 1 = k /\ ~(k <= k - 1)
    <3>1. k # i
      BY <2>3
    <3> QED
      BY <2>3, <3>1
  <2>5. r[k - 1] = r[i]
    BY <2>2, <2>4 DEF S
  <2>6. r[k] = Step(f, r[k - 1])
    BY <2>4 DEF Runs
  <2> QED
    BY <2>3, <2>5, <2>6 DEF Step, Ended
<1>2. n \in i .. n
  OBVIOUS
<1> QED
  BY <1>1, <1>2

(* A run that leads on does so within three steps. *)
LeadsFrom(f, r, i, q) == Leads(f, r[i], q)

LEMMA LeadsInRun ==
  ASSUME NEW f, NEW n \in Nat, NEW r, Runs(r, f, n),
         NEW i \in Nat, NEW m \in Nat, m = i + 3, m <= n,
         NEW q, LeadsFrom(f, r, i, q)
  PROVE  \E j \in Nat : j <= m /\ r[j] = q
<1>1. i \in 0 .. n - 1 /\ i + 1 \in 0 .. n - 1 /\ i + 2 \in 0 .. n - 1 /\ i + 1 + 1 = i + 2 /\ i + 2 + 1 = i + 3
  OBVIOUS
<1>2. r[i + 1] = Step(f, r[i])
  BY <1>1 DEF Runs
<1>3. r[i + 2] = Step(f, r[i + 1])
  BY <1>1 DEF Runs
<1>4. r[i + 3] = Step(f, r[i + 2])
  BY <1>1 DEF Runs
<1>5. q = r[i + 1] \/ q = r[i + 2] \/ q = r[i + 3]
  BY <1>2, <1>3, <1>4 DEF Leads, LeadsFrom
<1>6. i + 1 \in Nat /\ i + 2 \in Nat /\ i + 3 \in Nat /\ i + 1 <= m /\ i + 2 <= m /\ i + 3 <= m
  OBVIOUS
<1> QED
  BY <1>5, <1>6

(* What was seen, and then the first j words of the body. *)
SeenWith(s, f, j) == s \o [k \in 1 .. j |-> Orig(f + k - 1)]

LEMMA SeenGrows ==
  ASSUME NEW f \in Nat, NEW s \in Seq(Nat), NEW j \in Nat
  PROVE  /\ SeenWith(s, f, 0) = s
         /\ Append(SeenWith(s, f, j), Orig(f + j)) = SeenWith(s, f, j + 1)
<1> DEFINE D == Nat \cup Word
           B(i) == [k \in 1 .. i |-> Orig(f + k - 1)]
<1>1. s \in Seq(D)
  BY SeqMonotonic
<1>2. \A w \in Nat : Orig(w) \in D
  BY DEF Orig, Word
<1>3. ASSUME NEW i \in Nat PROVE B(i) \in Seq(D) /\ Len(B(i)) = i /\ \A k \in 1 .. i : B(i)[k] = Orig(f + k - 1)
  <2>1. \A k \in 1 .. i : f + k - 1 \in Nat
    OBVIOUS
  <2>2. B(i) \in [1 .. i -> D]
    BY <1>2, <2>1
  <2>3. B(i) = [k \in 1 .. i |-> Orig(f + k - 1)]
    OBVIOUS
  <2>4. \A k \in 1 .. i : B(i)[k] = Orig(f + k - 1)
    BY <2>3
  <2> HIDE DEF B
  <2>5. B(i) \in Seq(D) /\ Len(B(i)) = i
    BY <2>2
  <2> QED
    BY <2>4, <2>5
<1>4. B(0) = <<>>
  OBVIOUS
<1>5. SeenWith(s, f, 0) = s
  BY <1>1, <1>4, ConcatEmptySeq DEF SeenWith
<1>6. j + 1 \in Nat
  OBVIOUS
<1> HIDE DEF D, B
<1> DEFINE n == Len(s)
           t == s \o B(j)
           u == s \o B(j + 1)
           e == Orig(f + j)
<1>7. n \in Nat /\ Len(B(j)) = j /\ Len(B(j + 1)) = j + 1 /\ f + j \in Nat
  BY <1>1, <1>3, <1>6
<1>8. t \in Seq(D) /\ Len(t) = n + j
      /\ \A i \in 1 .. n + j : t[i] = IF i <= n THEN s[i] ELSE B(j)[i - n]
  <2>1. B(j) \in Seq(D)
    BY <1>3
  <2>2. t \in Seq(D) /\ Len(t) = Len(s) + Len(B(j))
        /\ \A i \in 1 .. Len(s) + Len(B(j)) : t[i] = IF i <= Len(s) THEN s[i] ELSE B(j)[i - Len(s)]
    BY <1>1, <2>1, ConcatProperties
  <2> HIDE DEF t
  <2> QED
    BY <1>7, <2>2
<1>9. u \in Seq(D) /\ Len(u) = n + (j + 1)
      /\ \A i \in 1 .. n + (j + 1) : u[i] = IF i <= n THEN s[i] ELSE B(j + 1)[i - n]
  <2>1. B(j + 1) \in Seq(D)
    BY <1>3, <1>6
  <2>2. u \in Seq(D) /\ Len(u) = Len(s) + Len(B(j + 1))
        /\ \A i \in 1 .. Len(s) + Len(B(j + 1)) :
             u[i] = IF i <= Len(s) THEN s[i] ELSE B(j + 1)[i - Len(s)]
    BY <1>1, <2>1, ConcatProperties
  <2> HIDE DEF u
  <2> QED
    BY <1>7, <2>2
<1>10. e \in D
  BY <1>2, <1>7
<1> HIDE DEF t, u, e, n
<1>11. Append(t, e) \in Seq(D) /\ Len(Append(t, e)) = n + j + 1
       /\ Append(t, e)[n + j + 1] = e /\ \A i \in 1 .. n + j : Append(t, e)[i] = t[i]
  BY <1>8, <1>10
<1>12. \A i \in 1 .. n + j + 1 : Append(t, e)[i] = u[i]
  <2> TAKE i \in 1 .. n + j + 1
  <2>1. i \in Nat /\ (i <= n + j \/ i = n + j + 1) /\ i \in 1 .. n + (j + 1)
    BY <1>7
  <2>2. CASE i <= n
    <3>1. i \in 1 .. n + j
      BY <1>7, <2>1, <2>2
    <3>2. t[i] = s[i] /\ u[i] = s[i] /\ Append(t, e)[i] = t[i]
      BY <1>8, <1>9, <1>11, <2>1, <2>2, <3>1
    <3> QED
      BY <3>2
  <2>3. CASE ~(i <= n) /\ i <= n + j
    <3>1. i - n \in 1 .. j /\ i - n \in 1 .. j + 1 /\ i \in 1 .. n + j
      BY <1>7, <2>1, <2>3
    <3>2. t[i] = B(j)[i - n] /\ u[i] = B(j + 1)[i - n]
      BY <1>8, <1>9, <2>1, <2>3, <3>1
    <3>3. B(j)[i - n] = B(j + 1)[i - n]
      BY <1>3, <1>6, <3>1
    <3> QED
      BY <1>11, <3>1, <3>2, <3>3
  <2>4. CASE i = n + j + 1
    <3>1. ~(i <= n) /\ i - n = j + 1 /\ j + 1 \in 1 .. j + 1 /\ f + (j + 1) - 1 = f + j
      BY <1>7, <2>4
    <3>2. u[i] = B(j + 1)[j + 1]
      BY <1>9, <2>1, <3>1
    <3>3. B(j + 1)[j + 1] = Orig(f + j)
      BY <1>3, <1>6, <3>1
    <3> QED
      BY <1>11, <2>4, <3>2, <3>3 DEF e
  <2> QED
    BY <2>1, <2>2, <2>3, <2>4
<1>13. Append(t, e) = u
  <2>2. Len(Append(t, e)) = n + j + 1 /\ n + (j + 1) = n + j + 1
    BY <1>7, <1>11
  <2>1. Len(Append(t, e)) = Len(u) /\ \A i \in 1 .. Len(Append(t, e)) : Append(t, e)[i] = u[i]
    BY <1>9, <1>12, <2>2, Zenon
  <2> QED
    BY <1>9, <1>11, <2>1, SeqEqual
<1> QED
  BY <1>5, <1>13 DEF SeenWith, t, u, e, B

(* Hook h keeps the first c of the game's instructions, and the function has *)
(* the others.                                                               *)
KeepsBody(f, h, c) ==
  /\ h = 0 <=> c = 0
  /\ h # 0 => Len(hooks[h].kept) = c /\ hooks[h].back = f + c
  /\ \A j \in 0 .. c - 1 : WordAt(h, j + 1) = Orig(f + j)
  /\ \A j \in c .. FunctionWords - 1 : code[f + j] = Orig(f + j)

(* The place after the first j of the game's instructions, of which hook h  *)
(* keeps the first c.                                                       *)
Returned(h, x) == IF h # 0 /\ ~hooks[h].direct THEN 0 ELSE x

BodyPlace(f, h, c, x, s, j) ==
  IF j < c THEN Place(h, j + 1, x, SeenWith(s, f, j))
  ELSE Place(0, f + j, Returned(h, x), SeenWith(s, f, j))

LEMMA BodyStep ==
  ASSUME NEW f \in Functions, NEW h \in Nat, NEW c \in 0 .. 5, KeepsBody(f, h, c),
         NEW x, NEW s \in Seq(Nat)
  PROVE  \A j \in 0 .. FunctionWords - 1 :
           Step(f, BodyPlace(f, h, c, x, s, j)) = BodyPlace(f, h, c, x, s, j + 1)
<1> TAKE j \in 0 .. FunctionWords - 1
<1>10. /\ h = 0 <=> c = 0
       /\ h # 0 => Len(hooks[h].kept) = c /\ hooks[h].back = f + c
       /\ \A k \in 0 .. c - 1 : WordAt(h, k + 1) = Orig(f + k)
       /\ \A k \in c .. FunctionWords - 1 : code[f + k] = Orig(f + k)
  BY DEF KeepsBody
<1> DEFINE W == FunctionWords
<1>1. f \in Nat /\ W \in Nat /\ W >= 5
  BY FunctionsApart
<1>2. c \in Nat /\ c <= W
  BY <1>1
<1> DEFINE t == SeenWith(s, f, j)
           u == SeenWith(s, f, j + 1)
<1>3. j \in Nat /\ j < W
  BY <1>1
<1>4. Append(t, Orig(f + j)) = u
  BY <1>1, <1>3, SeenGrows
<1> HIDE DEF t, u
<1>5. CASE j < c
  <2>1. BodyPlace(f, h, c, x, s, j) = Place(h, j + 1, x, t) /\ h # 0 /\ j \in 0 .. c - 1
    BY <1>3, <1>5, <1>10 DEF t, BodyPlace
  <2>2. WordAt(h, j + 1) = Orig(f + j)
    BY <1>10, <2>1
  <2>3. RunWord(f, Place(h, j + 1, x, t)) = After(Place(h, j + 1, x, u))
    <3>1. RunWord(f, Place(h, j + 1, x, t)) = After(Place(h, j + 1, x, Append(t, Orig(f + j))))
      BY <2>1, <2>2, RunPlace
    <3> QED
      BY <1>4, <3>1
  <2>4. Step(f, BodyPlace(f, h, c, x, s, j)) = After(Place(h, j + 1, x, u))
    BY <2>1, <2>3, StepPlace
  <2>5. CASE j + 1 = c
    <3>1. h > 0 /\ j + 1 = Len(hooks[h].kept) /\ hooks[h].back = f + (j + 1) /\ ~(j + 1 < c)
      BY <1>10, <2>1, <2>5
    <3>2. After(Place(h, j + 1, x, u)) = Place(0, f + (j + 1), Returned(h, x), u)
      <4>1. After(Place(h, j + 1, x, u))
              = Place(0, hooks[h].back, IF hooks[h].direct THEN x ELSE 0, u)
        BY <3>1, AfterPlace
      <4> QED
        BY <2>1, <3>1, <4>1 DEF Returned
    <3>3. BodyPlace(f, h, c, x, s, j + 1) = Place(0, f + (j + 1), Returned(h, x), u)
      BY <3>1 DEF u, BodyPlace
    <3> QED
      BY <2>4, <3>2, <3>3
  <2>6. CASE j + 1 # c
    <3>1. j + 1 # Len(hooks[h].kept) /\ j + 1 < c
      BY <1>2, <1>5, <1>3, <1>10, <2>1, <2>6
    <3>2. After(Place(h, j + 1, x, u)) = Place(h, j + 1 + 1, x, u)
      BY <3>1, AfterPlace
    <3>3. BodyPlace(f, h, c, x, s, j + 1) = Place(h, j + 1 + 1, x, u)
      BY <3>1 DEF u, BodyPlace
    <3> QED
      BY <2>4, <3>2, <3>3
  <2> QED
    BY <2>5, <2>6
<1>6. CASE ~(j < c)
  <2> DEFINE y == Returned(h, x)
  <2> HIDE DEF y
  <2>1. BodyPlace(f, h, c, x, s, j) = Place(0, f + j, y, t) /\ j \in c .. W - 1 /\ ~(j + 1 < c) /\ f + j + 1 = f + (j + 1)
    BY <1>1, <1>2, <1>6, <1>3 DEF t, y, BodyPlace
  <2>2. WordAt(0, f + j) = Orig(f + j)
    BY <1>10, <2>1 DEF WordAt
  <2>3. InCode(f, f + j)
    BY <1>1, <1>3 DEF InCode
  <2>4. RunWord(f, Place(0, f + j, y, t)) = After(Place(0, f + j, y, u))
    <3>1. RunWord(f, Place(0, f + j, y, t)) = After(Place(0, f + j, y, Append(t, Orig(f + j))))
      BY <2>2, <2>3, RunPlace
    <3> QED
      BY <1>4, <3>1
  <2>5. After(Place(0, f + j, y, u)) = Place(0, f + j + 1, y, u)
    BY AfterPlace
  <2>6. BodyPlace(f, h, c, x, s, j + 1) = Place(0, f + (j + 1), y, u)
    BY <2>1 DEF u, y, BodyPlace
  <2>7. Step(f, Place(0, f + j, y, t)) = Place(0, f + (j + 1), y, u)
    BY <2>1, <2>4, <2>5, StepPlace
  <2> QED
    BY <2>1, <2>6, <2>7
<1> QED
  BY <1>5, <1>6

(* A run is at the first of them, early enough; they run in order.           *)
AtBody(r, n, i, f, h, x, s) ==
  /\ i + FunctionWords + 1 <= n
  /\ r[i] = IF h = 0 THEN Place(0, f, x, s) ELSE Place(h, 1, x, s)

LEMMA BodyRuns ==
  ASSUME NEW f \in Functions, NEW h \in Nat, NEW c \in 0 .. 5, KeepsBody(f, h, c),
         NEW x, NEW s \in Seq(Nat), NEW n \in Nat, NEW r, Runs(r, f, n),
         NEW i \in Nat, AtBody(r, n, i, f, h, x, s)
  PROVE  r[n].tramp = End /\ r[n].seen = SeenWith(s, f, FunctionWords)
<1>10. /\ h = 0 <=> c = 0
       /\ h # 0 => Len(hooks[h].kept) = c /\ hooks[h].back = f + c
       /\ \A j \in 0 .. c - 1 : WordAt(h, j + 1) = Orig(f + j)
       /\ \A j \in c .. FunctionWords - 1 : code[f + j] = Orig(f + j)
       /\ r[i] = IF h = 0 THEN Place(0, f, x, s) ELSE Place(h, 1, x, s)
       /\ i + FunctionWords + 1 <= n
  BY DEF KeepsBody, AtBody
<1> DEFINE W == FunctionWords
           at(j) == BodyPlace(f, h, c, x, s, j)
<1>1. f \in Nat /\ W \in Nat /\ W >= 5
  BY FunctionsApart
<1>9. c \in Nat /\ c <= W
  BY <1>1
<1>2. r[i] = at(0)
  <2>1. SeenWith(s, f, 0) = s /\ f + 0 = f /\ 0 + 1 = 1
    BY <1>1, SeenGrows
  <2>2. 0 < c <=> h # 0
    BY <1>10
  <2> QED
    BY <1>10, <2>1, <2>2 DEF BodyPlace, Returned
<1>3. \A j \in 0 .. W - 1 : Step(f, at(j)) = at(j + 1)
  BY BodyStep
<1> HIDE DEF at
<1>4. \A j \in 0 .. W : r[i + j] = at(j)
  <2> DEFINE S == {j \in 0 .. W : r[i + j] # at(j)}
  <2>1. ASSUME S # {} PROVE FALSE
    <3>1. S \subseteq Nat
      OBVIOUS
    <3> HIDE DEF S
    <3>2. PICK j \in S : \A k \in S : j <= k
      BY <2>1, <3>1, LeastNat
    <3>3. j \in 0 .. W /\ r[i + j] # at(j)
      BY <3>2 DEF S
    <3>4. j # 0
      BY <1>2, <3>3
    <3>5. j - 1 \in 0 .. W - 1 /\ j - 1 \in 0 .. W /\ j - 1 + 1 = j /\ ~(j <= j - 1)
          /\ i + (j - 1) \in 0 .. n - 1 /\ i + (j - 1) + 1 = i + j
      BY <1>1, <1>10, <3>3, <3>4
    <3>6. r[i + (j - 1)] = at(j - 1)
      BY <3>2, <3>5 DEF S
    <3>7. r[i + j] = Step(f, r[i + (j - 1)])
      BY <3>5 DEF Runs
    <3>8. Step(f, at(j - 1)) = at(j)
      BY <1>3, <3>5
    <3> QED
      BY <3>3, <3>6, <3>7, <3>8
  <2> QED
    BY <2>1
<1> DEFINE y == Returned(h, x)
<1>5. r[i + W] = Place(0, f + W, y, SeenWith(s, f, W))
  <2>1. ~(W < c) /\ W \in 0 .. W
    BY <1>1, <1>9
  <2> QED
    BY <1>4, <2>1 DEF at, BodyPlace
<1> HIDE DEF y
<1>6. r[i + W + 1] = [Place(0, f + W, y, SeenWith(s, f, W)) EXCEPT !.tramp = End]
  <2>1. i + W \in 0 .. n - 1
    BY <1>1, <1>10
  <2>2. r[i + W + 1] = Step(f, r[i + W])
    BY <2>1 DEF Runs
  <2>3. ~InCode(f, f + W)
    BY <1>1 DEF InCode
  <2>4. RunWord(f, Place(0, f + W, y, SeenWith(s, f, W)))
          = [Place(0, f + W, y, SeenWith(s, f, W)) EXCEPT !.tramp = End]
    BY <2>3 DEF RunWord, Place
  <2> QED
    BY <1>5, <2>2, <2>4, StepPlace
<1>7. r[i + W + 1].tramp = End /\ r[i + W + 1].seen = SeenWith(s, f, W)
  BY <1>6 DEF Place
<1>8. r[n] = r[i + W + 1]
  <2>1. PICK e : e = i + W + 1
    OBVIOUS
  <2>2. e \in 0 .. n /\ Ended(r, e)
    BY <1>1, <1>7, <1>10, <2>1 DEF End, Ended
  <2>3. r[n] = r[e]
    BY <2>2, EndIsFinal
  <2> QED
    BY <2>1, <2>3
<1> QED
  BY <1>7, <1>8

(* The callbacks seen before hook h's: those of the newer hooks, newest first. *)
Above(s, f, h) ==
  /\ s \in Seq(Nat) /\ {s[k] : k \in DOMAIN s} = {j \in Reached(f) : j > h}
  /\ \A k, l \in DOMAIN s : k < l => s[k] > s[l]

LEMMA AboveGrows ==
  ASSUME NEW f, NEW g \in Nat, NEW h, NEW s, Above(s, f, g),
         g \in Reached(f), Reached(f) \subseteq Nat,
         \A j \in Reached(f) : j > h <=> j > g \/ j = g
  PROVE  Above(Append(s, g), f, h)
<1> DEFINE t == Append(s, g)
           n == Len(s)
<1>1. s \in Seq(Nat) /\ n \in Nat /\ DOMAIN s = 1 .. n
  BY DEF Above
<1>2. /\ t \in Seq(Nat) /\ DOMAIN t = 1 .. n + 1 /\ t[n + 1] = g
      /\ \A k \in 1 .. n : t[k] = s[k]
  BY <1>1
<1>3. \A k \in 1 .. n : s[k] \in Reached(f) /\ s[k] > g
  BY <1>1 DEF Above
<1>4. \A j \in Reached(f) : j > g => \E k \in 1 .. n : s[k] = j
  <2> TAKE j \in Reached(f)
  <2> HAVE j > g
  <2>1. j \in {s[k] : k \in DOMAIN s}
    BY DEF Above
  <2> QED
    BY <1>1, <2>1
<1>5. \A k, l \in 1 .. n : k < l => s[k] > s[l]
  BY <1>1 DEF Above
<1> HIDE DEF t, n
<1>6. \A k \in 1 .. n + 1 : k \in 1 .. n \/ k = n + 1
  BY <1>1
<1>7. ASSUME NEW k \in DOMAIN t PROVE t[k] \in Reached(f) /\ t[k] > h
  BY <1>2, <1>3, <1>6, <1>7
<1>8. ASSUME NEW j \in Reached(f), j > h PROVE \E k \in DOMAIN t : t[k] = j
  <2>1. j > g \/ j = g
    BY <1>8
  <2>2. CASE j > g
    <3>1. PICK k \in 1 .. n : s[k] = j
      BY <1>4, <2>2
    <3>2. k \in 1 .. n + 1
      BY <1>1
    <3> QED
      BY <1>2, <3>1, <3>2
  <2>3. CASE j = g
    BY <1>1, <1>2, <2>3
  <2> QED
    BY <2>1, <2>2, <2>3
<1>9. {t[k] : k \in DOMAIN t} = {j \in Reached(f) : j > h}
  BY <1>7, <1>8
<1>10. ASSUME NEW k \in DOMAIN t, NEW l \in DOMAIN t, k < l PROVE t[k] > t[l]
  <2>1. k \in 1 .. n
    BY <1>1, <1>2, <1>6, <1>10
  <2>2. CASE l \in 1 .. n
    BY <1>2, <1>5, <1>10, <2>1, <2>2
  <2>3. CASE l = n + 1
    BY <1>2, <1>3, <2>1, <2>3
  <2> QED
    BY <1>2, <1>6, <2>2, <2>3
<1> QED
  BY <1>2, <1>9, <1>10 DEF Above, t

(* A run of f comes to each hook it should reach. *)
Comes(r, f, h) ==
  \E i \in Nat : i <= 3 * (Len(hooks) - h + 1)
    /\ \E x, s : Above(s, f, h) /\ r[i] = Entered(h, x, s)

LEMMA ReachedFacts ==
  ASSUME HooksOK, NEW f, NEW h \in Reached(f)
  PROVE  /\ h \in Nat /\ h \in DOMAIN hooks /\ h \in 1 .. Len(hooks) /\ h \in HooksOn(f)
         /\ hooks[h].at = f /\ Len(hooks) \in Nat
BY HookTypes DEF Reached, HooksOn

LEMMA ComesToAll ==
  ASSUME IInv, step = "idle", NEW f \in Functions, ~FarOverNear(f), ~ReturnLosesX17(f),
         NEW n \in Nat, NEW r, Runs(r, f, n), r[0] = Start(f), 3 * (Len(hooks) + 1) <= n
  PROVE  \A h \in Reached(f) : Comes(r, f, h)
<1>1. HooksOK /\ Len(hooks) \in Nat /\ DOMAIN hooks = 1 .. Len(hooks)
  BY HookTypes DEF IInv
<1>2. PICK N \in Nat : N = Len(hooks)
  BY <1>1
<1> DEFINE S == {d \in Nat : d < N /\ N - d \in Reached(f) /\ ~Comes(r, f, N - d)}
<1>3. ASSUME NEW h \in Reached(f), ~Comes(r, f, h) PROVE FALSE
  <2>1. S \subseteq Nat /\ N - h \in S
    <3>1. h \in 1 .. N
      BY <1>1, <1>2, <1>3, ReachedFacts
    <3>2. N - h \in Nat /\ N - h < N /\ N - (N - h) = h
      BY <3>1
    <3> QED
      BY <1>3, <3>2
  <2> HIDE DEF S
  <2>2. PICK d \in S : \A e \in S : d <= e
    BY <2>1, LeastNat
  <2>3. PICK g : g = N - d
    OBVIOUS
  <2>4. d \in Nat /\ d < N /\ g \in Reached(f) /\ ~Comes(r, f, g)
    BY <2>2, <2>3 DEF S
  <2>5. g \in Nat /\ g \in 1 .. N /\ g \in DOMAIN hooks /\ hooks[g].at = f /\ d = N - g
    BY <1>1, <1>2, <2>3, <2>4, ReachedFacts
  <2>6. ASSUME NEW j \in Reached(f), j > g PROVE Comes(r, f, j)
    <3>1. j \in 1 .. N
      BY <1>1, <1>2, <2>6, ReachedFacts
    <3>2. N - j \in Nat /\ N - j < N /\ N - (N - j) = j /\ ~(d <= N - j)
      BY <2>5, <2>6, <3>1
    <3> QED
      BY <2>2, <2>6, <3>2 DEF S
  <2> DEFINE T == {j \in HooksOn(f) : j > g}
  <2>7. T \subseteq Nat /\ \A j \in T : j \in 1 .. N /\ j \in DOMAIN hooks /\ hooks[j].at = f /\ j > g
    BY <1>1, <1>2 DEF HooksOn
  <2>8. \A j \in HooksOn(f) : j \in Nat
    BY <1>1 DEF HooksOn
  <2>9. Reached(f) \subseteq Nat
    BY <1>1, ReachedFacts
  <2>10. CASE T = {}
    <3>1. Newest(N, f, g)
      <4>1. \A j \in 1 .. N : j > g => hooks[j].at # f
        BY <1>1, <1>2, <2>10 DEF HooksOn
      <4> QED
        BY <2>5, <4>1 DEF Newest
    <3>2. \E x : Leads(f, Place(0, f, 0, <<>>), Entered(g, x, <<>>))
      BY <1>2, <2>5, <3>1, EnterFirst
    <3>3. PICK x : Leads(f, r[0], Entered(g, x, <<>>))
      BY <3>2 DEF Start
    <3>4. PICK i \in Nat : i = 0
      OBVIOUS
    <3>8. PICK q : q = Entered(g, x, <<>>)
      OBVIOUS
    <3>9. PICK m \in Nat : m = i + 3
      BY <3>4
    <3>10. m <= n /\ LeadsFrom(f, r, i, q)
      BY <1>2, <3>3, <3>4, <3>8, <3>9 DEF LeadsFrom
    <3>5. PICK j \in Nat : j <= m /\ r[j] = q
      BY <3>9, <3>10, LeadsInRun
    <3>6. j <= 3 * (N - g + 1)
      BY <2>5, <3>4, <3>5, <3>9
    <3>7. Above(<<>>, f, g)
      <4>1. {j_1 \in Reached(f) : j_1 > g} = {}
        BY <2>10 DEF Reached
      <4> QED
        BY <4>1 DEF Above
    <3> QED
      BY <1>2, <2>4, <3>5, <3>6, <3>7, <3>8 DEF Comes
  <2>11. CASE T # {}
    <3> HIDE DEF T
    <3>1. PICK p \in T : \A j \in T : p <= j
      BY <2>7, <2>11, LeastNat
    <3>2. p \in Nat /\ p \in 1 .. N /\ p \in DOMAIN hooks /\ hooks[p].at = f /\ p > g /\ p \in HooksOn(f)
      BY <2>7, <3>1 DEF T
    <3>3. hooks[p].kind # "replace"
      BY <2>4, <3>2 DEF Reached
    <3>4. p \in Reached(f)
      <4>1. \A m \in HooksOn(f) : m > p => m > g
        BY <2>5, <2>8, <3>2
      <4> QED
        BY <2>4, <3>2, <4>1 DEF Reached
    <3>5. PICK i \in Nat : i <= 3 * (N - p + 1)
            /\ \E x, s : Above(s, f, p) /\ r[i] = Entered(p, x, s)
      BY <1>2, <2>6, <3>2, <3>4 DEF Comes
    <3>6. PICK x, s : Above(s, f, p) /\ r[i] = Entered(p, x, s)
      BY <3>5
    <3>7. r[i] = Place(p, 1, x, Append(s, p))
      BY <3>3, <3>6 DEF Entered
    <3>8. Newest(p - 1, f, g) /\ g \in 1 .. p - 1
      <4>1. \A j \in 1 .. p - 1 : j > g => hooks[j].at # f
        <5> TAKE j \in 1 .. p - 1
        <5> HAVE j > g
        <5>1. j \in DOMAIN hooks /\ ~(p <= j)
          BY <1>1, <1>2, <3>2
        <5>2. j \notin T
          BY <3>1, <5>1
        <5> QED
          BY <5>1, <5>2 DEF T, HooksOn
      <4>2. g \in 1 .. p - 1 /\ g \in 0 .. p - 1
        BY <2>5, <3>2
      <4> QED
        BY <2>5, <4>1, <4>2 DEF Newest
    <3>9. PICK y : Leads(f, Place(p, 1, x, Append(s, p)), Entered(g, y, Append(s, p)))
      BY <3>2, <3>3, <3>8, EnterNext
    <3>10. i + 3 <= n /\ 3 * (N - p + 1) + 3 <= 3 * (N - g + 1)
      BY <1>2, <2>5, <3>2, <3>5
    <3>14. PICK q : q = Entered(g, y, Append(s, p))
      OBVIOUS
    <3>15. LeadsFrom(f, r, i, q)
      BY <3>7, <3>9, <3>14 DEF LeadsFrom
    <3>16. PICK m \in Nat : m = i + 3
      OBVIOUS
    <3>17. m <= n
      BY <3>10, <3>16
    <3>11. PICK j \in Nat : j <= m /\ r[j] = q
      BY <3>15, <3>16, <3>17, LeadsInRun
    <3>12. j <= 3 * (N - g + 1)
      BY <2>5, <3>2, <3>5, <3>10, <3>11, <3>16
    <3>13. Above(Append(s, p), f, g)
      <4>1. \A l \in Reached(f) : l > g <=> l > p \/ l = p
        <5> TAKE l \in Reached(f)
        <5>1. l \in Nat /\ l \in HooksOn(f)
          BY <1>1, ReachedFacts
        <5>2. l > g => p <= l
          BY <3>1, <5>1 DEF T
        <5> QED
          BY <2>5, <3>2, <5>1, <5>2
      <4> QED
        BY <2>9, <3>2, <3>4, <3>6, <4>1, AboveGrows
    <3> QED
      BY <1>2, <2>4, <3>11, <3>12, <3>13, <3>14 DEF Comes
  <2> QED
    BY <2>10, <2>11
<1> QED
  BY <1>3

LEMMA FuelIsEnough ==
  ASSUME NEW N \in Nat, N = Len(hooks)
  PROVE  /\ Fuel \in Nat /\ 3 * (N + 1) <= Fuel
         /\ \A i \in Nat : i <= 3 * N => i + FunctionWords + 1 <= Fuel
<1>1. FunctionWords \in Nat
  BY HooksAssumption
<1>2. PICK W \in Nat : W = FunctionWords
  BY <1>1
<1>3. PICK P \in Nat : P = N * W
  OBVIOUS
<1>4. (N + 1) * (W + 6) = N * W + 6 * N + W + 6
  OBVIOUS
<1>5. Fuel = P + 6 * N + W + 6
  BY <1>2, <1>3, <1>4 DEF Fuel
<1> QED
  BY <1>2, <1>5

(* A call ends after the callbacks it should reach, and the game's           *)
(* instructions unless the function is replaced.                             *)
LEMMA CallEnds ==
  ASSUME IInv, step = "idle", NEW f \in Functions, ~FarOverNear(f), ~ReturnLosesX17(f)
  PROVE  \E s : /\ Above(s, f, 0) /\ Run(f).tramp = End
                /\ Run(f).seen = IF Replaced(f) THEN s ELSE SeenWith(s, f, FunctionWords)
<1>1. HooksOK /\ CodeShape(Len(hooks)) /\ Len(hooks) \in Nat /\ DOMAIN hooks = 1 .. Len(hooks)
  BY HookTypes DEF IInv, ShapesOK, Written
<1>2. PICK N \in Nat : N = Len(hooks)
  BY <1>1
<1>3. /\ Fuel \in Nat /\ 3 * (N + 1) <= Fuel
      /\ \A i \in Nat : i <= 3 * N => i + FunctionWords + 1 <= Fuel
  BY <1>2, FuelIsEnough
<1>4. PICK n \in Nat : n = Fuel
  BY <1>3
<1>5. PICK r : Run(f) = r[n] /\ r[0] = Start(f) /\ Runs(r, f, n)
  BY <1>3, <1>4, RunIsARun
<1>6. f \in Nat /\ FunctionWords \in Nat /\ FunctionWords >= 5 /\ f % 2 \in {0, 1}
  BY FunctionsApart
<1>7. \A j \in HooksOn(f) : j \in Nat /\ j \in 1 .. N /\ j \in DOMAIN hooks /\ hooks[j].at = f
  BY <1>1, <1>2 DEF HooksOn
<1>8. PICK newest \in 0 .. N : Newest(N, f, newest)
  BY NewestExists
<1>9. PICK farthest \in 0 .. N : NewestFar(N, f, farthest)
  BY NewestExists
<1>10. /\ code[f] = First(newest, f)
       /\ \A k \in 1 .. FunctionWords - 1 : code[f + k] = Later(farthest, f, k)
  BY <1>1, <1>2, <1>8, <1>9 DEF CodeShape
<1>11. CASE HooksOn(f) = {}
  <2>1. newest = 0 /\ farthest = 0
    <3>1. \A j \in 1 .. N : hooks[j].at # f
      BY <1>1, <1>2, <1>11 DEF HooksOn
    <3> QED
      BY <1>8, <1>9, <3>1 DEF Newest, NewestFar
  <2>2. \A j \in 0 .. FunctionWords - 1 : code[f + j] = Orig(f + j)
    <3>1. code[f] = Orig(f) /\ f + 0 = f
      BY <1>6, <1>10, <2>1 DEF First
    <3>2. \A j \in 1 .. FunctionWords - 1 : code[f + j] = Orig(f + j)
      BY <1>10, <2>1 DEF Later
    <3> QED
      BY <1>6, <3>1, <3>2
  <2>3. PICK h \in Nat : h = 0
    OBVIOUS
  <2>4. PICK c \in 0 .. 5 : c = 0
    OBVIOUS
  <2>5. KeepsBody(f, h, c)
    <3>1. \A j \in 0 .. c - 1 : FALSE
      BY <2>4
    <3> QED
      BY <2>2, <2>3, <2>4, <3>1 DEF KeepsBody
  <2>6. PICK i \in Nat : i = 0
    OBVIOUS
  <2>7. PICK s \in Seq(Nat) : s = <<>>
    <3>1. <<>> \in Seq(Nat)
      OBVIOUS
    <3> QED
      BY <3>1
  <2>8. PICK x : x = 0
    OBVIOUS
  <2>9. AtBody(r, n, i, f, h, x, s)
    <3>1. i + FunctionWords + 1 <= n
      BY <1>3, <1>4, <2>6
    <3> QED
      BY <1>5, <2>3, <2>6, <2>7, <2>8, <3>1 DEF AtBody, Start
  <2>11. r[n].tramp = End /\ r[n].seen = SeenWith(s, f, FunctionWords)
    BY <1>5, <2>5, <2>9, BodyRuns
  <2>12. Above(s, f, 0) /\ ~Replaced(f)
    BY <1>11, <2>7 DEF Above, Reached, Replaced
  <2> QED
    BY <1>5, <2>11, <2>12
<1>12. CASE HooksOn(f) # {}
  <2>1. newest # 0 /\ newest \in HooksOn(f) /\ newest \in Nat /\ \A j \in HooksOn(f) : j <= newest
    <3>1. PICK j \in HooksOn(f) : TRUE
      BY <1>12
    <3>2. \A l \in HooksOn(f) : l <= newest
      BY <1>7, <1>8 DEF Newest
    <3>3. newest # 0
      BY <1>7, <3>1, <3>2
    <3> QED
      BY <1>1, <1>2, <1>8, <3>2, <3>3 DEF Newest, HooksOn
  <2>2. newest \in Reached(f)
    BY <1>7, <2>1 DEF Reached
  <2>3. Reached(f) \subseteq Nat
    BY <1>7 DEF Reached
  <2>4. PICK h \in Reached(f) : \A j \in Reached(f) : h <= j
    BY <2>2, <2>3, LeastNat
  <2>5. h \in Nat /\ h \in 1 .. N /\ h # 0 /\ h \in DOMAIN hooks /\ hooks[h].at = f /\ h \in HooksOn(f)
    BY <1>7, <2>4 DEF Reached
  <2>6. Comes(r, f, h)
    BY <1>2, <1>3, <1>4, <1>5, ComesToAll
  <2>7. PICK i \in Nat : i <= 3 * (N - h + 1) /\ \E x, s : Above(s, f, h) /\ r[i] = Entered(h, x, s)
    BY <1>2, <2>6 DEF Comes
  <2>8. PICK x, s : Above(s, f, h) /\ r[i] = Entered(h, x, s)
    BY <2>7
  <2>9. PICK t \in Seq(Nat) : t = Append(s, h)
    <3>1. s \in Seq(Nat)
      BY <2>8 DEF Above
    <3>2. Append(s, h) \in Seq(Nat)
      BY <2>5, <3>1
    <3> QED
      BY <3>2
  <2>10. i <= 3 * N
    BY <2>5, <2>7
  <2>11. Above(t, f, 0)
    <3>1. \A j \in Reached(f) : j > 0 <=> j > h \/ j = h
      BY <1>7, <2>4, <2>5 DEF Reached
    <3> QED
      BY <2>3, <2>5, <2>8, <2>9, <3>1, AboveGrows
  <2>12. CASE hooks[h].kind = "replace"
    <3>1. r[i] = Place(End, 0, x, t)
      BY <2>8, <2>9, <2>12 DEF Entered
    <3>2. r[i].tramp = End /\ r[i].seen = t /\ Ended(r, i)
      BY <3>1 DEF Place, End, Ended
    <3>3. i \in 0 .. n
      BY <1>3, <1>4, <1>6, <2>10
    <3>4. r[n] = r[i]
      BY <1>5, <3>2, <3>3, EndIsFinal
    <3>5. Replaced(f)
      BY <2>5, <2>12 DEF Replaced
    <3> QED
      BY <1>5, <2>11, <3>2, <3>4, <3>5
  <2>13. CASE hooks[h].kind # "replace"
    <3>1. ~Replaced(f)
      <4>1. ASSUME Replaced(f) PROVE FALSE
        <5> DEFINE R == {d \in Nat : d < N /\ N - d \in HooksOn(f) /\ hooks[N - d].kind = "replace"}
        <5>1. PICK g \in HooksOn(f) : hooks[g].kind = "replace"
          BY <4>1 DEF Replaced
        <5>2. g \in 1 .. N
          BY <1>7, <5>1
        <5>3. N - g \in Nat /\ N - g < N /\ N - (N - g) = g
          BY <5>2
        <5>4. R \subseteq Nat /\ N - g \in R
          BY <5>1, <5>3
        <5> HIDE DEF R
        <5>5. PICK d \in R : \A e \in R : d <= e
          BY <5>4, LeastNat
        <5>6. PICK m : m = N - d
          OBVIOUS
        <5>7. d \in Nat /\ d < N /\ m \in HooksOn(f) /\ hooks[m].kind = "replace"
          BY <5>5, <5>6 DEF R
        <5>8. \A j \in HooksOn(f) : j > m => hooks[j].kind # "replace"
          <6> TAKE j \in HooksOn(f)
          <6> HAVE j > m
          <6>1. j \in 1 .. N
            BY <1>7
          <6>2. N - j \in Nat /\ N - j < N /\ N - (N - j) = j /\ ~(d <= N - j)
            BY <5>6, <5>7, <6>1
          <6> QED
            BY <5>5, <6>2 DEF R
        <5>9. m \in Reached(f)
          BY <5>7, <5>8 DEF Reached
        <5>10. h < m
          <6>1. h <= m /\ h # m /\ m \in Nat
            BY <2>3, <2>4, <2>13, <5>7, <5>9
          <6> QED
            BY <2>5, <6>1
        <5> QED
          BY <2>4, <5>7, <5>10 DEF Reached
      <4> QED
        BY <4>1
    <3>2. HooksOn(f) = Reached(f)
      BY <3>1 DEF Reached, Replaced
    <3>3. \A j \in HooksOn(f) : h <= j
      BY <2>4, <3>2
    <3>4. h - 1 \in Nat /\ 0 \in 0 .. h - 1 /\ Newest(h - 1, f, 0) /\ NewestFar(h - 1, f, 0)
      <4>1. \A j \in 1 .. h - 1 : hooks[j].at # f
        <5> TAKE j \in 1 .. h - 1
        <5>1. j \in DOMAIN hooks /\ ~(h <= j)
          BY <1>1, <1>2, <2>5
        <5> QED
          BY <3>3, <5>1 DEF HooksOn
      <4>2. h - 1 \in Nat /\ 0 \in 0 .. h - 1
        BY <2>5
      <4> QED
        BY <4>1, <4>2 DEF Newest, NewestFar
    <3>5. PICK c : c = Count(hooks[h])
      OBVIOUS
    <3>6. /\ Len(hooks[h].kept) = c /\ hooks[h].back = f + c
          /\ c = IF hooks[h].near THEN 1 ELSE 4 + (f % 2)
          /\ WordAt(h, 1) = Kept(First(0, f), 0)
          /\ \A k \in 2 .. c : WordAt(h, k) = Kept(Later(0, f, k - 1), 0)
      <4>1. PICK z \in 0 .. h - 1 : z = 0
        BY <3>4
      <4>2. Newest(h - 1, f, z) /\ NewestFar(h - 1, f, z)
        BY <3>4, <4>1
      <4> QED
        BY <2>5, <2>13, <3>5, <4>1, <4>2, KeptFacts, SMTT(20)
    <3>7. c \in 1 .. 5 /\ c \in 0 .. 5
      BY <1>6, <3>6
    <3>8. \A j \in 0 .. c - 1 : WordAt(h, j + 1) = Orig(f + j)
      <4> TAKE j \in 0 .. c - 1
      <4>1. CASE j = 0
        <5>1. WordAt(h, 1) = Orig(f)
          BY <3>6, KeptValues DEF First
        <5>2. j + 1 = 1 /\ f + j = f
          BY <1>6, <4>1
        <5> QED
          BY <5>1, <5>2
      <4>2. CASE j # 0
        <5>1. PICK k \in 2 .. c : k = j + 1
          BY <3>7, <4>2
        <5>2. k - 1 = j
          BY <3>7, <5>1
        <5>3. WordAt(h, k) = Kept(Later(0, f, j), 0)
          BY <3>6, <5>2
        <5>4. Later(0, f, j) = Orig(f + j)
          BY DEF Later
        <5> QED
          BY <5>1, <5>3, <5>4, KeptValues
      <4> QED
        BY <4>1, <4>2
    <3>9. \A j \in c .. FunctionWords - 1 : code[f + j] = Orig(f + j)
      <4> TAKE j \in c .. FunctionWords - 1
      <4>1. j \in 1 .. FunctionWords - 1
        BY <1>6, <3>7
      <4>2. code[f + j] = Later(farthest, f, j)
        BY <1>10, <4>1
      <4>3. CASE farthest = 0
        BY <4>2, <4>3 DEF Later
      <4>4. CASE farthest # 0
        <5>1. farthest \in HooksOn(f) /\ ~hooks[farthest].near
          BY <1>1, <1>2, <1>9, <4>4 DEF NewestFar, HooksOn
        <5>2. ~hooks[h].near
          <6>1. ASSUME hooks[h].near PROVE FALSE
            <7>1. h < farthest
              <8>1. h <= farthest /\ h # farthest
                BY <3>3, <5>1, <6>1
              <8> QED
                BY <2>5, <8>1
            <7> QED
              BY <2>5, <2>13, <5>1, <6>1, <7>1 DEF FarOverNear
          <6> QED
            BY <6>1
        <5>3. c = 4 + (f % 2)
          BY <3>6, <5>2
        <5>4. ~(j < 4 + (f % 2))
          BY <1>6, <3>7, <5>3
        <5> QED
          BY <4>2, <5>4 DEF Later
      <4> QED
        BY <4>3, <4>4
    <3>10. KeepsBody(f, h, c)
      <4>1. h = 0 <=> c = 0
        BY <2>5, <3>7
      <4> QED
        BY <3>6, <3>8, <3>9, <4>1 DEF KeepsBody
    <3>12. i + FunctionWords + 1 <= n
      BY <1>3, <1>4, <2>10
    <3>11. AtBody(r, n, i, f, h, x, t)
      BY <2>5, <2>8, <2>9, <2>13, <3>12 DEF AtBody, Entered
    <3>13. r[n].tramp = End /\ r[n].seen = SeenWith(t, f, FunctionWords)
      BY <1>5, <2>5, <3>7, <3>10, <3>11, BodyRuns
    <3> QED
      BY <1>5, <2>11, <3>1, <3>13
  <2> QED
    BY <2>12, <2>13
<1> QED
  BY <1>11, <1>12

(* Seen are the callbacks and then the body.                                 *)
LEMMA CallsAndBody ==
  ASSUME NEW D, NEW s \in Seq(D), NEW b \in Seq(D)
  PROVE  [k \in 1 .. Len(s \o b) - Len(b) |-> (s \o b)[k]] = s
<1> DEFINE t == s \o b
<1>1. t \in Seq(D) /\ Len(t) = Len(s) + Len(b)
      /\ \A k \in 1 .. Len(s) + Len(b) : t[k] = IF k <= Len(s) THEN s[k] ELSE b[k - Len(s)]
  BY ConcatProperties
<1> HIDE DEF t
<1>2. Len(s) \in Nat /\ Len(b) \in Nat /\ s = [k \in 1 .. Len(s) |-> s[k]]
  OBVIOUS
<1>3. Len(t) - Len(b) = Len(s)
  BY <1>1, <1>2
<1>4. \A k \in 1 .. Len(s) : t[k] = s[k]
  BY <1>1, <1>2
<1>5. [k \in 1 .. Len(t) - Len(b) |-> t[k]] = s
  BY <1>2, <1>3, <1>4
<1> QED
  BY <1>5 DEF t

(* Calling a function runs the callbacks of its hooks, newest first, down    *)
(* to one that replaces it, or to the game's instructions, each once and in  *)
(* order, whatever the mixture of kinds, of distances, of alignments and of  *)
(* ways back, except for a far hook over a near one and for a way back that  *)
(* destroys the x17 it returns to (hook_impl.cpp 498-511, 558-605).          *)
THEOREM HooksAreNested == Spec => []HooksNest
<1>1. IInv => HooksNest
  <2> SUFFICES ASSUME IInv, step = "idle", NEW f \in Functions,
                      ~FarOverNear(f), ~ReturnLosesX17(f)
               PROVE  LET end == Run(f)
                          body == IF Replaced(f) THEN <<>>
                                  ELSE [k \in 1 .. FunctionWords |-> Orig(f + k - 1)]
                          calls == [k \in 1 .. Len(end.seen) - Len(body) |-> end.seen[k]]
                      IN /\ end.tramp = End
                         /\ end.seen = calls \o body
                         /\ {calls[k] : k \in DOMAIN calls} = Reached(f)
                         /\ \A k, l \in DOMAIN calls : k < l => calls[k] > calls[l]
    BY DEF HooksNest
  <2> DEFINE body == IF Replaced(f) THEN <<>> ELSE [k \in 1 .. FunctionWords |-> Orig(f + k - 1)]
             D == Nat \cup Word
  <2>1. PICK s : /\ Above(s, f, 0) /\ Run(f).tramp = End
                 /\ Run(f).seen = IF Replaced(f) THEN s ELSE SeenWith(s, f, FunctionWords)
    BY CallEnds
  <2>2. f \in Nat /\ FunctionWords \in Nat
    BY FunctionsApart
  <2>3. s \in Seq(Nat)
    BY <2>1 DEF Above
  <2>4. s \in Seq(D)
    BY <2>3, SeqMonotonic
  <2>5. body \in Seq(D)
    <3>1. \A k \in 1 .. FunctionWords : f + k - 1 \in Nat
      BY <2>2
    <3>2. \A w \in Nat : Orig(w) \in D
      BY DEF Orig, Word
    <3>3. [k \in 1 .. FunctionWords |-> Orig(f + k - 1)] \in [1 .. FunctionWords -> D]
      BY <3>1, <3>2
    <3> HIDE DEF D
    <3>4. [k \in 1 .. FunctionWords |-> Orig(f + k - 1)] \in Seq(D)
      BY <2>2, <3>3
    <3>5. <<>> \in Seq(D)
      OBVIOUS
    <3> QED
      BY <3>4, <3>5
  <2> HIDE DEF D
  <2>6. Run(f).seen = s \o body
    <3>1. CASE Replaced(f)
      BY <2>1, <2>4, <3>1, ConcatEmptySeq
    <3>2. CASE ~Replaced(f)
      BY <2>1, <3>2 DEF SeenWith
    <3> QED
      BY <3>1, <3>2
  <2> HIDE DEF body
  <2>7. [k \in 1 .. Len(s \o body) - Len(body) |-> (s \o body)[k]] = s
    BY <2>4, <2>5, CallsAndBody
  <2>8. {s[k] : k \in DOMAIN s} = Reached(f) /\ \A k, l \in DOMAIN s : k < l => s[k] > s[l]
    <3>1. {j \in Reached(f) : j > 0} = Reached(f)
      <4>1. HooksOK
        BY DEF IInv
      <4>2. \A j \in Reached(f) : j > 0
        BY <4>1, ReachedFacts
      <4> QED
        BY <4>2
    <3> QED
      BY <2>1, <3>1 DEF Above
  <2> DEFINE calls == [k \in 1 .. Len(Run(f).seen) - Len(body) |-> Run(f).seen[k]]
  <2>9. calls = s
    BY <2>6, <2>7
  <2> HIDE DEF calls
  <2>10. /\ Run(f).tramp = End
         /\ Run(f).seen = calls \o body
         /\ {calls[k] : k \in DOMAIN calls} = Reached(f)
         /\ \A k, l \in DOMAIN calls : k < l => calls[k] > calls[l]
    BY <2>1, <2>6, <2>8, <2>9
  <2> QED
    BY <2>10 DEF calls, body
<1> QED
  BY <1>1, IInvHolds, PTL
=============================================================================
