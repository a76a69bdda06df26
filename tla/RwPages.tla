------------------------------ MODULE RwPages ------------------------------
(***************************************************************************)
(* Writable aliases of code (lib/util/sys/rw_pages.cpp), at addresses that *)
(* lib/nx/kernel/virtmem.c finds and reserves.  A claim on some words of   *)
(* code reserves whole pages, maps them range by range as the kernel       *)
(* reports ranges, and is given up in the same way.  All of it runs on the *)
(* thread that starts the program.                                         *)
(***************************************************************************)
EXTENDS Integers, FiniteSets

CONSTANTS Claims,      \* the RwPages objects
          NoClaim,     \* one that is not constructed, or no object
          CodePages,   \* number of pages of code
          PageWords,   \* PAGE_SIZE in instructions
          RangeStarts, \* code pages at which a kernel memory range begins
          AslrPages,   \* number of pages the random search covers
          Unmapped

ASSUME PagesAssumption ==
  /\ CodePages \in Nat /\ AslrPages \in Nat /\ PageWords \in Nat \ {0}
  /\ RangeStarts \subseteq 0 .. CodePages - 1 /\ 0 \in RangeStarts
  /\ NoClaim \notin Claims \cup [ro : Nat, size : Nat, rw : Nat]
  /\ Unmapped \notin Nat

VARIABLES
  claim,     \* per object: m_Ro and m_Size in words, the page m_Rw is in
  reserved,  \* g_Reservations, as a set of regions [from, to)
  alias,     \* the alias region's pages: the code page mapped there
  current,   \* the constructor or destructor that is running
  stopped    \* an assertion failed, or the alias was read outside its pages

pages == <<claim, reserved, alias, current, stopped>>

Aslr == 0 .. AslrPages - 1
NoneRunning == [id |-> NoClaim, phase |-> "none", next |-> 0]

InitPages ==
  /\ claim = [i \in Claims |-> NoClaim]
  /\ reserved = {} /\ alias = [p \in Aslr |-> Unmapped]
  /\ current = NoneRunning /\ stopped = FALSE

-----------------------------------------------------------------------------
(* Claim::GetAlignedRo, GetAlignedSize: the size is rounded up on its own, *)
(* without the offset of m_Ro in its page.                                 *)
AlignedRo(c) == c.ro \div PageWords
AlignedSize(c) == (c.size + PageWords - 1) \div PageWords
ClaimedPages(c) == AlignedRo(c) .. AlignedRo(c) + AlignedSize(c) - 1

Overlaps(r, from, to) == from < r.to /\ r.from < to

(* Mutant: only the reservations' first pages are avoided.                 *)
FreeRegionsMutant(n) ==
  {from \in 0 .. AslrPages - n : \A r \in reserved : r.from # from}

(* Where virtmemFindAslr may end up, with no guard.                        *)
FreeRegions(n) ==
  {from \in 0 .. AslrPages - n :
     /\ \A p \in from .. from + n - 1 : alias[p] = Unmapped
     /\ \A r \in reserved : ~Overlaps(r, from, from + n)}

Construct(i, ro, size) ==
  LET n == AlignedSize([ro |-> ro, size |-> size]) IN
  /\ current = NoneRunning /\ ~stopped /\ claim[i] = NoClaim
  /\ \E from \in FreeRegions(n) :
       /\ claim' = [claim EXCEPT ![i] = [ro |-> ro, size |-> size, rw |-> from]]
       /\ reserved' = reserved \cup {[from |-> from, to |-> from + n]}
  /\ current' = [id |-> i, phase |-> "map", next |-> ro \div PageWords]
  /\ UNCHANGED <<alias, stopped>>

(* 512 random tries may all miss, or the reservation not be allocated.     *)
FindFails(i) ==
  /\ current = NoneRunning /\ ~stopped /\ claim[i] = NoClaim
  /\ stopped' = TRUE
  /\ UNCHANGED <<claim, reserved, alias, current>>

(* ForEachMemRange: from a page to the end of its range or of the claim.   *)
RangeFrom(c, page) ==
  {p \in ClaimedPages(c) : p >= page /\ \A s \in RangeStarts : ~(page < s /\ s <= p)}

(* The claim's alias of page p.                                            *)
Alias(c, p) == c.rw + p - AlignedRo(c)

(* Is word w there at its alias, with the pages mapped as in m?            *)
Reachable(m, c, w) ==
  LET rw == Alias(c, w \div PageWords) IN rw \in Aslr /\ m[rw] = w \div PageWords

(* One range is mapped; after the last, every claimed word is compared.    *)
MapRange ==
  LET c == claim[current.id]  now == RangeFrom(c, current.next) IN
  /\ current.phase = "map" /\ ~stopped
  /\ alias' = [a \in Aslr |-> IF \E p \in now : a = Alias(c, p)
                              THEN AlignedRo(c) + a - c.rw ELSE alias[a]]
  /\ LET last == AlignedRo(c) + AlignedSize(c) - 1 IN
     IF last \in now
       THEN /\ current' = NoneRunning
            /\ stopped' = \E w \in c.ro .. c.ro + c.size - 1 : ~Reachable(alias', c, w)
       ELSE /\ current' = [current EXCEPT !.next = @ + Cardinality(now)]
            /\ UNCHANGED stopped
  /\ UNCHANGED <<claim, reserved>>

Destroy(i) ==
  /\ current = NoneRunning /\ ~stopped /\ claim[i] # NoClaim
  /\ current' = [id |-> i, phase |-> "unmap", next |-> AlignedRo(claim[i])]
  /\ UNCHANGED <<claim, reserved, alias, stopped>>

UnmapRange ==
  LET c == claim[current.id]  now == RangeFrom(c, current.next) IN
  /\ current.phase = "unmap" /\ ~stopped
  /\ alias' = [a \in Aslr |-> IF \E p \in now : a = Alias(c, p) THEN Unmapped ELSE alias[a]]
  /\ IF AlignedRo(c) + AlignedSize(c) - 1 \in now
       THEN /\ current' = NoneRunning
            /\ claim' = [claim EXCEPT ![current.id] = NoClaim]
            /\ reserved' = {r \in reserved : r.from # c.rw}
       ELSE /\ current' = [current EXCEPT !.next = @ + Cardinality(now)]
            /\ UNCHANGED <<claim, reserved>>
  /\ UNCHANGED stopped

(* The kernel may refuse to report, to map or to unmap the next range.     *)
RangeFails ==
  /\ current # NoneRunning /\ ~stopped
  /\ stopped' = TRUE
  /\ UNCHANGED <<claim, reserved, alias, current>>

-----------------------------------------------------------------------------
(* The aliases are exactly the claims': each mapped page shows the page of *)
(* the one claim that reserved it, the claims' regions are disjoint, and   *)
(* nothing is left behind by those that were given up.                     *)
AliasesAreClaimed ==
  LET live == {i \in Claims : claim[i] # NoClaim}
      region(i) == claim[i].rw .. claim[i].rw + AlignedSize(claim[i]) - 1
  IN
  /\ \A i, j \in live : i # j => region(i) \cap region(j) = {}
  /\ \A a \in Aslr : alias[a] # Unmapped =>
       \E i \in live : a \in region(i) /\ alias[a] = AlignedRo(claim[i]) + a - claim[i].rw
  /\ reserved = {[from |-> claim[i].rw, to |-> claim[i].rw + AlignedSize(claim[i])] : i \in live}
  /\ \A i \in live : i # current.id /\ ~stopped =>
       \A p \in ClaimedPages(claim[i]) : alias[Alias(claim[i], p)] = p
=============================================================================
