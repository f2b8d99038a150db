---------------------------- MODULE Swap_proofs ----------------------------
(***************************************************************************)
(* Proofs about Swap: the FIFO list holds exactly the resident pages, and  *)
(* frames, slots and translations together are a memory that is large      *)
(* enough (Backing), for any pages, frames and contents.                   *)
(***************************************************************************)
EXTENDS Swap, SequenceTheorems, TLAPS

----------------------------------------------------------------------------
(* The list of the FIFO manager.                                           *)

\* list_add puts a frame at the head.
LEMMA ListAdd ==
    ASSUME NEW S, NEW list \in Seq(S), NEW f \in S,
           IsInjective(list), f \notin ToSet(list)
    PROVE  /\ map_swappable(list, f) \in Seq(S)
           /\ ToSet(map_swappable(list, f)) = ToSet(list) \cup {f}
           /\ IsInjective(map_swappable(list, f))
  <1> DEFINE new == map_swappable(list, f)
             n == Len(list)
  <1>1. n \in Nat /\ DOMAIN list = 1 .. n
    OBVIOUS
  <1>2. /\ new \in Seq(S) /\ Len(new) = n + 1 /\ DOMAIN new = 1 .. n + 1
        /\ \A i \in 1 .. n + 1 : new[i] = IF i = 1 THEN f ELSE list[i - 1]
    <2>1. <<f>> \in Seq(S) /\ Len(<<f>>) = 1 /\ <<f>>[1] = f
      OBVIOUS
    <2> QED  BY <1>1, <2>1, ConcatProperties DEF map_swappable
  <1> HIDE DEF new, n
  <1>3. \A i \in 2 .. n + 1 : i - 1 \in 1 .. n /\ i \in 1 .. n + 1 /\ i # 1
    BY <1>1
  <1>4. new[1] = f /\ \A i \in 2 .. n + 1 : new[i] = list[i - 1]
    BY <1>1, <1>2, <1>3
  <1>5. ToSet(new) = ToSet(list) \cup {f}
    <2>1. \A i \in 1 .. n : i + 1 \in 2 .. n + 1 /\ i + 1 \in 1 .. n + 1 /\ (i + 1) - 1 = i
      BY <1>1
    <2>2. 1 \in 1 .. n + 1 /\ \A i \in 1 .. n + 1 : i = 1 \/ i \in 2 .. n + 1
      BY <1>1
    <2>3. ASSUME NEW e \in ToSet(new) PROVE e \in ToSet(list) \cup {f}
      <3>1. PICK i \in 1 .. n + 1 : e = new[i]
        BY <1>2, <2>3 DEF ToSet
      <3> QED  BY <1>1, <1>3, <1>4, <2>2, <3>1 DEF ToSet
    <2>4. ASSUME NEW e \in ToSet(list) PROVE e \in ToSet(new)
      <3>1. PICK i \in 1 .. n : e = list[i]
        BY <1>1, <2>4 DEF ToSet
      <3>2. e = new[i + 1]
        BY <1>4, <2>1, <3>1
      <3> QED  BY <1>2, <2>1, <3>2 DEF ToSet
    <2>5. f \in ToSet(new)
      BY <1>2, <1>4, <2>2 DEF ToSet
    <2> QED  BY <2>3, <2>4, <2>5
  <1>6. IsInjective(new)
    <2>1. \A i \in 2 .. n + 1 : list[i - 1] # f
      BY <1>1, <1>3 DEF ToSet
    <2>2. \A i \in 1 .. n + 1 : i = 1 \/ i \in 2 .. n + 1
      BY <1>1
    <2> SUFFICES ASSUME NEW i \in 1 .. n + 1, NEW j \in 1 .. n + 1, new[i] = new[j]
                 PROVE  i = j
      BY <1>2 DEF IsInjective
    <2>4. CASE i = 1 \/ j = 1
      BY <1>4, <2>1, <2>2, <2>4
    <2>5. CASE i # 1 /\ j # 1
      <3>1. list[i - 1] = list[j - 1] /\ i - 1 \in 1 .. n /\ j - 1 \in 1 .. n
        BY <1>3, <1>4, <2>2, <2>5
      <3>2. i - 1 = j - 1
        BY <1>1, <3>1 DEF IsInjective
      <3> QED  BY <1>1, <3>2
    <2> QED  BY <2>4, <2>5
  <1> QED  BY <1>2, <1>5, <1>6 DEF new

\* The victim is taken from the tail.
LEMMA ListDel ==
    ASSUME NEW S, NEW list \in Seq(S), list # <<>>, IsInjective(list)
    PROVE  /\ Last(list) \in ToSet(list)
           /\ Last(list) \in S
           /\ Front(list) \in Seq(S)
           /\ ToSet(Front(list)) = ToSet(list) \ {Last(list)}
           /\ IsInjective(Front(list))
  <1> DEFINE n == Len(list)
             front == Front(list)
  <1>1. n \in Nat \ {0} /\ DOMAIN list = 1 .. n /\ \A i \in 1 .. n : list[i] \in S
    BY EmptySeq
  <1>2. /\ front \in Seq(S) /\ DOMAIN front = 1 .. n - 1
        /\ \A i \in 1 .. n - 1 : front[i] = list[i]
    <2>1. front = SubSeq(list, 1, n - 1)
      BY DEF Front
    <2>2. /\ SubSeq(list, 1, n - 1) \in Seq(S)
          /\ Len(SubSeq(list, 1, n - 1)) = n - 1
          /\ \A i \in 1 .. n - 1 : SubSeq(list, 1, n - 1)[i] = list[i]
      <3>1. 1 \in Int /\ n - 1 \in Int /\ \A i \in 1 .. n - 1 : list[i] \in S
        BY <1>1
      <3>2. /\ SubSeq(list, 1, n - 1) \in Seq(S)
            /\ Len(SubSeq(list, 1, n - 1)) = IF 1 <= n - 1 THEN (n - 1) - 1 + 1 ELSE 0
            /\ \A i \in 1 .. (n - 1) - 1 + 1 : SubSeq(list, 1, n - 1)[i] = list[1 + i - 1]
        BY <3>1, SubSeqProperties
      <3> QED  BY <1>1, <3>2
    <2> QED  BY <2>1, <2>2
  <1>3. Last(list) = list[n]
    BY DEF Last
  <1> HIDE DEF n, front
  <1>4. \A i, j \in 1 .. n : list[i] = list[j] => i = j
    BY <1>1 DEF IsInjective
  <1>5. \A i \in 1 .. n : i = n \/ i \in 1 .. n - 1
    BY <1>1
  <1>6. \A i \in 1 .. n - 1 : i \in 1 .. n /\ i # n
    BY <1>1
  <1>7. n \in 1 .. n
    BY <1>1
  <1>8. ToSet(front) = ToSet(list) \ {list[n]}
    BY <1>1, <1>2, <1>4, <1>5, <1>6, <1>7 DEF ToSet
  <1>9. IsInjective(front)
    BY <1>2, <1>4, <1>6 DEF IsInjective
  <1>10. list[n] \in ToSet(list) /\ list[n] \in S
    BY <1>1, <1>7 DEF ToSet
  <1> QED  BY <1>2, <1>3, <1>8, <1>9, <1>10 DEF front

----------------------------------------------------------------------------
(* The inductive invariant.                                                *)

Resident == {a \in Pages : Present(a)}

TypeOK ==
    /\ free \in SUBSET Frames
    /\ pte \in [Pages -> Frames \cup {"swapped", None}]
    /\ page \in [Frames -> Vals]
    /\ disk \in [Pages -> Vals]
    /\ pra \in Seq(Frames)
    /\ pra_vaddr \in [Frames -> Pages \cup {None}]
    /\ tlb \in [Pages -> Frames \cup {None}]
    /\ fault \in Pages \cup {None}
    /\ errors \in Nat

\* do_pgfault is called for a page that is not there, and stays so until the
\* fault ends.
Absent == fault # None => pte[fault] \notin Frames /\ tlb[fault] = None

Inv == TypeOK /\ SwappableExact /\ Absent

LEMMA InitInv == Init => Inv
  <1> SUFFICES ASSUME Init PROVE Inv
    OBVIOUS
  <1> USE SwapAssumption DEF Init
  <1>1. Junk \in Vals
    BY DEF Vals
  <1>2. TypeOK
    BY <1>1 DEF TypeOK
  <1>3. DOMAIN <<>> = {} /\ ToSet(<<>>) = {} /\ IsInjective(<<>>)
    BY DEF ToSet, IsInjective
  <1>4. \A a \in Pages : ~Present(a)
    BY DEF Present
  <1>5. SwappableExact
    BY <1>3, <1>4 DEF SwappableExact
  <1> QED  BY <1>2, <1>5 DEF Inv, Absent

\* The frames that the MMU reaches.
LEMMA Reached ==
    ASSUME Inv, NEW a \in Pages, Translation(a) # None
    PROVE  /\ Present(a)
           /\ Translation(a) = pte[a]
           /\ pra_vaddr[pte[a]] = a
  <1> QED  BY SwapAssumption DEF Inv, TypeOK, SwappableExact, Translation, Present

\* A load or a store caches a translation that the page table has.
LEMMA AccessInv ==
    ASSUME Inv, NEW a \in Pages, Access(a)
    PROVE  Inv'
  <1>1. /\ fault = None
        /\ tlb' = [tlb EXCEPT ![a] = pte[a]]
        /\ UNCHANGED <<free, pte, disk, pra, pra_vaddr, fault, errors>>
        /\ Present(a)
    BY Reached DEF Access
  <1>2. page' \in [Frames -> Vals]
    <2>1. page' = page \/ \E v \in StoresTo(a) : page' = [page EXCEPT ![Translation(a)] = v]
      BY DEF Access
    <2>2. StoresTo(a) \subseteq Vals
      BY DEF Vals
    <2> QED  BY <2>1, <2>2 DEF Inv, TypeOK
  <1>3. TypeOK'
    BY <1>1, <1>2 DEF Inv, TypeOK, Present
  <1>4. SwappableExact'
    <2>1. \A b \in Pages : tlb'[b] \in {None, pte[b]}
      BY <1>1 DEF Inv, TypeOK, SwappableExact
    <2> QED  BY <1>1, <2>1 DEF Inv, SwappableExact, Present
  <1> QED  BY <1>1, <1>3, <1>4 DEF Inv, Absent

\* A page fault begins.
LEMMA PageFaultInv ==
    ASSUME Inv, NEW a \in Pages, PageFault(a)
    PROVE  Inv'
  <1>1. /\ fault' = a /\ Translation(a) = None
        /\ UNCHANGED <<free, pte, page, disk, pra, pra_vaddr, tlb, errors>>
    BY DEF PageFault, memory
  <1>2. TypeOK' /\ SwappableExact'
    BY <1>1 DEF Inv, TypeOK, SwappableExact, Present
  <1>3. pte[a] \notin Frames /\ tlb[a] = None
    BY <1>1, SwapAssumption DEF Translation, Present
  <1> QED  BY <1>1, <1>2, <1>3 DEF Inv, Absent

\* The page that the victim holds.
LEMMA TheVictim ==
    ASSUME Inv, pra # <<>>
    PROVE  /\ Victim \in Frames /\ Victim \in ToSet(pra)
           /\ pra_vaddr[Victim] \in Resident
           /\ pte[pra_vaddr[Victim]] = Victim
           /\ \A a \in Resident : pte[a] = Victim <=> a = pra_vaddr[Victim]
  <1>1. Victim \in Frames /\ Victim \in ToSet(pra)
    BY ListDel DEF Victim, Inv, TypeOK, SwappableExact
  <1>2. PICK a \in Resident : pte[a] = Victim
    BY <1>1 DEF Inv, SwappableExact, Resident
  <1>3. \A b \in Resident : pra_vaddr[pte[b]] = b
    BY DEF Inv, SwappableExact, Resident
  <1> QED  BY <1>1, <1>2, <1>3

\* The victim goes to disk, with everything that could still reach its frame.
LEMMA SwapOutInv ==
    ASSUME Inv, SwapOut
    PROVE  Inv'
  <1> USE SwapAssumption
  <1> DEFINE f == Victim
             v == pra_vaddr[f]
  <1>1. /\ fault # None /\ free = {} /\ pra # <<>>
        /\ disk' = [disk EXCEPT ![v] = page[f]]
        /\ pte' = [pte EXCEPT ![v] = "swapped"]
        /\ free' = {f}
        /\ tlb' = [tlb EXCEPT ![v] = None]
        /\ pra' = Front(pra)
        /\ UNCHANGED <<page, pra_vaddr, fault, errors>>
    BY DEF SwapOut
  <1>2. /\ f \in Frames /\ f \in ToSet(pra)
        /\ v \in Resident /\ v \in Pages /\ pte[v] = f
        /\ \A a \in Resident : pte[a] = f <=> a = v
    BY <1>1, TheVictim DEF Resident
  <1>3. /\ pra' \in Seq(Frames)
        /\ ToSet(pra') = ToSet(pra) \ {f}
        /\ IsInjective(pra')
    BY <1>1, ListDel DEF Inv, TypeOK, SwappableExact, Victim
  <1> HIDE DEF f, v
  <1>4. /\ \A a \in Pages : pte'[a] = IF a = v THEN "swapped" ELSE pte[a]
        /\ \A a \in Pages : tlb'[a] = IF a = v THEN None ELSE tlb[a]
    BY <1>1 DEF Inv, TypeOK
  <1>5. TypeOK'
    BY <1>1, <1>2, <1>3 DEF Inv, TypeOK
  <1>6. Resident' = Resident \ {v}
    BY <1>4 DEF Resident, Present
  <1>7. /\ ToSet(pra) = {pte[a] : a \in Resident}
        /\ free = Frames \ ToSet(pra)
        /\ \A a \in Resident : pra_vaddr[pte[a]] = a
        /\ \A a \in Pages : tlb[a] \in {None, pte[a]}
    BY DEF Inv, SwappableExact, Resident
  <1>8. ToSet(pra)' = {pte'[a] : a \in Resident'}
    <2>1. \A a \in Resident \ {v} : pte'[a] = pte[a] /\ pte[a] # f
      BY <1>2, <1>4 DEF Resident
    <2> QED  BY <1>2, <1>3, <1>6, <1>7, <2>1
  <1>9. free' = Frames \ ToSet(pra')
    BY <1>1, <1>2, <1>3, <1>7
  <1>10. SwappableExact'
    <2>1. \A a \in Resident' : pra_vaddr'[pte'[a]] = a
      BY <1>1, <1>4, <1>6, <1>7 DEF Resident
    <2>2. \A a \in Pages : tlb'[a] \in {None, pte'[a]}
      BY <1>4, <1>7
    <2> QED  BY <1>3, <1>8, <1>9, <2>1, <2>2 DEF SwappableExact, Resident
  <1>11. Absent'
    BY <1>1, <1>4 DEF Inv, TypeOK, Absent
  <1> QED  BY <1>5, <1>10, <1>11 DEF Inv

\* A victim that cannot be written goes to the head of the list.
LEMMA SwapOutFailsInv ==
    ASSUME Inv, SwapOutFails
    PROVE  Inv'
  <1>1. /\ pra # <<>>
        /\ pra' = map_swappable(Front(pra), Victim)
        /\ disk' = [disk EXCEPT ![pra_vaddr[Victim]] = Junk]
        /\ UNCHANGED <<free, pte, page, pra_vaddr, tlb, fault, errors>>
    BY DEF SwapOutFails
  <1>2. pra_vaddr[Victim] \in Pages /\ Victim \in ToSet(pra)
    BY <1>1, TheVictim DEF Resident
  <1>3. /\ Front(pra) \in Seq(Frames) /\ Victim \in Frames
        /\ ToSet(Front(pra)) = ToSet(pra) \ {Victim}
        /\ IsInjective(Front(pra))
    BY <1>1, ListDel DEF Inv, TypeOK, SwappableExact, Victim
  <1>4. /\ pra' \in Seq(Frames) /\ IsInjective(pra')
        /\ ToSet(pra') = (ToSet(pra) \ {Victim}) \cup {Victim}
    BY <1>1, <1>3, ListAdd
  <1>5. ToSet(pra') = ToSet(pra)
    BY <1>2, <1>4
  <1>6. disk' \in [Pages -> Vals]
    BY <1>1, <1>2 DEF Inv, TypeOK, Vals
  <1>7. TypeOK' /\ Absent'
    BY <1>1, <1>4, <1>6 DEF Inv, TypeOK, Absent
  <1>8. SwappableExact'
    <2>1. /\ ToSet(pra) = {pte[a] : a \in Resident}
          /\ free = Frames \ ToSet(pra)
          /\ \A a \in Resident : pra_vaddr[pte[a]] = a
          /\ \A a \in Pages : tlb[a] \in {None, pte[a]}
      BY DEF Inv, SwappableExact, Resident
    <2>2. Resident' = Resident
      BY <1>1 DEF Resident, Present
    <2>3. /\ ToSet(pra)' = {pte'[a] : a \in Resident'}
          /\ free' = Frames \ ToSet(pra')
          /\ \A a \in Resident' : pra_vaddr'[pte'[a]] = a
          /\ \A a \in Pages : tlb'[a] \in {None, pte'[a]}
      BY <1>1, <1>5, <2>1, <2>2
    <2> QED  BY <1>4, <2>3 DEF SwappableExact, Resident
  <1> QED  BY <1>7, <1>8 DEF Inv

\* The page that faulted gets a free frame.
LEMMA MappedInv ==
    ASSUME Inv, fault # None, NEW f \in free, Mapped(f),
           page' \in [Frames -> Vals], errors' \in Nat, UNCHANGED <<disk, tlb>>
    PROVE  Inv'
  <1> USE SwapAssumption
  <1>1. /\ free' = free \ {f}
        /\ pte' = [pte EXCEPT ![fault] = f]
        /\ pra' = map_swappable(pra, f)
        /\ pra_vaddr' = [pra_vaddr EXCEPT ![f] = fault]
        /\ fault' = None
    BY DEF Mapped
  <1>2. /\ f \in Frames /\ f \notin ToSet(pra)
        /\ fault \in Pages /\ fault \notin Resident
        /\ tlb[fault] = None
    BY DEF Inv, TypeOK, SwappableExact, Absent, Resident, Present
  <1>3. /\ pra' \in Seq(Frames) /\ IsInjective(pra')
        /\ ToSet(pra') = ToSet(pra) \cup {f}
    BY <1>1, <1>2, ListAdd DEF Inv, TypeOK, SwappableExact
  <1>4. /\ \A a \in Pages : pte'[a] = IF a = fault THEN f ELSE pte[a]
        /\ \A g \in Frames : pra_vaddr'[g] = IF g = f THEN fault ELSE pra_vaddr[g]
    BY <1>1 DEF Inv, TypeOK
  <1>5. TypeOK'
    BY <1>1, <1>2, <1>3 DEF Inv, TypeOK
  <1>6. Resident' = Resident \cup {fault}
    BY <1>2, <1>4 DEF Resident, Present
  <1>7. /\ ToSet(pra) = {pte[a] : a \in Resident}
        /\ free = Frames \ ToSet(pra)
        /\ \A a \in Resident : pra_vaddr[pte[a]] = a
        /\ \A a \in Pages : tlb[a] \in {None, pte[a]}
    BY DEF Inv, SwappableExact, Resident
  <1>8. \A a \in Resident : a # fault /\ pte'[a] = pte[a] /\ pte[a] # f /\ pte[a] \in Frames
    BY <1>2, <1>4, <1>7 DEF Resident, Present
  <1>9. ToSet(pra)' = {pte'[a] : a \in Resident'}
    BY <1>2, <1>3, <1>4, <1>6, <1>7, <1>8
  <1>10. SwappableExact'
    <2>1. free' = Frames \ ToSet(pra')
      BY <1>1, <1>3, <1>7
    <2>2. \A a \in Resident' : pra_vaddr'[pte'[a]] = a
      BY <1>2, <1>4, <1>6, <1>7, <1>8
    <2>3. \A a \in Pages : tlb'[a] \in {None, pte'[a]}
      BY <1>2, <1>4, <1>7
    <2> QED  BY <1>3, <1>9, <2>1, <2>2, <2>3 DEF SwappableExact, Resident
  <1> QED  BY <1>1, <1>5, <1>10 DEF Inv, Absent

\* What the three ways have in common in which a fault ends.
LEMMA FaultEndInv ==
    ASSUME Inv, AllocPage \/ SwapIn \/ SwapInFails
    PROVE  Inv'
  <1>1. PICK f \in free :
            /\ Mapped(f)
            /\ page' = page \/ page' = [page EXCEPT ![f] = disk[fault]]
            /\ errors' \in {errors, errors + 1}
            /\ UNCHANGED <<disk, tlb>>
    BY DEF AllocPage, SwapIn, SwapInFails
  <1>2. fault # None
    BY DEF AllocPage, SwapIn, SwapInFails
  <1>3. page' \in [Frames -> Vals] /\ errors' \in Nat
    BY <1>1, <1>2 DEF Inv, TypeOK
  <1> QED  BY <1>1, <1>2, <1>3, MappedInv

LEMMA StepInv == Inv /\ [Next]_vars => Inv'
  <1> SUFFICES ASSUME Inv, [Next]_vars PROVE Inv'
    OBVIOUS
  <1>1. CASE \E a \in Pages : Access(a) \/ PageFault(a)
    BY <1>1, AccessInv, PageFaultInv
  <1>2. CASE SwapOut \/ SwapOutFails
    BY <1>2, SwapOutInv, SwapOutFailsInv
  <1>3. CASE AllocPage \/ SwapIn \/ SwapInFails
    BY <1>3, FaultEndInv
  <1>4. CASE UNCHANGED vars
    BY <1>4 DEF vars, memory, Inv, TypeOK, SwappableExact, Present, Absent
  <1> QED  BY <1>1, <1>2, <1>3, <1>4 DEF Next

THEOREM SwapInvariance == Spec => []Inv
  BY InitInv, StepInv, PTL DEF Spec

\* The assertion on the victim's entry in swap_out holds, no frame is lost, and
\* no translation outlives the page it leads to, whatever order faults,
\* accesses and failures of the device come in.
THEOREM SwappablePagesExact == Spec => []SwappableExact
  <1>1. Inv => SwappableExact
    BY DEF Inv
  <1> QED  BY <1>1, SwapInvariance, PTL

----------------------------------------------------------------------------
(* Swapping implements Backing.                                            *)

\* What the program finds in page a.
MemOf(a) ==
    IF Present(a) THEN page[pte[a]]
    ELSE IF pte[a] = "swapped" THEN disk[a] ELSE Fresh

\* A page that has been touched holds a content.
LEMMA Touched ==
    ASSUME Inv, NEW a \in Pages, pte[a] # None
    PROVE  MemOf(a) \in Vals /\ MemOf(a) # Fresh
  <1> QED  BY SwapAssumption DEF Inv, TypeOK, MemOf, Present

\* A load changes nothing, a store only the page that it is for.
LEMMA AccessMaps ==
    ASSUME Inv, NEW a \in Pages, Access(a)
    PROVE  [Memory!Next]_Memory!vars
  <1>1. /\ fault = None
        /\ UNCHANGED <<pte, disk, fault, errors>>
        /\ Present(a) /\ Translation(a) = pte[a] /\ pra_vaddr[pte[a]] = a
    BY Reached DEF Access
  <1>2. CASE UNCHANGED page
    BY <1>1, <1>2 DEF Memory!vars, Present
  <1>3. ASSUME NEW v \in StoresTo(a), page' = [page EXCEPT ![pte[a]] = v]
        PROVE  Memory!Store(a)
    <2>1. \A b \in Pages : Present(b) /\ b # a => pte[b] # pte[a]
      BY <1>1 DEF Inv, SwappableExact
    <2>2. pte[a] \in Frames /\ page \in [Frames -> Vals]
      BY <1>1 DEF Inv, TypeOK, Present
    <2>3. \A b \in Pages : MemOf(b)' = IF b = a THEN v ELSE MemOf(b)
      BY <1>1, <1>3, <2>1, <2>2 DEF MemOf, Present
    <2>4. MemOf(a) # Fresh
      BY <1>1, Touched, SwapAssumption DEF Present
    <2> QED  BY <1>1, <2>3, <2>4 DEF Memory!Store, Memory!Holds, MemOf
  <1>4. page' = page \/ \E v \in StoresTo(a) : page' = [page EXCEPT ![pte[a]] = v]
    BY <1>1 DEF Access
  <1> QED  BY <1>2, <1>3, <1>4 DEF Memory!Next

\* What goes to disk is what the frame held.
LEMMA SwapOutMaps ==
    ASSUME Inv, SwapOut \/ SwapOutFails
    PROVE  UNCHANGED Memory!vars
  <1> USE SwapAssumption
  <1>1. /\ pra # <<>> /\ UNCHANGED <<page, fault, errors>>
        /\ disk' = [disk EXCEPT ![pra_vaddr[Victim]] =
                        IF SwapOut THEN page[Victim] ELSE Junk]
        /\ pte' = IF SwapOut THEN [pte EXCEPT ![pra_vaddr[Victim]] = "swapped"] ELSE pte
    BY DEF SwapOut, SwapOutFails
  <1> DEFINE v == pra_vaddr[Victim]
  <1>2. v \in Pages /\ Present(v) /\ pte[v] = Victim
    BY <1>1, TheVictim DEF Resident
  <1> HIDE DEF v
  <1>3. \A a \in Pages : MemOf(a)' = MemOf(a)
    <2>1. CASE SwapOut
      <3>1. /\ \A a \in Pages : pte'[a] = IF a = v THEN "swapped" ELSE pte[a]
            /\ \A a \in Pages : disk'[a] = IF a = v THEN page[Victim] ELSE disk[a]
        BY <1>1, <2>1 DEF Inv, TypeOK, v
      <3> QED  BY <1>1, <1>2, <3>1 DEF MemOf, Present
    <2>2. CASE ~SwapOut
      <3>1. /\ pte' = pte
            /\ \A a \in Pages : a # v => disk'[a] = disk[a]
        BY <1>1, <2>2 DEF Inv, TypeOK, v
      <3> QED  BY <1>1, <1>2, <3>1 DEF MemOf, Present
    <2> QED  BY <2>1, <2>2
  <1> QED  BY <1>1, <1>3 DEF Memory!vars, MemOf

\* The fault ends: the page is new, or what it was, or lost.
LEMMA FaultEndMaps ==
    ASSUME Inv, AllocPage \/ SwapIn \/ SwapInFails
    PROVE  Memory!FaultEnd
  <1> USE SwapAssumption
  <1>1. PICK f \in free :
            /\ Mapped(f)
            /\ \/ /\ pte[fault] = None
                  /\ UNCHANGED <<page, errors>>
               \/ /\ pte[fault] = "swapped"
                  /\ page' = [page EXCEPT ![f] = disk[fault]]
                  /\ UNCHANGED errors
               \/ /\ pte[fault] = "swapped"
                  /\ UNCHANGED page
                  /\ errors' = errors + 1
            /\ UNCHANGED disk
    BY DEF AllocPage, SwapIn, SwapInFails
  <1>2. fault # None /\ fault \in Pages /\ fault' = None
    BY <1>1 DEF AllocPage, SwapIn, SwapInFails, Mapped, Inv, TypeOK
  <1>3. f \in Frames /\ f \notin ToSet(pra) /\ page \in [Frames -> Vals] /\ disk \in [Pages -> Vals]
    BY DEF Inv, TypeOK, SwappableExact
  <1>4. \A a \in Pages : Present(a) => a # fault /\ pte[a] # f
    BY <1>2, <1>3 DEF Inv, SwappableExact, Absent, Present
  <1>5. \A a \in Pages : pte'[a] = IF a = fault THEN f ELSE pte[a]
    BY <1>1, <1>2 DEF Mapped, Inv, TypeOK
  <1>6. \A g \in Frames : g # f => page'[g] = page[g]
    BY <1>1, <1>3
  <1>7. \A a \in Pages : MemOf(a)' = IF a = fault THEN page'[f] ELSE MemOf(a)
    BY <1>1, <1>3, <1>4, <1>5, <1>6 DEF MemOf, Present
  <1>8. page'[f] \in Vals
    BY <1>1, <1>2, <1>3
  <1>9. CASE pte[fault] = None /\ UNCHANGED errors
    <2>1. MemOf(fault) = Fresh
      BY <1>9 DEF MemOf, Present
    <2>2. PICK a \in Pages : a = fault
      BY <1>2
    <2>3. Memory!Touch(a)
      BY <1>2, <1>7, <1>8, <1>9, <2>1, <2>2 DEF Memory!Touch, Memory!Holds, MemOf
    <2> QED  BY <1>2, <2>3 DEF Memory!FaultEnd
  <1>10. CASE pte[fault] = "swapped" /\ page' = [page EXCEPT ![f] = disk[fault]] /\ UNCHANGED errors
    <2>1. MemOf(fault) = disk[fault] /\ page'[f] = disk[fault]
      BY <1>3, <1>10 DEF MemOf, Present
    <2>2. \A a \in Pages : MemOf(a)' = MemOf(a)
      BY <1>7, <2>1
    <2>3. Memory!Return
      BY <1>10, <2>2 DEF Memory!Return, MemOf
    <2> QED  BY <1>2, <2>3 DEF Memory!FaultEnd
  <1>11. CASE pte[fault] = "swapped" /\ errors' = errors + 1
    <2>1. MemOf(fault) # Fresh
      BY <1>2, <1>11, Touched
    <2>2. PICK a \in Pages : a = fault
      BY <1>2
    <2>3. Memory!Lose(a)
      BY <1>2, <1>7, <1>8, <1>11, <2>1, <2>2 DEF Memory!Lose, Memory!Holds, MemOf
    <2> QED  BY <1>2, <2>3 DEF Memory!FaultEnd
  <1> QED  BY <1>1, <1>9, <1>10, <1>11

\* swap_out and swap_in never mix pages up or bring back an old content: a
\* program sees one memory in which each page holds what was stored last.
THEOREM SwapRefinement == Spec => ImplementsBacking
  <1>1. Init => Memory!Init
    BY SwapAssumption DEF Init, Memory!Init, Present
  <1>2. Inv /\ [Next]_vars => [Memory!Next]_Memory!vars
    <2> SUFFICES ASSUME Inv, [Next]_vars
                 PROVE  [Memory!Next]_Memory!vars
      OBVIOUS
    <2>1. ASSUME NEW a \in Pages, PageFault(a)
          PROVE  Memory!Fault
      BY <2>1, SwapAssumption DEF PageFault, memory, Memory!Fault, Present
    <2>2. CASE UNCHANGED vars
      BY <2>2 DEF vars, memory, Memory!vars, Present
    <2> QED  BY <2>1, <2>2, AccessMaps, SwapOutMaps, FaultEndMaps DEF Next, Memory!Next
  <1> QED  BY <1>1, <1>2, SwapInvariance, PTL DEF Spec, ImplementsBacking, Memory!Spec
============================================================================
