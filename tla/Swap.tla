-------------------------------- MODULE Swap --------------------------------
(***************************************************************************)
(* Paging to the swap device: the swap branch of do_pgfault (kern/mm/      *)
(* vmm.c), the loop of alloc_pages (pmm.c), swap_out and swap_in (swap.c)  *)
(* and the FIFO manager (swap_fifo.c), as check_swap uses them while the   *)
(* kernel boots: one mm, one area of readable and writable pages, a page   *)
(* table that is there, and a few frames.  The loop of alloc_pages is one  *)
(* action a turn.                                                          *)
(***************************************************************************)
EXTENDS Integers, Sequences, SequencesExt, TLC

CONSTANTS
    Pages, Frames,
    StoresTo(_),    \* the values a program stores to a page
    Junk,           \* what a frame or a disk slot holds at first
    MaxErrors,      \* bounds of the failed reads
    None, Fresh

Vals == (UNION {StoresTo(a) : a \in Pages}) \cup {Junk}

\* A page table entry, a page and a content are told apart.
ASSUME SwapAssumption ==
    /\ None \notin Frames \cup Pages
    /\ "swapped" \notin Frames \cup {None}
    /\ Fresh \notin Vals

VARIABLES
    free,           \* the free frames
    pte,            \* a frame, "swapped", or None where *ptep == 0
    page,           \* what the frames hold
    disk,           \* what the swap slots hold; page a has slot a + 1
    pra,            \* pra_list_head, head first
    pra_vaddr,      \* page->pra_vaddr of each frame
    tlb,            \* the translations that are cached
    fault,          \* the page that do_pgfault is called for, or None
    errors          \* the reads that have failed

memory == <<free, pte, page, disk, pra, pra_vaddr>>
vars == <<memory, tlb, fault, errors>>

Init ==
    /\ free = Frames
    /\ pte = [a \in Pages |-> None]
    /\ page = [f \in Frames |-> Junk]
    /\ disk = [a \in Pages |-> Junk]
    /\ pra = <<>>
    /\ pra_vaddr = [f \in Frames |-> None]
    /\ tlb = [a \in Pages |-> None]
    /\ fault = None
    /\ errors = 0

----------------------------------------------------------------------------
(* The MMU                                                                 *)

Present(a) == pte[a] \in Frames

Translation(a) == IF tlb[a] # None THEN tlb[a]
                  ELSE IF Present(a) THEN pte[a] ELSE None

\* A load or a store; a load only caches the translation.
Access(a) ==
    /\ fault = None
    /\ Translation(a) # None
    /\ tlb' = [tlb EXCEPT ![a] = Translation(a)]
    /\ \/ UNCHANGED page
       \/ \E v \in StoresTo(a) : page' = [page EXCEPT ![Translation(a)] = v]
    /\ UNCHANGED <<free, pte, disk, pra, pra_vaddr, fault, errors>>

\* The page is not there: do_pgfault, whose area it is in.
PageFault(a) ==
    /\ fault = None
    /\ Translation(a) = None
    /\ fault' = a
    /\ UNCHANGED <<memory, tlb, errors>>

----------------------------------------------------------------------------
(* swap_fifo.c and swap_out, called by alloc_pages when no frame is free   *)

\* list_add of _fifo_map_swappable.
map_swappable(list, f) == <<f>> \o list

\* _fifo_swap_out_victim: the tail.
Victim == Last(pra)

\* Fault: the translation of the victim stays cached.
SwapOut_NoInvalidate ==
    /\ fault # None /\ free = {} /\ pra # <<>>
    /\ LET f == Victim v == pra_vaddr[f]
       IN  /\ disk' = [disk EXCEPT ![v] = page[f]]
           /\ pte' = [pte EXCEPT ![v] = "swapped"]
           /\ free' = {f}
    /\ pra' = Front(pra)
    /\ UNCHANGED <<page, pra_vaddr, tlb, fault, errors>>

\* Fault: the victim is saved, but stays where it is.
SwapOut_KeepsPage ==
    /\ fault # None /\ free = {} /\ pra # <<>>
    /\ pra' = map_swappable(Front(pra), Victim)
    /\ disk' = [disk EXCEPT ![pra_vaddr[Victim]] = page[Victim]]
    /\ UNCHANGED <<free, pte, page, pra_vaddr, tlb, fault, errors>>

SwapOut ==
    /\ fault # None /\ free = {} /\ pra # <<>>
    /\ LET f == Victim v == pra_vaddr[f]
       IN  /\ disk' = [disk EXCEPT ![v] = page[f]]
           /\ pte' = [pte EXCEPT ![v] = "swapped"]
           /\ free' = {f}
           /\ tlb' = [tlb EXCEPT ![v] = None]
    /\ pra' = Front(pra)
    /\ UNCHANGED <<page, pra_vaddr, fault, errors>>

\* The write fails: the slot is spoilt, the page becomes the latest arrival
\* and alloc_pages tries again.
SwapOutFails ==
    /\ fault # None /\ free = {} /\ pra # <<>>
    /\ pra' = map_swappable(Front(pra), Victim)
    /\ disk' = [disk EXCEPT ![pra_vaddr[Victim]] = Junk]
    /\ UNCHANGED <<free, pte, page, pra_vaddr, tlb, fault, errors>>

----------------------------------------------------------------------------
(* The rest of do_pgfault, once alloc_pages has a frame                    *)

\* page_insert, swap_map_swappable and page->pra_vaddr.
Mapped(f) ==
    /\ free' = free \ {f}
    /\ pte' = [pte EXCEPT ![fault] = f]
    /\ pra' = map_swappable(pra, f)
    /\ pra_vaddr' = [pra_vaddr EXCEPT ![f] = fault]
    /\ fault' = None

\* pgdir_alloc_page: the page holds what its frame held.
AllocPage ==
    /\ fault # None
    /\ pte[fault] = None
    /\ \E f \in free : Mapped(f)
    /\ UNCHANGED <<page, disk, tlb, errors>>

\* Fault: the contents of the swap slot are not read.
SwapIn_NoRead ==
    /\ fault # None
    /\ pte[fault] = "swapped"
    /\ \E f \in free : Mapped(f)
    /\ UNCHANGED <<page, disk, tlb, errors>>

SwapIn ==
    /\ fault # None
    /\ pte[fault] = "swapped"
    /\ \E f \in free :
        /\ Mapped(f)
        /\ page' = [page EXCEPT ![f] = disk[fault]]
    /\ UNCHANGED <<disk, tlb, errors>>

\* The read fails; swap_in goes on, and the page holds what its frame held.
SwapInFails ==
    /\ fault # None
    /\ errors < MaxErrors
    /\ pte[fault] = "swapped"
    /\ \E f \in free : Mapped(f)
    /\ errors' = errors + 1
    /\ UNCHANGED <<page, disk, tlb>>

Next ==
    \/ \E a \in Pages : Access(a) \/ PageFault(a)
    \/ SwapOut \/ SwapOutFails
    \/ AllocPage \/ SwapIn \/ SwapInFails

\* The kernel goes on with a fault; a device that is asked again and again
\* writes some time.
Fairness == WF_vars(AllocPage \/ SwapIn \/ SwapInFails) /\ SF_vars(SwapOut)

Spec == Init /\ [][Next]_vars /\ Fairness

----------------------------------------------------------------------------
(* Properties                                                              *)

\* The swappable pages are exactly the pages that are mapped, each once and
\* under its own address, so that the assertion on the victim's entry in
\* swap_out holds and no frame is lost; free frames are mapped nowhere, and
\* nothing stays cached of a page that has gone to disk.
SwappableExact ==
    LET resident == {a \in Pages : Present(a)}
    IN  /\ IsInjective(pra)
        /\ ToSet(pra) = {pte[a] : a \in resident}
        /\ free = Frames \ ToSet(pra)
        /\ \A a \in resident : pra_vaddr[pte[a]] = a
        /\ \A a \in Pages : tlb[a] \in {None, pte[a]}

\* Programs cannot tell the frames from a memory that is large enough, as
\* long as the device reads back what it was given: swap_out and swap_in
\* never mix pages up or bring back an old content.
Memory == INSTANCE Backing WITH
    mem <- [a \in Pages |-> IF Present(a) THEN page[pte[a]]
                            ELSE IF pte[a] = "swapped" THEN disk[a] ELSE Fresh],
    busy <- fault # None

ImplementsBacking == Memory!Spec

\* A page fault ends, though writes to the device may fail: alloc_pages does
\* not turn for ever on pages that it cannot write.
FaultEnds == fault # None ~> fault = None

\* For TLC: contents are told apart by the page they belong to, and only page 1
\* has two, an old and a new one.
MCStoresTo(a) == IF a = 1 THEN {"old1", "new1"} ELSE {ToString(a)}

=============================================================================
