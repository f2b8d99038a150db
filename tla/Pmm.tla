--------------------------------- MODULE Pmm ---------------------------------
(***************************************************************************)
(* The physical pages: what page_init (kern/mm/pmm.c) makes of the memory  *)
(* map of the BIOS, and the first-fit manager of kern/mm/default_pmm.c     *)
(* with its free list in address order.  The functions of the manager run  *)
(* with interrupts off (pmm.c), one action each; a loop is a function of   *)
(* the number of its turns.                                                *)
(***************************************************************************)
EXTENDS Integers, Sequences, FiniteSets, SequencesExt

CONSTANTS
    PGSIZE, KMEMSIZE,
    kernel_end,     \* the address of end[], where the struct Pages follow
    SizeofPage,     \* sizeof(struct Page)
    MemMaps         \* memory maps: entries [addr, size, type] in address order

VARIABLES
    memmap,         \* the memory map of this machine
    free_list,      \* the pages in the free list, in list order
    nr_free,        \* the counter
    PG_property,    \* the pages whose PG_property flag is set
    property,       \* p->property, meaningless where the flag is clear
    used,           \* the pages handed out
    answer          \* the latest request, of n pages, and what it returned

vars == <<memmap, free_list, nr_free, PG_property, property, used, answer>>

NPages == KMEMSIZE \div PGSIZE
Pages == 0 .. NPages - 1
NULL == -1

Run(base, n) == base .. base + n - 1
Answer(n, page) == [n |-> n, page |-> page]

ROUNDUP(a) == ((a + PGSIZE - 1) \div PGSIZE) * PGSIZE

----------------------------------------------------------------------------
(* page_init                                                               *)

IsRam(e) == e.type = "E820_ARM"

End(e) == e.addr + e.size

\* The pages up to the end of the highest usable memory have a struct Page.
npage(map) ==
    LET ends == {End(map[i]) : i \in {j \in DOMAIN map :
                                        IsRam(map[j]) /\ map[j].addr < KMEMSIZE}}
    IN  Min({KMEMSIZE, Max({0} \cup ends)}) \div PGSIZE

freemem(map) == ROUNDUP(kernel_end) + SizeofPage * npage(map)

\* Fault: the end is rounded up like the beginning.
Region_RoundedUp(map, e) ==
    LET begin == ROUNDUP(Max({e.addr, freemem(map)})) \div PGSIZE
        end   == ROUNDUP(Min({End(e), KMEMSIZE})) \div PGSIZE
    IN  [base |-> begin, n |-> end - begin]

\* What init_memmap gets of an entry, if n is above 0.
Region(map, e) ==
    LET begin == ROUNDUP(Max({e.addr, freemem(map)})) \div PGSIZE
        end   == Min({End(e), KMEMSIZE}) \div PGSIZE
    IN  [base |-> begin, n |-> end - begin]

\* The functions of the manager work on what it keeps, as one value; page is
\* what the latest request got.
default_init ==
    [list |-> <<>>, nr_free |-> 0, flags |-> {}, property |-> [p \in Pages |-> 0],
     page |-> NULL]

default_init_memmap(m, base, n) ==
    [m EXCEPT !.list = Append(@, base),
              !.nr_free = @ + n,
              !.flags = @ \cup {base},
              !.property = [@ EXCEPT ![base] = n]]

\* One turn of the second loop of page_init, at an entry of the memory map.
InitMap(m, map, e) ==
    LET r == Region(map, e)
    IN  IF IsRam(e) /\ r.n > 0 THEN default_init_memmap(m, r.base, r.n) ELSE m

page_init(map) ==
    LET turn[i \in 0 .. Len(map)] ==
            IF i = 0 THEN default_init ELSE InitMap(turn[i - 1], map, map[i])
    IN  turn[Len(map)]

Init ==
    /\ memmap \in MemMaps
    /\ LET m == page_init(memmap)
       IN  /\ free_list = m.list /\ nr_free = m.nr_free
           /\ PG_property = m.flags /\ property = m.property
    /\ used = {}
    /\ answer = Answer(0, NULL)

\* A BIOS gives what no entry of usable memory has in common with another, in
\* address order, and one entry for memory that is in one piece.
ASSUME PagesAssumption ==
    /\ PGSIZE \in Nat \ {0} /\ KMEMSIZE \in Nat
    /\ kernel_end \in Nat /\ SizeofPage \in Nat
    /\ \A map \in MemMaps :
        /\ map \in Seq([addr : Nat, size : Nat, type : STRING])
        /\ \A i, j \in 1 .. Len(map) :
            i < j /\ IsRam(map[i]) /\ IsRam(map[j]) => End(map[i]) < map[j].addr

----------------------------------------------------------------------------
(* default_alloc_pages and default_free_pages                              *)

Manager == [list |-> free_list, nr_free |-> nr_free, flags |-> PG_property,
            property |-> property, page |-> answer.page]

Becomes(m) ==
    /\ free_list' = m.list /\ nr_free' = m.nr_free
    /\ PG_property' = m.flags /\ property' = m.property

\* Fault: the search takes a larger block only.
Fits_Strict(m, p, n) == m.property[p] > n

Fits(m, p, n) == m.property[p] >= n

NoBlock(m, n) ==
    n > m.nr_free \/ \A i \in DOMAIN m.list : ~Fits(m, m.list[i], n)

\* The first block of the list that is large enough, by its index.
FirstFit(m, n) ==
    CHOOSE i \in DOMAIN m.list :
        /\ Fits(m, m.list[i], n)
        /\ \A j \in 1 .. i - 1 : ~Fits(m, m.list[j], n)

\* The front of the i-th block is handed out; what is left of the block takes
\* its place in the list.
TakeFrom(m, i, n) ==
    LET page == m.list[i]
        rest == page + n
        more == m.property[page] > n
    IN  [list     |-> IF more THEN [m.list EXCEPT ![i] = rest] ELSE RemoveAt(m.list, i),
         property |-> IF more THEN [m.property EXCEPT ![rest] = m.property[page] - n]
                      ELSE m.property,
         flags    |-> (m.flags \ {page}) \cup (IF more THEN {rest} ELSE {}),
         nr_free  |-> m.nr_free - n,
         page     |-> page]

alloc_pages(m, n) ==
    IF NoBlock(m, n) THEN [m EXCEPT !.page = NULL] ELSE TakeFrom(m, FirstFit(m, n), n)

Unlink(list, p) == RemoveAt(list, CHOOSE i \in DOMAIN list : list[i] = p)

\* Fault: a block is merged with the one above it only.
MergeWith_Above(s, p) ==
    IF s.base + s.property[s.base] = p
    THEN [s EXCEPT !.property[s.base] = @ + s.property[p],
                   !.flags = @ \ {p},
                   !.list = Unlink(@, p)]
    ELSE s

\* One turn of the merging loop of default_free_pages, at the list entry p.
MergeWith(s, p) ==
    CASE s.base + s.property[s.base] = p ->
            [s EXCEPT !.property[s.base] = @ + s.property[p],
                      !.flags = @ \ {p},
                      !.list = Unlink(@, p)]
      [] p + s.property[p] = s.base ->
            [s EXCEPT !.property[p] = @ + s.property[s.base],
                      !.flags = @ \ {s.base},
                      !.base = p,
                      !.list = Unlink(@, p)]
      [] OTHER -> s

Merged(m, base, n) ==
    LET turn[i \in 0 .. Len(m.list)] ==
            IF i = 0
            THEN [base |-> base,
                  property |-> [m.property EXCEPT ![base] = n],
                  flags |-> m.flags \cup {base},
                  list |-> m.list]
            ELSE MergeWith(turn[i - 1], m.list[i])
    IN  turn[Len(m.list)]

\* The block goes in front of the first one that begins at or above its end.
InsertBlock(s) ==
    LET above == {i \in DOMAIN s.list : s.base + s.property[s.base] <= s.list[i]}
    IN  InsertAt(s.list, Min(above \cup {Len(s.list) + 1}), s.base)

free_pages(m, base, n) ==
    LET Linked(s) == [list |-> InsertBlock(s), nr_free |-> m.nr_free + n,
                      flags |-> s.flags, property |-> s.property, page |-> m.page]
    IN  Linked(Merged(m, base, n))

----------------------------------------------------------------------------
(* The callers                                                             *)

AllocFails(n) ==
    /\ NoBlock(Manager, n)
    /\ Becomes(alloc_pages(Manager, n))
    /\ answer' = Answer(n, NULL)
    /\ UNCHANGED used

AllocPages(n) ==
    /\ ~NoBlock(Manager, n)
    /\ LET m == alloc_pages(Manager, n)
       IN  /\ Becomes(m)
           /\ used' = used \cup Run(m.page, n)
           /\ answer' = Answer(n, m.page)

\* Any run of pages that were handed out may come back.
FreePages(base, n) ==
    /\ Run(base, n) \subseteq used
    /\ Becomes(free_pages(Manager, base, n))
    /\ used' = used \ Run(base, n)
    /\ UNCHANGED answer

Next ==
    /\ \E n \in 1 .. NPages :
        \/ AllocPages(n) \/ AllocFails(n)
        \/ \E base \in Pages : FreePages(base, n)
    /\ UNCHANGED memmap

Spec == Init /\ [][Next]_vars

----------------------------------------------------------------------------
(* Properties.                                                             *)

Block(p) == Run(p, property[p])

\* The list is in address order and its blocks neither overlap nor touch, so
\* every free run of pages is one block: what first fit relies on
\* (default_pmm.c:185 asserts the last part).
SortedAndMerged ==
    \A i \in 1 .. Len(free_list) - 1 :
        free_list[i] + property[free_list[i]] < free_list[i+1]

\* The pages that may be handed out: all of the page is usable memory, and
\* neither the kernel nor a struct Page is in it.
Available ==
    [map \in MemMaps |->
        {p \in Pages :
            /\ p * PGSIZE >= freemem(map)
            /\ \E e \in ToSet(map) : /\ IsRam(e)
                                     /\ e.addr <= p * PGSIZE
                                     /\ (p + 1) * PGSIZE <= End(e)}]

InFreeList == UNION {Block(p) : p \in ToSet(free_list)}

\* A page that may be handed out is in a block of the list or handed out, never
\* both and never lost, and no other page is; and each has its struct Page.
NoPageLost ==
    /\ used \cup InFreeList = Available[memmap]
    /\ used \cap InFreeList = {}
    /\ nr_free + Cardinality(used) = Cardinality(Available[memmap])
    /\ \A p \in used : p < npage(memmap)

\* The flag marks exactly the heads of the blocks in the list, so the assertion
\* in default_free_pages (default_pmm.c:157) holds for every page handed out,
\* and what default_check asserts of the list (default_pmm.c:257) holds.
FlagMarksHeads == PG_property = ToSet(free_list)

\* After any sequence of requests and releases the free list is sorted and
\* merged, no page is lost or in two places, and the flags are right.
FreeListSound == SortedAndMerged /\ NoPageLost /\ FlagMarksHeads

Pool ==
    INSTANCE PagePool WITH
        given <- Available[memmap], free <- Available[memmap] \ used

\* The manager is a pool that hands out free runs, and a request is refused
\* only if no run of that length is free anywhere.
ImplementsPool == Pool!Spec

============================================================================
