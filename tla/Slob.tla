--------------------------------- MODULE Slob ---------------------------------
(***************************************************************************)
(* The kernel heap of kern/mm/kmalloc.c: a ring of free blocks in address  *)
(* order that grows by pages, and big blocks that are pages themselves.    *)
(* Addresses count units of SLOB_UNIT bytes; the static block "arena" is   *)
(* at 0, page k at k * PageUnits.  Interrupts are off while the ring       *)
(* changes and the kernel is not preemptive: one action a call.            *)
(***************************************************************************)
EXTENDS Integers, Sequences, FiniteSets, SequencesExt, FiniteSetsExt, Functions, TLC

CONSTANTS
    NPages,
    PageUnits,      \* PAGE_SIZE / SLOB_UNIT
    SLOB_UNIT,      \* bytes
    BigUnits,       \* units of a bigblock_t
    Sizes           \* the requests, in bytes

PAGE_SIZE == PageUnits * SLOB_UNIT
SLOB_UNITS(size) == (size + SLOB_UNIT - 1) \div SLOB_UNIT

arena == 0
NoBlock == -1
AllPages == 1 .. NPages

VARIABLES
    ring,       \* the free blocks: [units, next] by address
    slobfree,
    header,     \* b->units of the blocks that kmalloc has handed out
    bigblocks,  \* the list of big blocks: [at, order, pages]
    pages,      \* the free pages of the page manager
    live,       \* what the callers hold: the size asked for, by address
    panic

vars == <<ring, slobfree, header, bigblocks, pages, live, panic>>

Init ==
    /\ ring = (arena :> [units |-> 1, next |-> arena])
    /\ slobfree = arena
    /\ header = << >>
    /\ bigblocks = <<>>
    /\ pages = AllPages
    /\ live = << >>
    /\ panic = FALSE

----------------------------------------------------------------------------
(* slob_free and slob_alloc, on a heap h = [ring, slobfree, pages, got]    *)

\* The n-th block after the one that slobfree names.
At(h, n) ==
    LET at[i \in Nat] == IF i = 0 THEN h.slobfree ELSE h.ring[at[i - 1]].next
    IN  at[n]

\* The loop's condition: b belongs between cur and its successor.
Precedes(r, cur, b) ==
    \/ b > cur /\ b < r[cur].next
    \/ cur >= r[cur].next /\ (b > cur \/ b < r[cur].next)

InsertAfter(h, b, units) ==
    LET n   == CHOOSE i \in 0 .. Cardinality(DOMAIN h.ring) - 1 :
                  /\ Precedes(h.ring, At(h, i), b)
                  /\ \A j \in 0 .. i - 1 : ~Precedes(h.ring, At(h, j), b)
    IN  At(h, n)

\* Fault: the block below is not joined.
slob_free_NoJoinBelow(h, b, units) ==
    LET cur   == InsertAfter(h, b, units)
        next  == h.ring[cur].next
        joins == b + units = next
        block == IF joins THEN [units |-> units + h.ring[next].units,
                                next |-> h.ring[next].next]
                 ELSE [units |-> units, next |-> next]
        rest  == Restrict(h.ring, DOMAIN h.ring \ (IF joins THEN {next} ELSE {}))
    IN  [h EXCEPT !.slobfree = cur,
                  !.ring = (b :> block) @@ [rest EXCEPT ![cur].next = b]]

slob_free(h, b, units) ==
    LET cur   == InsertAfter(h, b, units)
        next  == h.ring[cur].next
        joins == b + units = next
        block == IF joins THEN [units |-> units + h.ring[next].units,
                                next |-> h.ring[next].next]
                 ELSE [units |-> units, next |-> next]
        rest  == Restrict(h.ring, DOMAIN h.ring \ (IF joins THEN {next} ELSE {}))
    IN  [h EXCEPT !.slobfree = cur,
                  !.ring = IF cur + h.ring[cur].units = b
                           THEN [rest EXCEPT ![cur].units = @ + block.units,
                                             ![cur].next = block.next]
                           ELSE (b :> block) @@ [rest EXCEPT ![cur].next = b]]

\* The first block after slobfree with room, by its turn; 0 if none has.
Fit(h, units) ==
    LET fits == {i \in 1 .. Cardinality(DOMAIN h.ring) :
                    h.ring[At(h, i)].units >= units}
    IN  IF fits = {} THEN 0 ELSE Min(fits)

\* The block is unlinked, or its head is cut off.
Take(h, i, units) ==
    LET prev == At(h, i - 1)
        cur  == h.ring[At(h, i)]
        at   == At(h, i)
        r    == Restrict(h.ring, DOMAIN h.ring \ {at})
        rest == at + units
    IN  [h EXCEPT !.got = at, !.slobfree = prev,
                  !.ring = IF cur.units = units
                           THEN [r EXCEPT ![prev].next = cur.next]
                           ELSE (rest :> [units |-> cur.units - units,
                                          next |-> cur.next])
                                @@ [r EXCEPT ![prev].next = rest]]

\* First fit, after a new page if need be.  No page: got stays NoBlock.
slob_alloc(h, units) ==
    IF Fit(h, units) # 0 THEN Take(h, Fit(h, units), units)
    ELSE IF h.pages = {} THEN h
    ELSE LET page  == Min(h.pages)
             grown == slob_free([h EXCEPT !.pages = @ \ {page}],
                                page * PageUnits, PageUnits)
         IN  Take(grown, Fit(grown, units), units)

----------------------------------------------------------------------------
(* __kmalloc and kfree                                                     *)

Heap == [ring |-> ring, slobfree |-> slobfree, pages |-> pages, got |-> NoBlock]

Becomes(h) == ring' = h.ring /\ slobfree' = h.slobfree /\ pages' = h.pages

Panic == panic' = TRUE /\ UNCHANGED <<ring, slobfree, header, bigblocks, pages, live>>

IsSmall(size) == size < PAGE_SIZE - SLOB_UNIT

\* size + SLOB_UNIT goes to slob_alloc, which asserts that there is room for
\* another SLOB_UNIT in the page.
KmallocSmall(size) ==
    /\ IsSmall(size)
    /\ LET units == SLOB_UNITS(size + SLOB_UNIT)
           h     == slob_alloc(Heap, units)
       IN  IF size + 2 * SLOB_UNIT >= PAGE_SIZE \/ h.got = NoBlock THEN Panic
           ELSE /\ Becomes(h)
                /\ header' = (h.got :> units) @@ header
                /\ live' = (h.got + 1 :> size) @@ live
                /\ UNCHANGED <<bigblocks, panic>>

\* Halve until it is a page; the remainders are dropped.
find_order(size) ==
    CHOOSE k \in 0 .. NPages :
        /\ size \div 2 ^ k <= PAGE_SIZE
        /\ \A j \in 0 .. k - 1 : size \div 2 ^ j > PAGE_SIZE

Run(page, order) == page .. page + 2 ^ order - 1

KmallocBig(size) ==
    /\ ~IsSmall(size)
    /\ LET h     == slob_alloc(Heap, BigUnits)
           order == find_order(size)
           runs  == {k \in AllPages : Run(k, order) \subseteq h.pages}
       IN  IF h.got = NoBlock \/ (runs = {} /\ order = 0) THEN Panic
           ELSE IF runs = {}
           THEN /\ Becomes(slob_free(h, h.got, BigUnits))
                /\ UNCHANGED <<header, bigblocks, live, panic>>
           ELSE LET page == Min(runs)
                IN  /\ Becomes([h EXCEPT !.pages = @ \ Run(page, order)])
                    /\ bigblocks' = <<[at |-> h.got, order |-> order,
                                       pages |-> page * PageUnits]>> \o bigblocks
                    /\ live' = (page * PageUnits :> size) @@ live
                    /\ UNCHANGED <<header, panic>>

\* The turn of b on the list of big blocks, 0 if it is a small block.
BigIndex(b) ==
    LET found == {i \in DOMAIN bigblocks :
                    b % PageUnits = 0 /\ bigblocks[i].pages = b}
    IN  IF found = {} THEN 0 ELSE Min(found)

KfreeBig(b) ==
    LET i  == BigIndex(b)
        bb == bigblocks[i]
        h  == [Heap EXCEPT !.pages = @ \cup Run(b \div PageUnits, bb.order)]
    IN  /\ i # 0
        /\ bigblocks' = RemoveAt(bigblocks, i)
        /\ Becomes(slob_free(h, bb.at, BigUnits))
        /\ UNCHANGED header

KfreeSmall(b) ==
    /\ BigIndex(b) = 0
    /\ Becomes(slob_free(Heap, b - 1, header[b - 1]))
    /\ header' = Restrict(header, DOMAIN header \ {b - 1})
    /\ UNCHANGED bigblocks

Kfree(b) ==
    /\ KfreeBig(b) \/ KfreeSmall(b)
    /\ live' = Restrict(live, DOMAIN live \ {b})
    /\ UNCHANGED panic

Next ==
    /\ ~panic
    /\ \/ \E size \in Sizes : KmallocSmall(size) \/ KmallocBig(size)
       \/ \E b \in DOMAIN live : Kfree(b)

Spec == Init /\ [][Next]_vars

----------------------------------------------------------------------------
(* Properties                                                              *)

Units(b, n) == b .. b + n - 1

\* What each unit that the heap has taken from the page manager is used for.
FreeUnits   == UNION {Units(b, ring[b].units) : b \in DOMAIN ring}
HeaderUnits == UNION {Units(b, header[b]) : b \in DOMAIN header}
BigHeaders  == UNION {Units(bigblocks[i].at, BigUnits) : i \in DOMAIN bigblocks}
BigPages    == UNION {Run(bigblocks[i].pages \div PageUnits, bigblocks[i].order)
                        : i \in DOMAIN bigblocks}

SizeOfHeap ==
    MapThenSumSet(LAMBDA b : ring[b].units, DOMAIN ring)
        + MapThenSumSet(LAMBDA b : header[b], DOMAIN header)
        + BigUnits * Len(bigblocks)

\* After any sequence of kmalloc and kfree the free blocks and the blocks in
\* use tile the arena's pages without a gap or an overlap, and those pages, the
\* big blocks and the free pages are all the pages there are.
NothingLost ==
    LET used  == FreeUnits \cup HeaderUnits \cup BigHeaders
        taken == {u \div PageUnits : u \in used} \ {0}
    IN  /\ Cardinality(used) = SizeOfHeap
        /\ used = {arena} \cup UNION {Units(k * PageUnits, PageUnits) : k \in taken}
        /\ taken \cap (BigPages \cup pages) = {} /\ BigPages \cap pages = {}
        /\ taken \cup BigPages \cup pages = AllPages

\* The free blocks are one ring in address order, with slobfree on it, and no
\* two of them touch: slob_free joins what it can, from wherever its search
\* starts.
RingInOrder ==
    /\ slobfree \in DOMAIN ring
    /\ \A b \in DOMAIN ring :
        LET above == {c \in DOMAIN ring : c > b}
        IN  /\ ring[b].next = IF above = {} THEN arena ELSE Min(above)
            /\ b + ring[b].units \notin above

\* A caller gets what it asks for: blocks of different callers never overlap,
\* a small one is as large as its size, and a big one lacks at most the bytes
\* that find_order drops when it halves an odd size.
RequestsMet ==
    \A b \in DOMAIN live :
        LET big == {i \in DOMAIN bigblocks : bigblocks[i].pages = b}
        IN  IF b - 1 \in DOMAIN header
            THEN /\ big = {}
                 /\ live[b] <= (header[b - 1] - 1) * SLOB_UNIT
            ELSE \E i \in big :
                    live[b] < (PAGE_SIZE + 1) * 2 ^ bigblocks[i].order

==============================================================================
