--------------------------------- MODULE Vmm ---------------------------------
(***************************************************************************)
(* Address spaces: the areas of kern/mm/vmm.c, the page directories and    *)
(* page tables of kern/mm/pmm.c in the physical frames that hold them, the *)
(* TLB, and the callers in kern/process/proc.c and kern/trap/trap.c.       *)
(*                                                                         *)
(* The kernel is not preemptive, so a handler is one action.  It works on  *)
(* a record of the variables it changes; w.err is the first error on its   *)
(* way and stops what follows it.  Frames of kmalloc and of kernel stacks  *)
(* are left out.                                                           *)
(***************************************************************************)
EXTENDS Integers, Sequences, FiniteSets, SequencesExt, TLC

CONSTANTS
    Procs,          \* the slots for user processes
    NFrames,        \* physical frames
    NPages,         \* user pages, numbered from USERBASE
    NPTEntries,     \* entries of a page table
    StackPages,     \* USTACKSIZE, below USERTOP
    Preallocated,   \* of them, the pages load_icode allocates
    Binaries,       \* the programs: sequences of segments, or None: no ELF file
    Vals,           \* the contents of a page, among them these three:
    Zero, Garbage,  \* of a bss page, of a frame before it is written
    Written,        \* of a page after a store
    IntPlaces,      \* where a code_store may lie: ranges of pages
    MaxStores,      \* bound of the stores
    MaxStarts,      \* bound of the execs and forks
    None, NoProc,
    Unmapped, Fresh

ASSUME VmmAssumption ==
    /\ Preallocated < StackPages /\ StackPages < NPages
    /\ {Zero, Garbage, Written} \subseteq Vals

Pages  == 0 .. NPages - 1
Frames == 0 .. NFrames - 1
Tables == 0 .. (NPages - 1) \div NPTEntries

PDX(a) == a \div NPTEntries
PTX(a) == a % NPTEntries

VARIABLES
    free, ref,          \* the free frames, page->ref
    pde, pte, page,     \* a frame as a directory, as a table, as data
    cr3, tlb,           \* the directory in use, the translations cached
    mm,                 \* current->mm of each process, None without one
    current,
    store,              \* the pages of a do_wait's code_store
    stores, starts,     \* the stores, and the execs and forks, so far
    panic               \* why the kernel stopped, or ""

hardware == <<free, ref, pde, pte, page, cr3, tlb>>
vars == <<hardware, mm, current, store, stores, starts, panic>>

BootDir == -1       \* boot_pgdir, whose user half is empty
NoTable == [i \in Tables |-> None]
NoEntry == [x \in 0 .. NPTEntries - 1 |-> None]
EmptyTLB == [a \in Pages |-> None]

Init ==
    /\ free = Frames
    /\ ref = [f \in Frames |-> 0]
    /\ pde = [f \in Frames |-> NoTable]
    /\ pte = [f \in Frames |-> NoEntry]
    /\ page = [f \in Frames |-> Zero]
    /\ cr3 = BootDir
    /\ tlb = EmptyTLB
    /\ mm = [p \in Procs |-> None]
    /\ current = NoProc
    /\ store = [p \in Procs |-> {}]
    /\ stores = 0 /\ starts = 0
    /\ panic = ""

Working ==
    [free |-> free, ref |-> ref, pde |-> pde, pte |-> pte, page |-> page,
     cr3 |-> cr3, tlb |-> tlb,
     vmas |-> <<>>, cache |-> None, dir |-> None, err |-> ""]

\* The same with the mm of p.
WorkingOn(p) == [Working EXCEPT !.vmas = mm[p].vmas, !.cache = mm[p].cache,
                                !.dir = mm[p].dir]

OK(w) == w.err = ""
Fail(w, reason) == [w EXCEPT !.err = reason]
Panics == {"out of memory", "vmas overlap", "user fault", "kernel fault",
           "write to a non-writable pte"}

\* op for each page of lo .. hi - 1, upwards, until an error.
ForPages(op(_, _), w, lo, hi) ==
    FoldLeft(LAMBDA v, a : IF OK(v) THEN op(v, a) ELSE v,
             w, [i \in 1 .. hi - lo |-> lo + i - 1])

----------------------------------------------------------------------------
(* kern/mm/pmm.c                                                           *)

\* First fit takes the lowest frame.  No single page: swap_out(NULL).
NextFrame(w) == CHOOSE f \in w.free : \A g \in w.free : f <= g

alloc_page(w) ==
    IF w.free = {} THEN Fail(w, "out of memory")
    ELSE [w EXCEPT !.free = @ \ {NextFrame(w)}]

free_page(w, f) == [w EXCEPT !.free = @ \cup {f}, !.ref[f] = 0,
                             !.page[f] = Zero]

Entry(w, dir, a) ==
    IF w.pde[dir][PDX(a)] = None THEN None
    ELSE w.pte[w.pde[dir][PDX(a)]][PTX(a)]

\* get_pte with create: the table of a exists afterwards.
get_pte(w, dir, a) ==
    IF w.pde[dir][PDX(a)] # None THEN w
    ELSE LET f == NextFrame(w) v == alloc_page(w)
         IN  IF ~OK(v) THEN v
             ELSE [v EXCEPT !.ref[f] = 1, !.pte[f] = NoEntry,
                            !.pde[dir][PDX(a)] = f]

\* Fault: the translations of the old directory stay.
lcr3_KeepsTLB(w, dir) == [w EXCEPT !.cr3 = dir]

lcr3(w, dir) == [w EXCEPT !.cr3 = dir, !.tlb = EmptyTLB]

tlb_invalidate(w, dir, a) ==
    IF w.cr3 = dir THEN [w EXCEPT !.tlb[a] = None] ELSE w

SetEntry(w, dir, a, e) ==
    tlb_invalidate([w EXCEPT !.pte[w.pde[dir][PDX(a)]][PTX(a)] = e], dir, a)

\* Fault: the entry is cleared, the page stays referenced.
page_remove_pte_KeepsPage(w, dir, a) ==
    IF Entry(w, dir, a) = None THEN w ELSE SetEntry(w, dir, a, None)

page_remove_pte(w, dir, a) ==
    IF Entry(w, dir, a) = None THEN w
    ELSE LET f == Entry(w, dir, a).frame
             v == [w EXCEPT !.ref[f] = @ - 1]
         IN  SetEntry(IF v.ref[f] = 0 THEN free_page(v, f) ELSE v,
                      dir, a, None)

page_insert(w, f, dir, a, perm) ==
    LET v == get_pte(w, dir, a)
    IN  IF ~OK(v) THEN v
        ELSE SetEntry(page_remove_pte([v EXCEPT !.ref[f] = @ + 1], dir, a),
                      dir, a, [frame |-> f, W |-> perm])

\* The new page holds what its frame happened to hold.
pgdir_alloc_page(w, dir, a, perm, content) ==
    LET f == NextFrame(w) v == alloc_page(w)
    IN  IF ~OK(v) THEN v
        ELSE page_insert([v EXCEPT !.page[f] = content], f, dir, a, perm)

unmap_range(w, dir, start, end) ==
    ForPages(LAMBDA v, a : page_remove_pte(v, dir, a), w, start, end)

\* exit_range, which goes over the directory entries of the range.
exit_range(w, dir, start, end) ==
    ForPages(LAMBDA v, a :
                 IF v.pde[dir][PDX(a)] = None THEN v
                 ELSE [free_page(v, v.pde[dir][PDX(a)])
                           EXCEPT !.pde[dir][PDX(a)] = None,
                                  !.pte[v.pde[dir][PDX(a)]] = NoEntry],
             w, start, end)

\* Fault: the child's entry names the page of the parent.
copy_range_Shares(w, to, from, start, end) ==
    ForPages(LAMBDA v, a :
                 LET e == Entry(v, from, a)
                 IN  IF e = None THEN v
                     ELSE page_insert(get_pte(v, to, a), e.frame, to, a, e.W),
             w, start, end)

copy_range(w, to, from, start, end) ==
    ForPages(LAMBDA v, a :
                 LET e == Entry(v, from, a)
                 IN  IF e = None THEN v
                     ELSE LET t == get_pte(v, to, a)
                          IN  IF ~OK(t) THEN t
                              ELSE pgdir_alloc_page(t, to, a, e.W,
                                                    v.page[e.frame]),
             w, start, end)

----------------------------------------------------------------------------
(* kern/mm/vmm.c                                                           *)

Covers(v, a) == v # None /\ v.start <= a /\ a < v.end

\* find_vma: the cached area if it covers a, else the first that does.
Find(vmas, cache, a) ==
    IF Covers(cache, a) THEN cache
    ELSE LET hits == SelectSeq(vmas, LAMBDA v : Covers(v, a))
         IN  IF hits = <<>> THEN None ELSE hits[1]

Cached(w, a) ==
    LET v == Find(w.vmas, w.cache, a)
    IN  IF v = None THEN w ELSE [w EXCEPT !.cache = v]

insert_vma_struct(w, v) ==
    LET before == SelectSeq(w.vmas, LAMBDA u : u.start <= v.start)
        after  == SelectSeq(w.vmas, LAMBDA u : u.start > v.start)
    IN  IF \/ before # <<>> /\ Last(before).end > v.start
           \/ after # <<>> /\ v.end > Head(after).start
        THEN Fail(w, "vmas overlap")
        ELSE [w EXCEPT !.vmas = before \o <<v>> \o after]

\* USER_ACCESS of lo .. hi - 1.
UserAccess(lo, hi) == 0 <= lo /\ lo < hi /\ hi <= NPages

mm_map(w, start, len, flags) ==
    IF ~UserAccess(start, start + len) THEN Fail(w, "E_INVAL")
    ELSE IF Find(w.vmas, w.cache, start) # None THEN Fail(Cached(w, start), "E_INVAL")
    ELSE insert_vma_struct(w, [start |-> start, end |-> start + len,
                               flags |-> flags])

exit_mmap(w) ==
    LET unmapped == FoldLeft(LAMBDA v, area : unmap_range(v, v.dir, area.start, area.end),
                             w, w.vmas)
    IN  FoldLeft(LAMBDA v, area : exit_range(v, v.dir, area.start, area.end),
                 unmapped, w.vmas)

\* mm_create and setup_pgdir.
NewMm(w) ==
    LET f == NextFrame(w) v == alloc_page(w)
    IN  IF ~OK(v) THEN v
        ELSE [v EXCEPT !.vmas = <<>>, !.cache = None, !.dir = f,
                       !.pde[f] = NoTable]

\* exit_mmap, put_pgdir and mm_destroy.
PutMm(w) ==
    LET v == exit_mmap(w)
    IN  [free_page(v, v.dir) EXCEPT !.pde[v.dir] = NoTable,
             !.vmas = <<>>, !.cache = None, !.dir = None]

dup_mmap(w, from) ==
    FoldLeft(LAMBDA v, area :
                 LET u == insert_vma_struct(v, area)
                 IN  IF ~OK(v) THEN v ELSE IF ~OK(u) THEN u
                     ELSE copy_range(u, u.dir, from.dir, area.start, area.end),
             w, Reverse(from.vmas))

do_pgfault(w, a, present, write) ==
    LET area == Find(w.vmas, w.cache, a)
        v    == get_pte(Cached(w, a), w.dir, a)
    IN  IF \/ area = None
           \/ write /\ "W" \notin area.flags
           \/ ~write /\ (present \/ area.flags \cap {"R", "X"} = {})
        THEN Fail(Cached(w, a), "E_INVAL")
        ELSE IF ~OK(v) THEN v
        ELSE IF Entry(v, w.dir, a) # None
             THEN Fail(v, "write to a non-writable pte")
        ELSE pgdir_alloc_page(v, w.dir, a, "W" \in area.flags, Garbage)

\* user_mem_check of lo .. hi - 1 for writing, and the cache after it.
user_mem_check(w, lo, hi) ==
    LET check[start \in 0 .. NPages, cache \in ToSet(w.vmas) \cup {None}] ==
            LET area == Find(w.vmas, cache, start)
            IN  IF start >= hi THEN [ok |-> TRUE, cache |-> cache]
                ELSE IF area = None THEN [ok |-> FALSE, cache |-> cache]
                ELSE IF \/ "W" \notin area.flags
                        \/ "S" \in area.flags /\ start < area.start + 1
                     THEN [ok |-> FALSE, cache |-> area]
                ELSE check[area.end, area]
    IN  check[lo, w.cache]

----------------------------------------------------------------------------
(* kern/process/proc.c and kern/trap/trap.c                                *)

MmOf(w) == IF w.dir = None THEN None
           ELSE [vmas |-> w.vmas, cache |-> w.cache, dir |-> w.dir]

Stop(reason) ==
    /\ panic' = reason
    /\ UNCHANGED <<hardware, mm, current, store, stores, starts>>

\* The handler ends with w as the memory and w.vmas .. w.dir as p's mm.
Commit(w, p) ==
    /\ free' = w.free /\ ref' = w.ref
    /\ pde' = w.pde /\ pte' = w.pte /\ page' = w.page
    /\ cr3' = w.cr3 /\ tlb' = w.tlb
    /\ mm' = [mm EXCEPT ![p] = MmOf(w)]
    /\ UNCHANGED panic

\* One segment of the loop of load_icode; whole pages.
LoadSegment(w, seg) ==
    LET v == mm_map(w, seg.start, seg.memsz, seg.flags)
    IN  IF ~OK(w) \/ seg.filesz = 0 THEN w
        ELSE IF seg.filesz > seg.memsz THEN Fail(w, "E_INVAL_ELF")
        ELSE IF ~OK(v) THEN v
        ELSE ForPages(LAMBDA u, a :
                 pgdir_alloc_page(u, u.dir, a, "W" \in seg.flags,
                     IF a < seg.start + seg.filesz THEN seg.content ELSE Zero),
                 v, seg.start, seg.start + seg.memsz)

LoadStack(w) ==
    LET v == mm_map(w, NPages - StackPages, StackPages, {"R", "W", "S"})
    IN  IF ~OK(w) THEN w ELSE IF ~OK(v) THEN v
        ELSE FoldLeft(LAMBDA u, i :
                 IF OK(u) THEN pgdir_alloc_page(u, u.dir, NPages - i, TRUE, Garbage)
                 ELSE u,
                 v, [i \in 1 .. Preallocated |-> i])

\* The segments and the stack, if the file is one that can be loaded.
LoadBinary(w, binary) ==
    IF binary = None THEN Fail(w, "E_INVAL_ELF")
    ELSE LoadStack(FoldLeft(LoadSegment, w, binary))

\* load_icode; an error gives back all that the new mm has.
load_icode(w, binary) ==
    LET v == NewMm(w)
        u == LoadBinary(v, binary)
    IN  IF ~OK(v) THEN v
        ELSE IF OK(u) THEN lcr3(u, u.dir)
        ELSE IF u.err \in Panics THEN u
        ELSE PutMm([u EXCEPT !.err = ""])

\* The kernel thread user_main becomes p; after an error it exits.
Exec(p) ==
    /\ current = NoProc
    /\ mm[p] = None
    /\ starts < MaxStarts
    /\ \E binary \in Binaries :
        LET w == load_icode(Working, binary)
        IN  IF OK(w)
            THEN /\ Commit(w, p)
                 /\ current' = IF w.dir = None THEN NoProc ELSE p
                 /\ starts' = starts + 1
                 /\ UNCHANGED <<store, stores>>
            ELSE Stop(w.err)

\* The running process executes user code.
InUser(p) == current = p /\ mm[p] # None /\ store[p] = {}

Fork(p, c) ==
    /\ InUser(p)
    /\ mm[c] = None
    /\ starts < MaxStarts
    /\ LET v == NewMm(Working)
           w == dup_mmap(v, mm[p])
       IN  IF ~OK(v) THEN Stop(v.err) ELSE IF ~OK(w) THEN Stop(w.err)
           ELSE /\ Commit(w, c)
                /\ starts' = starts + 1
                /\ UNCHANGED <<current, store, stores>>

Exit(p) ==
    /\ InUser(p)
    /\ Commit(PutMm(lcr3(WorkingOn(p), BootDir)), p)
    /\ current' = NoProc
    /\ UNCHANGED <<store, stores, starts>>

\* proc_run of a user process or of a kernel thread.
Switch(q) ==
    /\ q # current
    /\ q # NoProc => mm[q] # None
    /\ LET w == lcr3(Working, IF q = NoProc THEN BootDir ELSE mm[q].dir)
       IN  cr3' = w.cr3 /\ tlb' = w.tlb
    /\ current' = q
    /\ UNCHANGED <<free, ref, pde, pte, page, mm, store, stores, starts, panic>>

----------------------------------------------------------------------------
(* The MMU                                                                 *)

\* The TLB first, then the tables of the directory in cr3.
Translation(a) ==
    IF tlb[a] # None THEN tlb[a]
    ELSE IF cr3 = BootDir THEN None ELSE Entry(Working, cr3, a)

\* Only the latest translation stays cached.
Fill(a) == tlb' = [EmptyTLB EXCEPT ![a] = Translation(a)]

UserLoad(p, a) ==
    /\ InUser(p)
    /\ Translation(a) # None
    /\ Fill(a)
    /\ UNCHANGED <<free, ref, pde, pte, page, cr3, mm, current, store, stores,
                   starts, panic>>

Writable(a) == Translation(a) # None /\ Translation(a).W

UserStore(p, a) ==
    /\ InUser(p)
    /\ Writable(a)
    /\ stores < MaxStores /\ stores' = stores + 1
    /\ page' = [page EXCEPT ![Translation(a).frame] = Written]
    /\ Fill(a)
    /\ UNCHANGED <<free, ref, pde, pte, cr3, mm, current, store, starts, panic>>

\* trap_dispatch of T_PGFLT: the access is tried again, or the end.
PageFault(p, a, write, reason) ==
    /\ IF write THEN ~Writable(a) ELSE Translation(a) = None
    /\ LET w == do_pgfault(WorkingOn(p), a, Translation(a) # None, write)
       IN  IF OK(w) THEN Commit(w, p) /\ UNCHANGED <<current, store, stores, starts>>
           ELSE Stop(IF w.err = "E_INVAL" THEN reason ELSE w.err)

UserFault(p, a) ==
    /\ InUser(p)
    /\ \E write \in BOOLEAN : PageFault(p, a, write, "user fault")

\* do_wait checks that it may store an int at code_store, which may lie
\* across two pages, and goes to sleep.
WaitCheck(p) ==
    /\ InUser(p)
    /\ stores < MaxStores
    /\ \E int \in IntPlaces :
        LET check == user_mem_check(WorkingOn(p), int[1], int[2])
        IN  /\ mm' = [mm EXCEPT ![p].cache = check.cache]
            /\ store' = [store EXCEPT ![p] =
                            IF check.ok THEN int[1] .. int[2] - 1 ELSE {}]
            /\ stores' = IF check.ok THEN stores + 1 ELSE stores
    /\ UNCHANGED <<hardware, current, starts, panic>>

\* The store after the sleep, once every page is there.
WaitStore(p) ==
    /\ current = p /\ mm[p] # None /\ store[p] # {}
    /\ \A a \in store[p] : Writable(a)
    /\ page' = [f \in Frames |->
                    IF \E a \in store[p] : Translation(a).frame = f
                    THEN Written ELSE page[f]]
    /\ store' = [store EXCEPT ![p] = {}]
    /\ UNCHANGED <<free, ref, pde, pte, cr3, tlb, mm, current, stores, starts,
                   panic>>

KernelFault(p) ==
    /\ current = p /\ mm[p] # None
    /\ \E a \in store[p] : PageFault(p, a, TRUE, "kernel fault")

Next ==
    /\ panic = ""
    /\ \/ \E p \in Procs : 
            \/ Exec(p) \/ Exit(p) \/ WaitCheck(p) \/ WaitStore(p)
            \/ KernelFault(p)
       \/ \E p, c \in Procs : Fork(p, c)
       \/ \E q \in Procs \cup {NoProc} : Switch(q)
       \/ \E p \in Procs, a \in Pages :
            UserLoad(p, a) \/ UserStore(p, a) \/ UserFault(p, a)

Spec == Init /\ [][Next]_vars

----------------------------------------------------------------------------
(* Properties                                                              *)

Alive == {p \in Procs : mm[p] # None}

EntryOf(p, a) == IF pde[mm[p].dir][PDX(a)] = None THEN None
                 ELSE pte[pde[mm[p].dir][PDX(a)]][PTX(a)]

\* Who holds which frame, and as what.
Holdings ==
    LET TablesOf(p) == {i \in Tables : pde[mm[p].dir][i] # None}
        PagesOf(p)  == {a \in Pages : EntryOf(p, a) # None}
    IN  UNION {{<<p, "directory", 0, mm[p].dir>>}
                \cup {<<p, "table", i, pde[mm[p].dir][i]>> : i \in TablesOf(p)}
                \cup {<<p, "page", a, EntryOf(p, a).frame>> : a \in PagesOf(p)}
               : p \in Alive}

\* Every frame is free or held exactly once: as the directory, a table or a
\* page of one process, with a ref of 1 for tables and pages.  No sequence of
\* loads that fail, forks, faults and exits leaks a frame, frees one in use
\* or maps one twice (page_insert, page_remove_pte, copy_range, exit_mmap).
FramesAccounted ==
    LET holdings == Holdings
        held     == {h[4] : h \in holdings}
    IN  panic = "" =>
            /\ Cardinality(held) = Cardinality(holdings)
            /\ free = Frames \ held
            /\ \A h \in holdings :
                ref[h[4]] = (IF h[2] = "directory" THEN 0 ELSE 1)

\* What user_mem_check has let pass never faults for good when do_wait stores
\* the exit code after its sleep, whatever other processes did meanwhile; and
\* do_pgfault never meets the page that it says cannot be there (vmm.c:508).
CheckedStoresSucceed ==
    panic \notin {"kernel fault", "write to a non-writable pte"}

\* The areas of a process are in order and apart, mmap_cache is one of them,
\* every page mapped lies in an area and may be written iff the area may, and
\* what the TLB remembers is what the tables of the running process say; so
\* what has been checked stays accessible.
TranslationsSound ==
    /\ CheckedStoresSucceed
    /\ panic = "" =>
        /\ \A p \in Alive :
            LET vmas == mm[p].vmas
            IN  /\ \A i \in 1 .. Len(vmas) - 1 : vmas[i].end <= vmas[i + 1].start
                /\ mm[p].cache \in ToSet(vmas) \cup {None}
                /\ \A a \in Pages :
                    LET e == EntryOf(p, a)
                    IN  e = None \/ \E i \in DOMAIN vmas :
                            Covers(vmas[i], a) /\ e.W = ("W" \in vmas[i].flags)
        /\ cr3 = IF current = NoProc THEN BootDir ELSE mm[current].dir
        /\ \A a \in Pages :
            tlb[a] # None => current # NoProc /\ tlb[a] = EntryOf(current, a)

\* The memory that binary asks for.
ImageOf(binary) ==
    LET segments == {s \in ToSet(binary) : s.filesz > 0}
        Covering(a) == {s \in segments : s.start <= a /\ a < s.start + s.memsz}
        Stack == NPages - StackPages .. NPages - 1
    IN  [mem |-> [a \in Pages |->
                    IF a >= NPages - Preallocated THEN Garbage
                    ELSE IF a \in Stack THEN Fresh
                    ELSE IF Covering(a) = {} THEN Unmapped
                    ELSE LET s == CHOOSE t \in Covering(a) : TRUE
                         IN  IF a < s.start + s.filesz THEN s.content ELSE Zero],
         writable |-> Stack \cup {a \in Pages :
                            \E s \in Covering(a) : "W" \in s.flags}]

Images == {ImageOf(binary) : binary \in Binaries \ {None}}

\* The areas of p that hold a: one or none.
AreasOf(p, a) ==
    IF mm[p] = None THEN {}
    ELSE {i \in DOMAIN mm[p].vmas : Covers(mm[p].vmas[i], a)}

Spaces == INSTANCE AddressSpaces WITH
    mem <- [p \in Procs |-> [a \in Pages |->
                IF AreasOf(p, a) = {} THEN Unmapped
                ELSE IF EntryOf(p, a) = None THEN Fresh
                ELSE page[EntryOf(p, a).frame]]],
    writable <- [p \in Procs |-> {a \in Pages :
                    \E i \in AreasOf(p, a) : "W" \in mm[p].vmas[i].flags}]

\* User programs see AddressSpaces: a private memory each, as their binary
\* asks for, which fork copies and nobody else changes.
ImplementsSpaces == Spaces!Spec

----------------------------------------------------------------------------
(* For TLC: six user pages, three to a page table, the upper three the     *)
(* stack, and the programs that a process may be loaded with.              *)

Segment(start, memsz, filesz, flags) ==
    [start |-> start, memsz |-> memsz, filesz |-> filesz, flags |-> flags,
     content |-> "file"]

MCBinaries ==
    {<<Segment(2, 1, 0, {"R", "W"}),            \* only bss, which is skipped
       Segment(0, 2, 1, {"R", "W"})>>,          \* data and a page of bss
     <<Segment(0, 1, 1, {"R"}), Segment(1, 1, 2, {"R"})>>,  \* too long a file
     <<Segment(0, 4, 1, {"R"})>>,               \* runs into the stack
     <<Segment(0, 2, 2, {"R"}), Segment(1, 1, 1, {"R"})>>,  \* starts inside
     <<Segment(1, 1, 1, {"R"}), Segment(0, 2, 2, {"R"})>>,  \* ends inside
     <<Segment(0, 1, 1, {"R"}), Segment(5, 2, 1, {"R"})>>,  \* past the top
     None}

\* In the stack, on a page that may be new and one that is there; from the
\* data into the hole above it; from the lowest stack page upwards.
MCIntPlaces == {<<4, 6>>, <<1, 3>>, <<3, 5>>}

\* The slots for processes are alike.
Symmetry == Permutations(Procs)

==============================================================================
