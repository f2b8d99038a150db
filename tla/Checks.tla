------------------------------- MODULE Checks -------------------------------
(***************************************************************************)
(* What the kernel checks of itself while it boots: the page manager       *)
(* (default_check), the page tables (check_pgdir, check_boot_pgdir), the   *)
(* areas and the page faults (check_vmm), on the models of what they       *)
(* check.  A check is a sequence of steps; a step works on a record in     *)
(* which ok says that the assertions held so far.  The check of the        *)
(* swapping is SwapCheck.                                                  *)
(***************************************************************************)
EXTENDS Pmm

CONSTANT None

Claim(s, holds) == [s EXCEPT !.ok = @ /\ holds]

Step(op) == [op |-> op]
On(op, x, n) == [op |-> op, x |-> x, n |-> n]

----------------------------------------------------------------------------
(* The page manager: steps on m, with the pages p of the check's variables *)
(* and what it has put aside.  The page p2 of default_check is p1 - 1.     *)

Alloc(x, n) == On("alloc", x, n)
Free(x, off, n) == [op |-> "free", x |-> x, off |-> off, n |-> n]
Fails(n) == On("fails", None, n)
NrFree(n) == On("nr_free", None, n)
Heads(x, off, n) == [op |-> "block", x |-> x, off |-> off, n |-> n]
Same(x, y, off) == [op |-> "same", x |-> x, y |-> y, off |-> off]

Got(s, x, m) ==
    Claim([s EXCEPT !.m = m, !.p = [@ EXCEPT ![x] = m.page]], m.page # NULL)

Manage(s, c) ==
    IF ~s.ok THEN s
    ELSE CASE c.op = "alloc" -> Got(s, c.x, alloc_pages(s.m, c.n))
           [] c.op = "free"  -> [s EXCEPT !.m = free_pages(@, s.p[c.x] + c.off, c.n)]
           [] c.op = "fails" -> Claim(s, NoBlock(s.m, c.n))
           [] c.op = "nr_free" -> Claim(s, s.m.nr_free = c.n)
           [] c.op = "block" -> Claim(s, /\ s.p[c.x] + c.off \in s.m.flags
                                         /\ s.m.property[s.p[c.x] + c.off] = c.n)
           [] c.op = "same" -> Claim(s, s.p[c.x] = s.p[c.y] + c.off)
           [] c.op = "differ" -> Claim(s, IsInjective(<<s.p.p0, s.p.p1, s.p.p2>>))
           [] c.op = "hide" ->
                [s EXCEPT !.aside = s.m,
                          !.m = [@ EXCEPT !.list = <<>>, !.nr_free = 0]]
           [] c.op = "restore" ->
                [s EXCEPT !.m = [@ EXCEPT !.list = s.aside.list,
                                          !.nr_free = s.aside.nr_free]]

Three == <<Alloc("p0", 1), Alloc("p1", 1), Alloc("p2", 1)>>

basic_check ==
    Three \o <<Step("differ"), Step("hide"), Fails(1),
      Free("p0", 0, 1), Free("p1", 0, 1), Free("p2", 0, 1), NrFree(3)>>
    \o Three \o
    <<Fails(1), Free("p0", 0, 1),
      Alloc("p", 1), Same("p", "p0", 0), Fails(1), NrFree(0),
      Step("restore"), Free("p", 0, 1), Free("p1", 0, 1), Free("p2", 0, 1)>>

default_check ==
    basic_check \o
    <<Alloc("p0", 5), Step("hide"), Fails(1),
      Free("p0", 2, 3), Fails(4), Heads("p0", 2, 3),
      Alloc("p1", 3), Fails(1), Same("p1", "p0", 2),
      Free("p0", 0, 1), Free("p1", 0, 3),
      Heads("p0", 0, 1), Heads("p1", 0, 3),
      Alloc("p0", 1), Same("p0", "p1", -2), Free("p0", 0, 1),
      Alloc("p0", 2), Same("p0", "p1", 0),
      Free("p0", 0, 2), Free("p1", -1, 1),
      Alloc("p0", 5), Fails(1), NrFree(0),
      Step("restore"), Free("p0", 0, 5)>>

count(m) == Len(m.list)
total(m) == FoldLeft(LAMBDA n, p : n + m.property[p], 0, m.list)

\* The list is counted before and after.
check_alloc_page(m) ==
    LET s == FoldLeft(Manage,
                [ok |-> ToSet(m.list) \subseteq m.flags /\ total(m) = m.nr_free,
                 m |-> m, aside |-> m,
                 p |-> [p |-> NULL, p0 |-> NULL, p1 |-> NULL, p2 |-> NULL]],
                default_check)
    IN  s.ok /\ count(s.m) = count(m) /\ total(s.m) = total(m)

\* pmm_init makes the check when page_init is through; it takes five pages in
\* a row.
AtBoot == used = {} /\ \E i \in DOMAIN free_list : property[free_list[i]] >= 5

----------------------------------------------------------------------------
(* The page tables and the areas, in the frames and the pages of Vmm.  The *)
(* only pages with PTE_U are those with PTE_W, too.                        *)

V == INSTANCE Vmm WITH
    Procs <- {}, NFrames <- 4, NPages <- 6, NPTEntries <- 3,
    StackPages <- 3, Preallocated <- 1, Binaries <- {},
    Vals <- {"zero", "garbage", "written"},
    Zero <- "zero", Garbage <- "garbage", Written <- "written",
    IntPlaces <- {}, MaxStores <- 0, MaxStarts <- 0,
    NoProc <- None, Unmapped <- None, Fresh <- None,
    free <- {}, ref <- <<>>, pde <- <<>>, pte <- <<>>, page <- <<>>,
    cr3 <- None, tlb <- <<>>, mm <- <<>>, current <- None, store <- <<>>,
    stores <- 0, starts <- 0, panic <- ""

boot_pgdir == 0

\* Nothing is mapped below KERNBASE and no frame is in use but the directory.
Booted ==
    [free |-> V!Frames \ {boot_pgdir},
     ref  |-> [f \in V!Frames |-> 0],
     pde  |-> [f \in V!Frames |-> V!NoTable],
     pte  |-> [f \in V!Frames |-> V!NoEntry],
     page |-> [f \in V!Frames |-> "zero"],
     cr3  |-> boot_pgdir, tlb |-> V!EmptyTLB,
     vmas |-> <<>>, cache |-> None, dir |-> boot_pgdir, err |-> ""]

Page(x) == Step("page") @@ [x |-> x]
Insert(x, a, W) == [op |-> "insert", x |-> x, a |-> a, W |-> W]
Unmap(a) == On("remove", None, a)
Mapped(a, x, W) == [op |-> "mapped", x |-> x, a |-> a, W |-> W]
Ref(x, n) == On("ref", x, n)
Put(x) == On("put", x, 1)
Area(start, end) == [op |-> "area", start |-> start, end |-> end]
Write(a, v) == <<On("touch", TRUE, a), On("write", v, a)>>
Read(a, v) == <<On("touch", FALSE, a), On("read", v, a)>>
Poke(x, v) == On("poke", x, v)

Dropped(w) ==
    [V!free_page(w, w.pde[boot_pgdir][0]) EXCEPT !.pde[boot_pgdir][0] = None]

\* An access of the kernel: the page fault that it may take, and the
\* translation that it caches.
Cache(w, a) ==
    [w EXCEPT !.tlb[a] = IF @ = None THEN V!Entry(w, boot_pgdir, a) ELSE @]

Touched(w, a, write) ==
    Cache(IF V!Entry(w, boot_pgdir, a) # None \/ w.tlb[a] # None THEN w
          ELSE V!do_pgfault(w, a, FALSE, write), a)

Content(w, a) == w.page[w.tlb[a].frame]
Stored(w, a, v) == [w EXCEPT !.page[w.tlb[a].frame] = v]

Paging(s, c) ==
    IF ~(s.ok /\ V!OK(s.w)) THEN [s EXCEPT !.ok = FALSE]
    ELSE CASE c.op = "page" ->
                [s EXCEPT !.w = V!alloc_page(@), !.p = [@ EXCEPT ![c.x] = V!NextFrame(s.w)]]
           [] c.op = "insert" ->
                [s EXCEPT !.w = V!page_insert(@, s.p[c.x], boot_pgdir, c.a, c.W)]
           [] c.op = "remove" -> [s EXCEPT !.w = V!page_remove_pte(@, boot_pgdir, c.n)]
           [] c.op = "mapped" ->
                Claim(s, V!Entry(s.w, boot_pgdir, c.a) = [frame |-> s.p[c.x], W |-> c.W])
           [] c.op = "ref" -> Claim(s, s.w.ref[s.p[c.x]] = c.n)
           [] c.op = "put" -> [s EXCEPT !.w = V!free_page(@, s.p[c.x])]
           [] c.op = "drop table" ->
                Claim([s EXCEPT !.w = Dropped(@)], s.w.ref[s.w.pde[boot_pgdir][0]] = 1)
           [] c.op = "no table" -> Claim(s, s.w.pde[boot_pgdir][0] = None)
           [] c.op = "invalidate" ->
                [s EXCEPT !.w = V!tlb_invalidate(@, boot_pgdir, c.n)]
           [] c.op = "area" ->
                [s EXCEPT !.w = V!insert_vma_struct(@,
                    [start |-> c.start, end |-> c.end, flags |-> {"W"}])]
           [] c.op = "in area" ->
                Claim([s EXCEPT !.w = V!Cached(@, c.n)],
                      V!Find(s.w.vmas, s.w.cache, c.n) = s.w.vmas[1])
           [] c.op = "touch" -> [s EXCEPT !.w = Touched(@, c.n, c.x)]
           [] c.op = "write" ->
                Claim([s EXCEPT !.w = Stored(@, c.n, c.x)], s.w.tlb[c.n].W)
           [] c.op = "read" -> Claim(s, Content(s.w, c.n) = c.x)
           [] c.op = "poke" -> [s EXCEPT !.w.page[s.p[c.x]] = c.n]
           [] c.op = "no page lost" -> Claim(s, s.w.free = Booted.free)

check_pgdir ==
    <<Step("no table"),
      Page("p1"), Insert("p1", 0, FALSE), Mapped(0, "p1", FALSE), Ref("p1", 1),
      Page("p2"), Insert("p2", 1, TRUE), Mapped(1, "p2", TRUE), Ref("p2", 1),
      Insert("p1", 1, FALSE), Ref("p1", 2), Ref("p2", 0), Mapped(1, "p1", FALSE),
      Unmap(0), Ref("p1", 1), Ref("p2", 0),
      Unmap(1), Ref("p1", 0), Ref("p2", 0),
      Step("drop table")>>

\* The second page is the first one under another address.  It is freed while
\* it is mapped, and so is the table.
check_boot_pgdir ==
    <<Step("no table"),
      Page("p"), Insert("p", 0, TRUE), Ref("p", 1),
      Insert("p", 1, TRUE), Ref("p", 2)>>
    \o Write(0, "written") \o Read(1, "written")
    \o <<Poke("p", "zero")>> \o Read(0, "zero") \o
    <<Put("p"), Step("drop table"), On("invalidate", None, 0), On("invalidate", None, 1)>>

\* The accesses to 100 bytes of page 0 are one write and one read.
check_pgfault ==
    <<Step("no table"), Area(0, 3), On("in area", None, 0)>>
    \o Write(0, "written") \o Read(0, "written") \o
    <<Unmap(0), Step("drop table"), Step("no page lost")>>

CheckPaging(script) ==
    LET s == FoldLeft(Paging,
                [ok |-> TRUE, w |-> Booted, p |-> [p |-> None, p1 |-> None, p2 |-> None]],
                script)
    IN  s.ok /\ V!OK(s.w) /\ s.w.free = Booted.free /\ s.w.tlb = V!EmptyTLB

\* The first areas are inserted backwards, the others in order; 10 and 100 in
\* the code.
step1 == 3
step2 == step1 * 4
TheArea(i) == [start |-> 5 * i, end |-> 5 * i + 2, flags |-> {}]
Added(w, area) == V!insert_vma_struct(w, area)
Inserted ==
    FoldLeft(Added, [vmas |-> <<>>, cache |-> None, err |-> ""],
             [i \in 1 .. step2 |-> TheArea(IF i <= step1 THEN step1 + 1 - i ELSE i)])

\* The areas come out in order, and each address is in the area that is meant
\* for it, whichever area the calls before have left in mmap_cache.
check_vma_struct ==
    /\ V!OK(Inserted)
    /\ Inserted.vmas = [i \in 1 .. step2 |-> TheArea(i)]
    /\ \A a \in 0 .. 5 * step2 + 4, cache \in {None} \cup ToSet(Inserted.vmas) :
        V!Find(Inserted.vmas, cache, a) =
            IF a >= 5 /\ a % 5 < 2 THEN TheArea(a \div 5) ELSE None

\* What vmm_init runs.
check_vmm == check_vma_struct /\ CheckPaging(check_pgfault)

----------------------------------------------------------------------------
(* What pmm_init prints when it is through, and the system call pgdir: the *)
(* ranges of entries with the same permissions.  A table is the set of the *)
(* flags in PTE_USER of each entry, over the directory vpd or all tables   *)
(* vpt, NPTEENTRY entries for each entry of vpd.                           *)

NoRange == [left |-> 0, right |-> 0, perm |-> {}]

get_pgtable_items(right, start, table) ==
    LET present == {i \in start .. right - 1 : "P" \in table[i]}
        left    == Min(present)
        other   == {i \in left .. right - 1 : table[i] # table[left]}
    IN  IF present = {} THEN NoRange
        ELSE [left |-> left, right |-> Min(other \cup {right}), perm |-> table[left]]

\* The calls of one of the loops, until the permissions are 0.
RECURSIVE Items(_, _, _)
Items(right, start, table) ==
    LET item == get_pgtable_items(right, start, table)
    IN  IF item.perm = {} THEN <<>> ELSE <<item>> \o Items(right, item.right, table)

\* The lines that are printed: a range of the directory, then those of its tables.
print_pgdir(NPDEENTRY, NPTEENTRY, vpd, vpt) ==
    LET Below(item) == <<item>> \o
            Items(item.right * NPTEENTRY, item.left * NPTEENTRY, vpt)
        ranges == Items(NPDEENTRY, 0, vpd)
    IN  [i \in DOMAIN ranges |-> Below(ranges[i])]

----------------------------------------------------------------------------
(* Properties                                                              *)

\* Each page that is mapped is in one line, with its permissions, below the
\* range of its table, and no other page is in any; and a range ends only where
\* the permissions change.
PrintsMappings(NPDEENTRY, NPTEENTRY, vpd, vpt) ==
    LET lines == print_pgdir(NPDEENTRY, NPTEENTRY, vpd, vpt)
        In(k, item) == item.left <= k /\ k < item.right
        Shows(i, j, k) ==
            /\ In(k, lines[i][j]) /\ lines[i][j].perm = vpt[k]
            /\ In(k \div NPTEENTRY, lines[i][1])
            /\ lines[i][1].perm = vpd[k \div NPTEENTRY]
        Found(k) == {<<i, j>> \in (DOMAIN lines) \X (2 .. NPDEENTRY * NPTEENTRY + 1) :
                        j <= Len(lines[i]) /\ In(k, lines[i][j])}
    IN  /\ \A k \in DOMAIN vpt :
            IF "P" \in vpd[k \div NPTEENTRY] \cap vpt[k]
            THEN Cardinality(Found(k)) = 1 /\ \A f \in Found(k) : Shows(f[1], f[2], k)
            ELSE Found(k) = {}
        /\ \A i \in DOMAIN lines : \A j \in 2 .. Len(lines[i]) - 1 :
            lines[i][j].right = lines[i][j + 1].left => lines[i][j].perm # lines[i][j + 1].perm

Flags == {{}, {"P"}, {"P", "W", "U"}}

\* print_pgdir, with which pmm_init ends, prints exactly what is mapped.
PgdirPrinted ==
    \A vpd \in [0 .. 2 -> Flags], vpt \in [0 .. 5 -> Flags] : PrintsMappings(3, 2, vpd, vpt)

\* The checks of the page tables, the areas and the page faults pass, and
\* leave no page behind and nothing in the TLB.
PagingChecksPass ==
    /\ CheckPaging(check_pgdir) /\ CheckPaging(check_boot_pgdir)
    /\ check_vmm

============================================================================
