---------------------------- MODULE MCStructures ----------------------------
(***************************************************************************)
(* Parts of the kernel that have nothing to do with each other, in one     *)
(* run: the pages, the heap, the skew heap under the stride scheduler, the *)
(* red-black tree, the console input, the disks, the interrupts as they    *)
(* come up, and the check of the swapping.  part says which of them works, *)
(* the others stay as they start.                                          *)
(***************************************************************************)
EXTENDS Checks, TLC

CONSTANTS Procs, nobody, Node, nil, root, CONSBUFSIZE, MaxPending, NO,
          HeapPages, PageUnits, SLOB_UNIT, BigUnits, Sizes,
          PAGE_NSECT, DiskSectors, Offsets

VARIABLES
    part,
    ring, slobfree, header, bigblocks, pages, live, panic,      \* Slob
    proc, run_pool, current, asleep, strayed,                   \* Stride
    tree, members,                                              \* RbTree
    serial, keyboard, shift, buf, rpos, wpos, got, held,        \* Console
    present, ideno, valid, swap_ready, channel, sectors, request,
    disk_got, latest,                                           \* Disk
    called, serial_exists, irq_mask, did_init, pic, idt, FL_IF,
    raised, handled, tick_source,                               \* Interrupts
    swap_free, pte, page, disk, pra, pra_vaddr, tlb, fault, errors,
    next_access, pgfault_num, ok                                \* SwapCheck

\* The first pages are the kernel's; then nothing, one region, or two with a
\* hole between them, that need not begin and end with a page or in time.
Ram(addr, size) == [addr |-> addr, size |-> size, type |-> "E820_ARM"]
Hole(addr, size) == [addr |-> addr, size |-> size, type |-> "E820_ARS"]
MCMemMaps == {<<Ram(0, 16)>>, <<Ram(0, 56)>>,
              <<Ram(0, 31), Hole(31, 2), Ram(33, 30)>>,
              <<Ram(0, 5), Hole(5, 6), Ram(11, 21), Hole(32, 10), Ram(42, 13)>>}

\* All the free pages that there are.
MaxRequest == 5

\* Keys come in pairs.
MCKey(n) == n \div 2

\* The left shift key, the right control key and A.
MCKeys == {[code |-> 42, e0 |-> FALSE], [code |-> 29, e0 |-> TRUE],
           [code |-> 30, e0 |-> FALSE]}

\* With the swap disk and without it, alone on its channel and not.
MCMachines == {{0}, {0, 1}, {0, 1, 2}, {0, 3}}

\* The frames of check_swap, and what it writes to its five pages.
MCCheckRp == <<"f1", "f2", "f3", "f4">>
Letter(a) == {<<a>>}

Heap == INSTANCE Slob WITH NPages <- HeapPages
Runnable == INSTANCE Stride WITH NULL <- nobody, Width <- 3, Priorities <- {2}
Tree == INSTANCE RbTree WITH Key <- MCKey
Input == INSTANCE Console WITH Received <- {"DEL"}, Keys <- MCKeys
Drives == INSTANCE Disk WITH
    Machines <- MCMachines, Vals <- {"u", "v"}, got <- disk_got
Boot == INSTANCE Interrupts
Swapping == INSTANCE SwapCheck WITH
    Pages <- 1 .. 5, Frames <- ToSet(MCCheckRp), check_rp <- MCCheckRp,
    StoresTo <- Letter, Junk <- None, Fresh <- "fresh", MaxErrors <- 0,
    free <- swap_free

HeapVars == <<ring, slobfree, header, bigblocks, pages, live, panic>>
RunnableVars == <<proc, run_pool, current, asleep, strayed>>
TreeVars == <<tree, members>>
InputVars == <<serial, keyboard, shift, buf, rpos, wpos, got, held>>
DriveVars == <<present, ideno, valid, swap_ready, channel, sectors, request, disk_got,
               latest>>
BootVars == <<called, serial_exists, irq_mask, did_init, pic, idt, FL_IF, raised,
              handled, tick_source>>
SwappingVars == <<swap_free, pte, page, disk, pra, pra_vaddr, tlb, fault, errors,
                  next_access, pgfault_num, ok>>

MCInit ==
    /\ part \in {"pages", "heap", "runnable", "tree", "input", "drives", "boot",
                 "swapping"}
    /\ Init /\ Heap!Init /\ Runnable!Init /\ Tree!Init /\ Input!Init
    /\ Drives!Init /\ Boot!Init /\ Swapping!CheckInit
    /\ part # "pages" => memmap = <<Ram(0, 16)>>
    /\ part # "drives" => present = {0}
    /\ part # "boot" => serial_exists = FALSE

MCNext ==
    \/ /\ part = "pages" /\ Next /\ answer'.n <= MaxRequest
       /\ UNCHANGED <<part, HeapVars, RunnableVars, TreeVars, InputVars, DriveVars,
                      BootVars, SwappingVars>>
    \/ /\ part = "heap" /\ Heap!Next
       /\ UNCHANGED <<part, vars, RunnableVars, TreeVars, InputVars, DriveVars,
                      BootVars, SwappingVars>>
    \/ /\ part = "runnable" /\ Runnable!Next
       /\ UNCHANGED <<part, vars, HeapVars, TreeVars, InputVars, DriveVars,
                      BootVars, SwappingVars>>
    \/ /\ part = "tree" /\ Tree!Next
       /\ UNCHANGED <<part, vars, HeapVars, RunnableVars, InputVars, DriveVars,
                      BootVars, SwappingVars>>
    \/ /\ part = "input" /\ Input!Next
       /\ UNCHANGED <<part, vars, HeapVars, RunnableVars, TreeVars, DriveVars,
                      BootVars, SwappingVars>>
    \/ /\ part = "drives" /\ Drives!Next
       /\ UNCHANGED <<part, vars, HeapVars, RunnableVars, TreeVars, InputVars,
                      BootVars, SwappingVars>>
    \/ /\ part = "boot" /\ Boot!Next
       /\ UNCHANGED <<part, vars, HeapVars, RunnableVars, TreeVars, InputVars,
                      DriveVars, SwappingVars>>
    \/ /\ part = "swapping" /\ Swapping!CheckNext
       /\ UNCHANGED <<part, vars, HeapVars, RunnableVars, TreeVars, InputVars,
                      DriveVars, BootVars>>

MCVars == <<part, vars, HeapVars, RunnableVars, TreeVars, InputVars, DriveVars, BootVars,
            SwappingVars>>
MCSpec == MCInit /\ [][MCNext]_MCVars

\* kmalloc.c: the blocks tile the pages of the arena, the free ones are a ring
\* in order in which no two touch, and callers get the room they ask for.
HeapSound == part = "heap" => Heap!NothingLost /\ Heap!RingInOrder /\ Heap!RequestsMet

\* Stride: the skew heap is a tree with the right parents, and its root is a
\* process that nobody is behind.
PicksLeast == part = "runnable" => Runnable!PicksLeast

\* rb_tree.c: order, balance, neighbours and search after any insertions and
\* deletions.
TreeSound == part = "tree" => Tree!TreeSound

\* console.c, ide.c, picirq.c: no modifier key sticks, what was written to the
\* swap disk is there and nowhere else, and no interrupt is missed or taken for
\* another.
DevicesSound ==
    /\ part = "input" => Input!NoStuckModifier
    /\ part = "drives" => Drives!DiskSound
    /\ part = "boot" => Boot!InterruptsSound

\* default_check, check_pgdir, check_boot_pgdir, check_vmm and check_swap: what
\* the kernel asserts of itself when it boots holds, on every memory map with
\* room for it; and print_pgdir prints what is mapped.
ChecksPass ==
    /\ part = "pages" /\ AtBoot => check_alloc_page(Manager)
    /\ part = "swapping" => /\ pgfault_num = 0 => PagingChecksPass /\ PgdirPrinted
                            /\ Swapping!SwapCheckPasses

\* console.c: the ring hands out what was typed, in order and once, from both
\* devices and across the end of the ring; what is lost when it overruns is a
\* whole ring.
ImplementsTypeahead ==
    Input!Buffer!Init /\ [][part = "input" => Input!Buffer!Step]_InputVars

Symmetry == Permutations(Procs)

=============================================================================
