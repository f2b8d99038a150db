# Formal models of the LAB6 teaching kernel and its companions

The repository collects one person's study projects.  The largest is the
teaching operating system (uCore) under `src/Kernel/LAB6`: one x86 CPU, kernel
threads and user processes with fork/exit/wait/kill, a pluggable scheduler with
round robin installed, a first-fit page manager, a kernel heap, virtual memory
areas, swapping, and the drivers and libraries under them.  Beside it are a
ptrace debugger and a few exercises.  This directory models them in TLA+,
checks small instances with TLC, and proves with TLAPS the main results about
process management, family pointers, pids, contexts, pages, swapping and lists
for any number of processes, pages and list entries.

## 1. Inventory

Paths are below `src/Kernel/LAB6` unless they start with `src/`.

| Component | State | Operations | What makes it hard, and what makes it correct |
|---|---|---|---|
| Scheduler: `kern/schedule/sched.c`, `default_sched.c` | run queue, `time_slice`, `need_resched`, `state`, `wait_state` | `wakeup_proc`, `schedule`, `RR_enqueue/dequeue/pick_next/proc_tick` | called from handlers, system calls and the timer interrupt. The queue holds each runnable process off the CPU exactly once; nobody starves |
| Process management: `kern/process/proc.c` | `proc_struct`s, process, hash and family lists, `nr_process`, `current`, `PF_EXITING` | `do_fork`, `do_exit`, `do_wait`, `do_kill`, `do_execve`, `init_main`, `cpu_idle` | sleeping and waking, orphans handed to init, a zombie that is still on its own stack, a fork that fails half way. No lost wake-up, no lost zombie, no process left behind, right counts |
| System calls and traps: `kern/syscall`, `kern/trap` | IF, what `trap()` does on its way back to user mode | `syscall`, timer tick, page fault, other exceptions | the only place where user code is preempted, and where a kill takes effect |
| Contexts: `trapentry.S`, `switch.S`, `proc_run`, `copy_thread` | registers, kernel stacks, trap frames, TSS | traps, nested interrupts, switches | frames on several stacks at once. Whatever runs finds the registers it left |
| Pids: `get_pid` in `proc.c` | `last_pid`, `next_safe` | `get_pid` | a cached interval of free pids, never revalidated, over a list that changes. Pids stay unique; the scan ends |
| Family pointers: `set_links`, `remove_links`, hand-over loop of `do_exit` | `cptr`, `yptr`, `optr`, `parent`, `proc_list` | the same | pointer surgery in every order of births, burials and adoptions. Lists stay doubly linked, contain exactly the children |
| Page manager: `kern/mm/default_pmm.c`, `page_init` in `pmm.c` | free list, `nr_free`, `PG_property`, `property` | `init_memmap`, `alloc_pages`, `free_pages` | unaligned memory maps; splitting and merging in one pass over a list that the pass changes. No page is lost or handed out twice |
| Page tables: `kern/mm/pmm.c` | page directories, tables, reference counts, TLB | `get_pte`, `page_insert`, `copy_range`, `unmap_range`, `exit_range`, ... | a call that fails half way, a stale translation. Every frame is accounted for, every translation is in a table of the current directory |
| Kernel heap: `kern/mm/kmalloc.c` | SLOB ring, big blocks | `kmalloc`, `kfree` | the search for the place of a freed block, joining on both sides, sizes at page boundaries. Live blocks never overlap, and are as long as asked |
| Virtual memory: `kern/mm/vmm.c` | `mm_struct`, sorted vma list, `mmap_cache` | `insert_vma_struct`, `find_vma`, `mm_map`, `do_pgfault`, `dup_mmap`, `exit_mmap` | stale cache, overlap, a program that is refused after half of it is mapped. Each process has a private memory |
| Swap: `kern/mm/swap.c`, `swap_fifo.c`, `kern/fs` | list of swappable pages, swap entries | `swap_in`, `swap_out` | reads and writes that fail, a TLB that must forget the victim. A page holds what was stored last unless a read failed |
| Stride scheduler: `Stride_c`, `libs/skew_heap.h` | strides in a skew heap | same as the scheduler | a comparison by the sign of a difference that wraps. The least stride is picked |
| Libraries: `libs`, `kern/libs` | lists, red-black trees, strings, formats | | pointer surgery, overlap, edges of integers |
| Drivers: `kern/driver` | typeahead ring, modifiers, screen, disks, interrupt masks | `cons_getc`, `cga_putc`, `ide_read_secs`, `ide_write_secs`, `pic_init`, ... | a ring without an overrun check, two drives behind one set of registers, lines that are raised while the controllers are set up |
| Boot and monitor: `boot`, `kern/init`, `kern/debug` | kernel image, symbol table, line of input | `bootmain`, `kern_init`, `debuginfo_eip`, `kmonitor`, `readline` | sectors that overlap segments, a search over symbols of mixed types, line editing across a scroll |
| User programs: `user` | | calls of the library | every schedule of several processes. Their assertions hold and they end |
| Cache simulator and bit puzzles: `src/Kernel/CSAPP` | cache lines, LRU counters | `Load` | LRU by a counter; integers at their edges |
| Debugger: `src/调试器/src.cpp` | breakpoints, the traced program | `continue`, `break`, `stepi`, `next`, `finish`, ... | temporary breakpoints beside the user's, `pc` behind a trap. The program does what it does without the debugger |
| Earlier labs, ELF printer, CTF program | | | earlier stages of the same kernel and unrelated programs |

How they interact: a trap enters `trap()`; a system call runs a handler of
`proc.c`; handlers call `wakeup_proc` and `schedule`; `do_fork` calls `kmalloc`
(proc_struct, mm, vmas), `alloc_pages` (kernel stack, frames, page tables) and
`get_pid`; `do_exit` gives the address space back and wakes its parent;
`do_wait` frees what is left of a zombie; the timer interrupt charges a tick; a
page fault goes to `do_pgfault`.  Everything shares the `proc_struct`s and the
free pages.  The kernel is uniprocessor and not preemptive: kernel code loses
the CPU only by calling `schedule()`, user code by the tail of `trap()`.
Interrupts may hit kernel code (the system call gate is a trap gate,
`trap.c:63-65`, which leaves IF on) but then only charge a tick or store a
character.

## 2. Modules

    Sched      the scheduler's state and functions, as actions and operators
      ^ EXTENDS
    Proc       handlers, system calls, traps, kernel threads, page counts
      ^ EXTENDS         |  refines
    Programs            v
    Proc_proofs      ProcTree      what fork/exit/wait promise

| Detailed | Abstract, refined by it | What the abstract one says |
|---|---|---|
| `Proc` | `ProcTree` | a tree of processes; an exit hands every child to init at once |
| `Family` | `FamilyTree` | each process has a list of children |
| `PidAlloc` | `PidSpec` | some pid that nobody has |
| `Pmm` | `PagePool` | a set of free pages |
| `Vmm` | `AddressSpaces` | each process has its own memory, fork copies it |
| `Swap` | `Backing` | a page holds what was stored last, unless the disk fails |
| `Console` | `Typeahead` | a queue of characters per device |
| `List` | `Rings` | each list is a sequence |
| `Csim` | `Lru` | a set of lines in the order of their use |

| Other module | Models |
|---|---|
| `Context` | registers, kernel stacks, trap frames, context switches |
| `Slob`, `Stride`, `RbTree` | `kmalloc`/`kfree`; the stride class on its skew heap; red-black trees |
| `Disk`, `Interrupts` | IDE and the swap file; what `kern_init` does to the interrupt controllers |
| `Checks`, `SwapCheck` | the checks that `pmm_init`, `vmm_init` and `swap_init` make of themselves, run on `Pmm`, `Vmm` and `Swap`; `print_pgdir` on the tables that the checks leave |
| `Terminal` | monitor, `readline`, the screen |
| `Bootmain` | the boot loader |
| `Stabs` | symbols of an address, back trace |
| `Strings`, `Printf` | `string.c` with the string instructions of `x86.h`; `printfmt.c` |
| `Programs` | nine user programs, on `Proc` |
| `Debugger`, `Commands` | the debugger and the program under it; its words, registers, places and lines |
| `Bits` | the puzzles of the data lab |
| `MCStructures` | pages, heap, stride, trees, console, disks, interrupts, boot checks in one run, one of them working |
| `MCParts` | the rest of the small modules in one run, one of them working |
| `MCLoops` | `PidAlloc` and `Swap` in one run, one of them working |
| `Proc_proofs`, `Family_proofs`, `PidAlloc_proofs`, `Context_proofs`, `Pmm_proofs`, `Swap_proofs`, `List_proofs` | proofs, checked with `tlapm <module>.tla` |

The other instances for TLC need no module of their own: `UserSymmetry` is in
`Proc` and `Family`, `MCBinaries` in `Vmm`, `MCStoresTo` in `Swap`.

A definition named `Def_Fault` is a faulty variant of `Def` (a dropped guard, a
forgotten reset, a swapped order).  No specification uses it.  Put in the place
of `Def` it must make TLC report the property that `PROJECT.json` names under
"mutants": this is how each property was shown to be able to fail.

### Sched and Proc

`pc[p]` is the point that kernel code has reached on p's kernel stack.  An
action runs from one point to the next; the points are the places where another
process, an interrupt or another step of the same handler can see a state in
between:

| Code | Actions |
|---|---|
| `do_fork` | `ForkNoProc`, `ForkNoStack`, `ForkOutOfMemory`, `ForkAlloc`; then `ForkLink` (the critical section), `ForkWake` |
| `do_wait` | `SysWait`; `WaitFind` / `WaitSleep` / `WaitNoChild` (the scan); `WaitSchedule`, `WaitResume`; `WaitReap` |
| `do_exit` | `ExitZombie` or `ExitOfInit`; `ExitNotify`, `ExitReparent` (the critical section); `ExitSchedule` |
| `do_kill`, `do_yield`, other system calls | `SysKill`, `SysYield`, `SysExit`, `SysOther`, `SysUndefined` |
| `do_execve`, `load_icode` in `user_main` | `KernelExec` |
| `init_main`, `cpu_idle` | `Fork`, `WaitX` and `WaitReap` of `initproc`, `InitSchedule`, `InitReturn`; `IdleSchedule` |
| `trap`, `trap_dispatch` | `UserTick`, `KernelTick`, `UserException`, `UserPageFault`, `TrapReturn` |
| `panic`, `kmonitor` | `Panic(reason)`, `KMonitor` |

Abstractions, and why they lose nothing that the properties tell apart:

* A pid is the identity of its proc_struct.  That pids are unique is checked in
  `PidAlloc`; that `find_proc` finds exactly the linked processes is then a
  lookup in `linked`.
* `cptr/yptr/optr` are the function `parent`; that the pointers represent it is
  checked in `Family`.  With pid 0 `do_wait` takes the first zombie of the list; the
  model takes any, which allows more behaviours than the code has.
* Pages are counted.  Which page is which is `Pmm`.  A kernel stack needs a run
  of `KSTACKPAGE` pages; the free pages are in one piece until user memory has
  been handed out, so `ForkNoStack` may fail by fragmentation only once `mm # {}`.
  The kmalloc arena may take a page in any call of `kmalloc` (`HeapGrowth`), at
  most `MaxHeapPages` in all.  Every address space has `MmPages` pages.
* The page counts of a fork or an exit are one step: they happen on the kernel
  stack of a process that keeps the CPU throughout.
* The wait state is 0 or `WT_CHILD`: the kernel sets no other.
* The fields of a freed proc_struct mean nothing; `WaitReap` resets them, and
  `ForkAlloc` sets what `alloc_proc` sets.
* A failed single-page allocation panics (`alloc_pages` calls
  `swap_out(check_mm_struct, ...)` on a pointer that is null once the boot
  checks are over), so the error paths of `do_fork` behind `copy_mm` do not
  return: only the stack allocation can fail with `-E_NO_MEM`.  The same goes
  for `kmalloc`, whose arena grows by single pages (in `do_fork`, `load_icode`,
  `mm_map` and `dup_mmap`): it does not return NULL.
* `do_execve` is called by `user_main` only: no program of the repository
  calls `exec`, for which the user library has no wrapper.

`Interruptible` keeps ticks out of handlers behind an interrupt gate and out of
the critical section of `do_exit`, which is two actions.  The critical sections
that are one action need no flag.

### Family, PidAlloc, Pmm

`Family` has the pointers as variables.  `SetLinks`, `RemoveLinks` are one
action each (interrupts are off); the hand-over loop of `do_exit` is one action
per child, so that the invariants are also checked between two iterations.

`PidAlloc` runs `get_pid` one turn of its loop per action, between births and
deaths of processes that change `proc_list`.

`Pmm` starts with `page_init` on a memory map, then has `default_alloc_pages`
and `default_free_pages` as one action each.  Their loops are functions of the
number of turns (`turn` in `page_init` and `Merged`), and the manager's state is
one value that they pass on.  Page indices stand for `struct Page` addresses, so address order is
numeric order.

### Vmm, Swap

`Vmm` has the frames themselves: each is a directory, a table or data, with its
reference count; `cr3` and `tlb` are the MMU.  A handler (a fork, an exec, an
exit, a page fault, a wait that stores a result) is one action, since the
kernel is not preemptive, and works on a record of the variables with its first
error: what follows the error is skipped, as the early returns do.  A load or
store goes through the TLB, which keeps the latest translation until it is
invalidated or another takes its place.  A binary is its segments, or `None`, a
file without the ELF magic.  Frames of kmalloc and of kernel stacks are left
out.  `Swap` has one mm and one area, as `check_swap` uses them, which is the
only user of swapping in this kernel (`check_mm_struct` is null afterwards, so
no process is ever paged); one turn of the loop of `alloc_pages` is an action,
and each read and write of the device may fail.

### Programs, Context

`Programs` adds to `Proc` what each process calls next, and what the kernel has
returned to it: `Proc` decides which process runs, `Programs` what it does.  A
program is a table of calls with a place to go on at for each kind of result.
`Context` leaves the order of processes open (any process may be switched to)
and has two registers: one that a switch saves, and `eax`, which it does not
and which carries results.

### The small modules

`List`, `Slob`, `Stride`, `RbTree`, `Console`, `Csim` have one action a call.
`Disk` has one a sector, `Interrupts` one a call of `kern_init`, with devices that raise
lines between any two; `Bootmain` one a sector; `Terminal` one a character;
`Debugger` one an instruction of the traced program and one a command up to the
point where the program runs on.  `Stabs`, `Strings`, `Printf`, `Bits` and
`Commands` are functions: their states are the inputs, and an invariant compares
the result with a definition written from the comment of the function.  `Checks` is a
sequence of steps on the records of `Pmm` and `Vmm`.

What is abstracted: strings of characters are sequences
over a few letters, file contents and page contents are values that tell apart
whose they are, 32-bit words are 8 bits wide, sectors have two or three words.

## 3. What the runs check

`tlc -workers 2 -config <cfg> <module>`.  Deadlock is checked but in the runs
marked (*): there the system may really stop, `Vmm` in a kernel panic or after
its bounded number of execs and forks, `MCStructures`, `MCParts`,
`Stabs` and `Strings` at the end of a computation.

| Run | Instance | Checked |
|---|---|---|
| `proc_safety` | idle, init and 3 users (symmetric), MAX_PROCESS 5, slice 1, stack 2 pages, address space 3, 17 pages, heap 0 or 1 page; about 244,000 states | `TypeOK`, `RunQueueExact`, `NoLostWakeup`, `NobodyHangs`, `AssertionsHold`, `PagesConserved`, `CountExact`, `LiveParents`, `ImplementsTree` |
| `proc_live` | 2 users, MAX_PROCESS 4, slice 2, 12 pages | `QueuedRuns`, `WaiterReturns`, `KilledDiesOrSleeps` under `FairSpec` |
| `programs` | nine programs, 3 processes for each, a row of yields is one, forktest and matrix with 2 children; 94,000 states | `ProgramsPass`: no assertion fails, no panic is reached, init gets control back, under fairness |
| `family` | init and 4 processes (symmetric) | `WellLinked`, `ImplementsLists` |
| `loops` | `get_pid` with MAX_PROCESS 6 and MAX_PID 8, or swapping of 3 pages in 2 frames with one read error; 62,000 states | `SafeInterval`, `FreshPid`, `GetPidEnds` (the scan); `SwappableExact`, `ImplementsBacking`, `FaultEnds` (the swapping); both ends under fairness |
| `vmm` (*) | 2 processes, 13 frames, 6 pages, 3 entries a table, 7 binaries of which 6 are refused (one of them is no ELF file, one reaches past USERTOP), processes symmetric; 93,500 states | `FramesAccounted`, `TranslationsSound`, `ImplementsSpaces` |
| `structures` (*) | requests of up to 5 pages under three memory maps, and a map without a free page for the other parts; heap of 3 pages of 5 units; 3 processes of priority 2 with strides of 3 bits; a tree of 8 nodes; a typeahead ring of 3; four sets of drives, 2 sectors a page; the controllers; three modifier keys; the boot checks; 208,000 states | `FreeListSound`, `HeapSound`, `PicksLeast`, `TreeSound`, `DevicesSound`, `ChecksPass`, `ImplementsPool`, `ImplementsTypeahead` |
| `parts` (*) | 3 entries in 2 lists; 3 processes with 3 frames on a kernel stack and 5 entries on all; a screen of 3x3 and a line of 5; 2 breakpoints; 5 cache accesses; tables of 5 symbols and programs of 2 functions; 4 bytes of memory; formats of 3 characters; words of 8 bits; 512 programs for the debugger's commands; kernels of 2 segments; 518,000 states | `DoublyLinked`, `OwnRegisters`, `LinesShown`, `BreakpointsExact`, `FunctionsRight`, `ImplementsRings`, `ExecutesTheProgram`, `SimulatesLru` |
| `kill_lost` | 2 users | `KilledDies` fails: finding 1 |
| `page_leak` | 2 users, heap 0 or 1 page | `NoPageLeak` fails: finding 2 |
| `symbol_gap` (*) | tables of 5 symbols | `RegionContains` fails: finding 3 |
| `hex_prefix` (*) | texts of 4 characters over NUL, `-`, `0`, `7`, `x`, `X`; bases 0, 8, 10, 16 | `NumbersRight` fails: finding 4 |

What the less obvious ones say.  `PagesConserved` also says that the check of
`init_main` finds the pages it counted but for the heap's.  `LiveParents`: every process hangs below a live one, and init outlives everyone
unless it is killed.  `FramesAccounted`: every
frame is free or held once, as a directory, a table or a page of one process,
also when a fork or an exec failed half way.  `TranslationsSound`: areas do
not overlap and `mmap_cache` is one of them, a page that is mapped lies in an
area and may be written iff the area may, the TLB agrees with the tables, and a `code_store` that was checked before the sleep can be
stored through after it.  `SwappableExact`: the FIFO list holds the resident
pages, each once.  `ChecksPass`: the boot checks hold in every memory map that
has the pages they need, and `print_pgdir`, with which they end, prints each
page that is mapped once, with its permissions, and nothing else.  `DevicesSound`: no modifier key stays down after it was
released, a page whose write succeeded is on the swap disk but for its last sector, nothing
else is ever written though two drives share their registers, and once the
kernel waits, the interrupts of every device reach it under the right number.  `OwnRegisters`: a
process that goes on finds its registers, at each level of nesting.
`ExecutesTheProgram`: each step of the traced program under the debugger is a
step of it without.  `FunctionsRight` conjoins one definition per function, each
after the comment of the function but for what findings 3 and 4 show
(`FindsRegion`, `NumbersRightButUpperHex`), for `%e` of the least int, and for
the size 0 of `vsnprintf`, which is refused.

`NobodyHangs` says that the CPU never idles with an empty queue, and that no set of
sleepers waits only for its own members: one of them waits for a process outside
the set that has not ended, or is just notifying it.  It does not say
that this process will end: whoever waits for a child that loops for ever sleeps for ever,
and a kill may not reach it (finding 1).

Why these bounds are enough for what they are meant to show.  Three user
processes are the least with which a grandchild, a sibling and an adopting init
exist together; `MAX_PROCESS` 5 is idle, init and three, so
`ForkNoProc` is reached with no user to spare.  15 pages are left after
init's stack; three users take 5 each, so with one page for the heap the third
fork runs out: each of `ForkNoStack`, `ForkOutOfMemory` and a full
success occurs.  A slice of 1 makes every tick a preemption, a slice of 2 (in
`proc_live`) has the tick that does not.  Four processes and init give `Family`
a list with a first, two middle and a last element.  Five processes and seven
pids make `next_safe` smaller than, equal to and beyond `last_pid`, and wrap.
Five pages have a free block between two others, with a used page on each side.
In `Vmm`, 13 frames hold one process and most of a second one, so each
allocation of a fork or an exec fails in some state; six pages in two tables
put data and stack in different tables, with a hole between.  In `Swap` three
pages compete for two frames, so that a page is evicted while another is read.
Strides of three bits wrap within a few turns; eight nodes are the least
with which each case of the deletion occurs on both sides.  A ring of three
overruns.  Four bytes of memory hold two strings that overlap on either side.

### Fairness

* `WF(KernelStep(current))` (`proc_live`, `programs`): the CPU executes the next instruction of
  the kernel as long as it is in the kernel.
* `SF(Tick)`: the timer fires for ever, and an interrupt that arrives while IF
  is off stays pending in the interrupt controller until IF is on again;
  strong fairness is needed because IF goes on and off.  In `proc_live`
  nothing is assumed of user code: it may loop for ever, and never make a
  system call.
* `programs` also has `SF` of the code of each process: the timer is slower than
  an instruction, so a process that is given the CPU again and again executes its next
  instruction at some time.
* `PidAlloc`: weak fairness of the turns of the scan, the same assumption
  about kernel code.
* `Swap`: weak fairness of the turns of `alloc_pages` and of the read;
  `SF(SwapOut)`: a disk that is asked again and again does not refuse every
  write.  Without that the fault would turn for ever (`swap.c:106` puts the
  refused victim back).

### Findings

1. `KilledDies` (`kill_lost`).  The comment of `do_kill` (`proc.c:768`) says it
   kills the process by setting `PF_EXITING`.  `trap()` tests that flag before it
   calls `schedule()` (`trap.c:290-295`).  A process preempted there and killed
   meanwhile returns to user mode; if its next trap is a `wait`
   for a child that never exits it sleeps with the flag set, and no later kill
   wakes it (`-E_KILLED`, `proc.c:780`).  `KilledDiesOrSleeps` says that this is the only
   way out of dying, and passes.
2. `NoPageLeak` (`page_leak`).  `init_main` asserts at `proc.c:852` that all pages
   are back when the last process has gone.  A page that the kmalloc arena took
   since is not: `slob_free` never returns one.  The log of the `forktest` run
   in the repository shows the panic.  `PagesConserved` says that the count is
   right but for the heap's pages, and passes.
3. `RegionContains` (`symbol_gap`).  The comment of `stab_binsearch`
   (`kdebug.c:61-64`) promises the matching symbol or an empty region.  An entry
   counts as a match before its address is compared (`kdebug.c:98`), so an address
   below the first symbol gets a region that does not contain it; and `addr ++`
   after an exact match (`kdebug.c:110`) turns to a symbol at the next address.
   `FindsRegion`, a part of `FunctionsRight`, says that all else is right, and passes.
4. `NumbersRight` (`hex_prefix`).  The comment of `strtol` (`string.c:197-199`)
   promises an optional `0x` or `0X` prefix in base 16.  The code tests for
   `x` only (`string.c:222`): of `0X7` it takes the `0`, returns 0 and leaves
   `endptr` at the `X`.  `NumbersRightButUpperHex`, a part of `FunctionsRight`, says that all
   else is right, and passes.

## 4. What is proved

Seven modules hold proofs that `tlapm` checks to the last leaf.  Each theorem
holds for every value of the constants that satisfies the assumptions named in
the component's module, without the bounds of the runs: any number of
processes, pages, frames, list entries, levels of nesting, any slice and stack
size.

| Module | Theorem | Statement | Assumptions |
|---|---|---|---|
| `Proc_proofs` | `Invariance` | `Spec => []Inv` | `IdleAssumption` (idleproc is a process), `SliceAssumption` (the slice is positive), `ProcsAssumption` (initproc is another process, NULL is none), `PagesAssumption` (page counts are naturals, init's stack fits) |
| | `TypeCorrect` | `Spec => []TypeOK` | |
| | `QueueExact` | `Spec => []RunQueueExact` | |
| | `NoWakeupLost` | `Spec => []NoLostWakeup` | |
| | `CountCorrect` | `Spec => []CountExact` | |
| | `AssertionsNeverFail` | `Spec => []AssertionsHold` | |
| | `ForestInvariance` | `Spec => [](Inv /\ TreeInv)` | |
| | `PagesNeverLost` | `Spec => []PagesConserved` | |
| | `NobodyEverHangs` | `Spec => []NobodyHangs` | |
| | `ParentsLive` | `Spec => []LiveParents` | |
| | `TreeRefinement` | `Spec => ImplementsTree` | |
| `Family_proofs` | `FamilyWellLinked` | `Spec => []WellLinked` | `FamilyAssumption`: finitely many processes, idleproc and NULL beside them |
| | `FamilyRefinement` | `Spec => ImplementsLists` | |
| `PidAlloc_proofs` | `IntervalSafe` | `GetPidSpec => []SafeInterval` | `PidAssumption`: `MAX_PID > MAX_PROCESS > 1` |
| | `PidsFresh` | `GetPidSpec => FreshPid` | |
| `Context_proofs` | `RegistersOwned` | `CpuSpec => []OwnRegisters` | idleproc is a process |
| `Pmm_proofs` | `InvAlways` | `Spec => []Inv` | `PagesAssumption`: a page is not empty; the usable entries of a memory map are in address order and do not touch |
| | `FreeListAlwaysSound` | `Spec => []FreeListSound` | |
| | `PoolRefinement` | `Spec => ImplementsPool` | |
| `Swap_proofs` | `SwappablePagesExact` | `Spec => []SwappableExact` | `SwapAssumption`: entries, pages and contents are told apart |
| | `SwapRefinement` | `Spec => ImplementsBacking` | |
| `List_proofs` | `ListsLinked` | `Spec => []DoublyLinked` | `ListAssumption`: finitely many elements, heads are not entries |
| | `ListRefinement` | `Spec => ImplementsRings` | |

None of these properties is inductive by itself.  The arguments:

**`Proc_proofs`.**  That the queue is exact after `wakeup_proc` needs to know
that the process woken sleeps or is newborn; that needs to know what each value
of `pc` says about `state` and `wait_state`; that needs to know that only the
current process can be in the middle of a handler.  So `Inv` conjoins `TypeOK`
and `RunQueueExact` with

* `PcState`: the state and wait state that go with each `pc`;
* `OffCpu` and `OnCpu`: where a process without, or with, the CPU can be (nobody
  off the CPU is in the middle of a fork, an exit or the scan of a wait), and what
  the local `proc` of a fork or a wait points to;
* `KernelThreads`: where idleproc and initproc can be, and that they have neither
  been reaped nor become zombies;
* `Parents`: every process that exists has a parent;
* `Counted`: `linked` is finite and counted, and has no process that was freed or
  that a fork has yet to link;
* `NoLostWakeup`.

The proof of `StepInv` has one lemma per action.  Actions that only move `pc`
on, those that call `schedule`, and those that may wake a waiter share the lemmas
`StayStep`/`QuietStep`, `SwitchStep` and `NotifyStep`; these rest on the scheduler lemmas
`ScheduleLemma`, `WakeupLemma`, `TickLemma`, and those on `AppendLemma` and
`TailLemma` about the elements of a queue.

The second half of `Proc_proofs` adds `TreeInv`, which is inductive together with `Inv`:
`LinkedExact` (who is linked, by state), `Hung` (everyone but init hangs below a
process that has not yet handed its children over), `Rooted` and `HasLeaf`
(every set of linked processes has one whose parent is outside and one without a child
inside: the finite ways to say that there is no cycle), `Own` (whom a fork makes
and a wait finds is the caller's child), `InitThread` (what init relies on when
it returns), `SleepersWait` (a sleeper has a child to wait for), `Loading` (only
a user without an address space loads one: otherwise `load_icode` would
overwrite the old one and lose its pages) and `PagesExact` (the sum).
`NobodyHangs` then follows: `HasLeaf` gives a member of the set of sleepers
without a child in it, `SleepersWait` a child that it waits for, and
`NoLostWakeup` says that this one has not ended or is the current process.  If
the CPU idled with an empty queue, the set of all sleepers would have init in it and
that child would be one of them.
The refinement maps `ForkLink`,
the last step of an exit, `ExitReparent` and `WaitReap` to the actions of `ProcTree` and
all else to stutters.

**`Family_proofs`.**  The pointers alone do not say which lists they are.  `Inv` says that
there are lists `K` that the pointers represent (`Represents`); the one whose
turn comes in the loop of `do_exit` is excepted, since the loop has already
changed its parent's `cptr` but not its `yptr`.  Each of `SetLinks`,
`RemoveLinks` and a turn of the loop changes one or two of the lists, and the lemmas
`ConsLemma`, `TailLemma` and `RemoveLemma` say what that does to each place of them.  That the walk
of `do_wait` along `optr` finds exactly `K` is an induction over the length of
the walk, for which the set of the places that the walk finds wrongly has no
least member.

**`PidAlloc_proofs`.**  What a scan has seen so
far makes the invariant inductive: no entry of the list before `le` has a pid
from `last_pid` up to `next_safe`, and at the return no entry at all has.  A call
that does not scan relies on the interval, which removals only make truer and
births, which take `last_pid` itself, do not enter.

**`Context_proofs`.**  `Inv` describes every kernel stack, also of those off the CPU:
`Shape` (a frame of user code lies at the top, an activation of `trap()`
directly below the frame it was called with, a switch only at the end), `Chain`
(`proc->tf` and the `otf` of each activation point at the frame of the one
before: what lets `trap()` restore `current->tf` after nested interrupts and switches),
`Saved` (the k-th frame of a stack holds the registers that the process had at
its level k) and `Poised` (how the stack ends at each place the code can be). One lemma
per change of a stack: `PushFrame`, `PopFrame`, `PushTrap`, `PopTrap`, `PushRun`, `PopRun`,
`Rewrite` (a handler writes the result into a frame below) and `FirstFrame` (a
new process); `MineStep`, `SwitchStep` and `MakeStep` carry them over to the actions.

**`Pmm_proofs`.**  `FreeListSound` says that neighbours in the list are apart.  What a
step needs is that any two blocks are (`Apart`), that the list is in address
order (`Increasing`) and that each block is not empty and ends in the memory
(`BlocksFit`): this is `Sound`, and `Inv` conjoins it with the types and `NoPageLost`.  The
proof is about three computations.

* The search: the first block that fits exists, and taking its front or all of
  it leaves a sound list (`BlockCut`, `BlockTaken`, `TakenSound`).  A refusal is right
  because a run of free pages lies in one block (`RunInBlock`: the next block
  does not touch), so no run is long enough if no block is.
* The merging loop of `default_free_pages` changes the block that is freed and the list that
  it runs over.  `MergeInv` says where it is after `i` turns: the block and what is left of the list
  have the pages that were free and those that are freed; every block that is left is as it was, apart from the
  grown block; and those among the first `i` do not touch it.  The last needs
  the blocks to be apart from each other: a block met before could
  otherwise become a neighbour when the grown block grows again.
* `page_init` appends one block per entry of the memory map.  `MapInv` says that the free
  pages are those of the first `i` entries, and that each block ends where its
  entry does, so that the next one is appended in order; `RegionPages` is the arithmetic: rounding up the
  beginning and down the end gives exactly the pages that lie wholly in the entry
  and above the `struct Page`s.

Both loops are inductions over the number of turns, by `LeastNat`.  The entries of
the memory map are required not to touch because `page_init` does not merge:
two entries that met at a page boundary would leave two blocks that touch, and a
run across them would be refused.

**`Swap_proofs`.**  `SwappableExact` is inductive with the types and with `Absent`
(the page a fault is called for is not there and not in the TLB).
For the refinement, what `Backing` sees of a page is the frame's content if it
is resident and the slot's if it is not; that `swap_out` and `swap_in` are stutters
then needs that no frame holds two pages.

**`List_proofs`.**  `DoublyLinked` is inductive with the type of the pointers; an
operation changes the two pointers of an entry and the two that face it.  The
refinement again has hidden sequences `K`, of which each linked entry is in one,
once, and the pointers are their rings.

Only model-checked:

* Liveness (`QueuedRuns`, `WaiterReturns`, `KilledDiesOrSleeps`, `ProgramsPass`,
  `GetPidEnds`, `FaultEnds`): fairness and ENABLED are out of the prover's reach.
* `FramesAccounted`, `TranslationsSound` and `ImplementsSpaces` of `Vmm`, whose handlers are compositions of
  folds over a record.  The induction theorems of the library take an operator as a
  parameter, which the installed provers cannot instantiate.  (Where a proof
  above needs induction it uses the least member of a set of naturals, which
  works for functions but not for `RECURSIVE` operators and folds.)
* The parts of `MCStructures` and `MCParts` beside `Context` and `List`: several use
  `RECURSIVE` operators, the others compute by folds over data.
* What the findings refute.

## 5. What is not modelled, and why

Of the kernel:

* `ksize` (called by nobody), `hash32` and `rand` (a line of arithmetic; the hash list of
  the processes is the set `linked` of `Proc`).
* Output to the serial and parallel port, the reboot by Ctrl-Alt-Del, the
  entry code in assembly language: port I/O and straight-line code.
* `boot_map_segment`, `print_kerninfo`: run once or only print.
  Of `check_boot_pgdir` the part about the kernel's half of the directory.
* `do_execve` by a user program: the user library has no wrapper for it.
* The branch of `debuginfo_eip` for a user's address, which reads the symbols of
  the program through `user_mem_check` (that function is in `Vmm`).
* `check_rb_tree`: its random script is one of the runs of `RbTree`.
* `stride_proc_tick`: the same as `RR_proc_tick` in `Sched`.
* `priority.c`, `testbss.c`, `faultread.c`, `softint.c`, `hello.c`, `pgdir.c`: a measurement of
  time, or one access or call each.
* A command line of more than `MAXARGS` words (`parse` in `kmonitor.c`).

Things the models take as they are, and a reader of the code should know:

* An unresolved page fault or an undefined system call from user mode panics
  the kernel (`trap.c:211`, `syscall.c:113`); a kill of init stops it.
* `do_wait(0)` takes the youngest zombie (`proc.c:731`): a process that forks
  for ever may never see an older one.
* `swap_fifo.c:36` resets the one global list of swappable pages for each new mm;
  harmless only because the one mm whose pages are linked is `check_swap`'s.
  `check_swap` itself drops five pages with its list, and the comparison that
  would notice is commented out.
* The error of the last sector of a write is never seen: `ide_write_secs`
  looks at the status before it sends the next one.
* `debuginfo_eip` takes the line from the last entry of the region, so it is
  wrong where a scope ends or the file changes between two lines.  `TraceRight`
  says exactly when.
* `printf("%-5d")` pads a number on the left with `-`, and `-` and `0` pad
  strings too, though the table of `printfmt.c:8` is about numbers.
* `%e` of the least int negates it without an effect (`printfmt.c:194-197`) and
  reads in front of `error_string`: `PrintError` has `Anything` there.
* `vsnprintf` with size 0 returns `-E_INVAL` (`printfmt.c:334-336`), not the length
  that its comment promises.
* `page_init` neither sorts nor merges the entries of the BIOS map: that the usable
  ones are in order and do not touch is `PagesAssumption` of `Pmm`.
* `trap()` decides before the dispatch whether it came from the kernel
  (`trap.c:284`); `TrapLeave` of `Context` looks at the frame after it, which an exec has
  rewritten by then.  So a thread that has become a user process may be switched away
  at once in the model, which the code does one trap later: more behaviours, and the
  registers are right in all of them.
* The debugged program of `Debugger` has a loop and calls, but no recursion.
* In the debugger, `step` and `s` are prefixes of `stepi` and lead there, so
  `step_in` cannot be reached; a line that begins with a blank continues
  the program; `break f` on a function of one line stops in the next function;
  setting a breakpoint twice saves the trap instruction as the program's byte.

Whole parts:

* The earlier labs (`src/Kernel/lab*`, also `lab6/default_sched.c`, which is
  incomplete) are earlier versions of the same files.
* The ELF symbol printer reads one file and prints it; the CTF program is a
  contest challenge; `btest.c`, `test-csim.c` and the other drivers of the exercises,
  `linenoise.c`, are other people's.
* Reading and writing memory in the debugger: one call of `ptrace` each.

## 6. Plan

*Done*: all modules above.  What remains, in this order:

1. Proofs: `ImplementsTypeahead` of `Console` and `SimulatesLru` of `Csim`; the areas' part of
   `TranslationsSound` for `Vmm`.
2. `Vmm` with interrupts inside a handler, to check which of its steps rely on
   the kernel not being preempted.
3. `debuginfo_eip` for a user's address, on `Vmm`.
4. A composition of `Console`, `Terminal` and `Proc` for the monitor after a
   panic, and of `Swap` with `Disk`.
