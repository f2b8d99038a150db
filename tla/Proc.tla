-------------------------------- MODULE Proc --------------------------------
(***************************************************************************)
(* Process management of kern/process/proc.c, driven by the system calls   *)
(* of kern/syscall/syscall.c and by the traps of kern/trap/trap.c.         *)
(*                                                                         *)
(* One CPU runs the code of `current`; pc[p] is the point that the kernel  *)
(* code on p's kernel stack has reached ("user" is user mode).  The kernel *)
(* is not preemptive: only schedule() gives the CPU to another process.    *)
(* A timer interrupt can hit user code, where the tail of trap() may       *)
(* switch, and kernel code that runs with interrupts on, where it only     *)
(* charges the tick.                                                       *)
(*                                                                         *)
(* A pid is the identity of its proc_struct (PidAlloc is about get_pid);   *)
(* the cptr/yptr/optr lists are the function `parent` (Family is about     *)
(* them); pages are counted (Pmm is about which ones).                     *)
(***************************************************************************)
EXTENDS Sched, FiniteSets, TLC

CONSTANTS
    initproc,       \* the proc_struct of the init thread
    NULL,           \* the null pointer, and the pid 0 of do_wait
    MAX_PROCESS,    \* bound on nr_process
    KSTACKPAGE,     \* pages of a kernel stack
    MmPages,        \* pages of a user address space: page directory, tables, frames
    TotalPages,     \* pages free when init_main's kernel stack is allocated
    MaxHeapPages    \* bound on the pages that the kmalloc arena takes after that

ASSUME ProcsAssumption ==
    /\ initproc \in Procs
    /\ initproc # idleproc
    /\ NULL \notin Procs

ASSUME PagesAssumption ==
    /\ KSTACKPAGE \in Nat
    /\ MmPages \in Nat
    /\ TotalPages \in Nat
    /\ MaxHeapPages \in Nat
    /\ KSTACKPAGE <= TotalPages

VARIABLES
    parent,         \* proc->parent
    linked,         \* the processes in proc_list, in hash_list and in the family lists
    nr_process,     \* the number of processes, idleproc included
    exiting,        \* the PF_EXITING bit of proc->flags
    kstack,         \* the processes that own a kernel stack from alloc_pages
    mm,             \* the processes with an address space (proc->mm # NULL)
    heap,           \* pages that the kmalloc arena has taken from alloc_pages
    nr_free,        \* nr_free_pages()
    pc,             \* where the kernel code of each process is
    proc,           \* the local variable proc of do_fork and do_wait
    wait_pid,       \* the argument pid of do_wait; NULL is pid 0, any child
    fl_if,          \* the interrupt flag of the CPU
    panic           \* the reason of a kernel panic, "none" while running

treeVars  == <<parent, linked, nr_process>>
memVars   == <<kstack, mm, heap, nr_free>>
localVars == <<pc, proc, wait_pid>>
vars == <<schedVars, treeVars, memVars, localVars, exiting, fl_if, panic>>

Labels ==
    {"none",                                        \* no such process
     "idle",                                        \* cpu_idle
     "init_main", "init_sched", "init_check",       \* init_main
     "kexec",                                       \* user_main
     "user", "ret",                                 \* user mode, tail of trap
     "fork_link", "fork_wake",                      \* do_fork
     "wait", "wait_sched", "wait_resume", "wait_found",             \* do_wait
     "exit", "exit_notify", "exit_reparent", "exit_sched", "dead"}  \* do_exit

Panics == {"none", "create user_main failed", "initproc exit",
           "out of memory", "page fault", "undefined syscall"}

Users == Procs \ {idleproc, initproc}

----------------------------------------------------------------------------
(* The state that proc_init leaves: cpu_idle is about to run, initproc has *)
(* been created and woken.                                                 *)

Init ==
    /\ state = [p \in Procs |->
                    IF p \in {idleproc, initproc} THEN "RUNNABLE" ELSE "FREE"]
    /\ wait_state = [p \in Procs |-> 0]
    /\ current = idleproc
    /\ run_list = <<initproc>>
    /\ time_slice = [p \in Procs |-> IF p = initproc THEN MAX_TIME_SLICE ELSE 0]
    /\ need_resched = [p \in Procs |-> p = idleproc]
    /\ parent = [p \in Procs |-> IF p = initproc THEN idleproc ELSE NULL]
    /\ linked = {initproc}
    /\ nr_process = 2
    /\ exiting = [p \in Procs |-> FALSE]
    /\ kstack = {initproc}
    /\ mm = {}
    /\ heap = 0
    /\ nr_free = TotalPages - KSTACKPAGE
    /\ pc = [p \in Procs |-> IF p = idleproc THEN "idle"
                             ELSE IF p = initproc THEN "init_main" ELSE "none"]
    /\ proc = [p \in Procs |-> NULL]
    /\ wait_pid = [p \in Procs |-> NULL]
    /\ fl_if = TRUE
    /\ panic = "none"

\* What init_main reads into nr_free_pages_store before it creates user_main.
nr_free_pages_store == TotalPages - KSTACKPAGE

----------------------------------------------------------------------------
(* Helpers.                                                                *)

\* The CPU executes p's code at the point l.
At(p, l) == panic = "none" /\ current = p /\ pc[p] = l

Goto(p, l) == pc' = [pc EXCEPT ![p] = l]

Panic(reason) ==
    /\ panic' = reason
    /\ UNCHANGED <<schedVars, treeVars, memVars, localVars, exiting, fl_if>>

\* The children that the family list of p holds.
Children(p) == {q \in linked : parent[q] = p}

\* find_proc: the hash list holds exactly the linked processes.
find_proc(p) == p \in linked

(* Where a call of do_fork or do_wait continues.  init_main calls both     *)
(* directly, everyone else through a system call, which ends in the tail   *)
(* of trap().                                                              *)
AfterFork(p)    == IF p = initproc THEN "wait" ELSE "ret"
AfterReap(p)    == IF p = initproc THEN "init_sched" ELSE "ret"
AfterNoChild(p) == IF p = initproc THEN "init_check" ELSE "ret"

----------------------------------------------------------------------------
(* do_fork                                                                 *)

\* do_fork is called by sys_fork, and by kernel_thread in init_main.
ForkCall(p) == At(p, "user") \/ At(p, "init_main")

\* The pages that copy_mm takes: a kernel thread has nothing to copy.
CopyPages(p) == IF p \in mm THEN MmPages ELSE 0

\* kmalloc takes a page for its arena when no block of it is large enough, and
\* slob_free never gives one back.
HeapGrowth == {g \in {0, 1} : heap + g <= MaxHeapPages}

ForkReturnsError(p) ==
    IF p = initproc
    THEN Panic("create user_main failed")
    ELSE /\ Goto(p, "ret")
         /\ UNCHANGED <<schedVars, treeVars, kstack, mm, proc, wait_pid,
                        exiting, fl_if, panic>>

\* -E_NO_FREE_PROC
ForkNoProc(p) ==
    /\ ForkCall(p)
    /\ nr_process >= MAX_PROCESS
    /\ ForkReturnsError(p)
    /\ UNCHANGED <<heap, nr_free>>

\* -E_NO_MEM: no run of KSTACKPAGE free pages.  Free pages are split up only
\* once user memory has been handed out.
ForkNoStack(p, g) ==
    /\ ForkCall(p)
    /\ nr_process < MAX_PROCESS
    /\ nr_free >= g
    /\ nr_free - g < KSTACKPAGE \/ mm # {}
    /\ heap' = heap + g
    /\ nr_free' = nr_free - g
    /\ ForkReturnsError(p)

\* A single page that cannot be had, by kmalloc or by copy_mm: alloc_pages
\* calls swap_out on check_mm_struct, which is NULL by then, and the fault is
\* fatal.
ForkOutOfMemory(p, g) ==
    /\ ForkCall(p)
    /\ nr_process < MAX_PROCESS
    /\ \/ nr_free < g
       \/ /\ nr_free >= g + KSTACKPAGE
          /\ nr_free < g + KSTACKPAGE + CopyPages(p)
    /\ Panic("out of memory")

\* alloc_proc, setup_kstack, copy_mm and copy_thread.
ForkAlloc(p, c, g) ==
    /\ ForkCall(p)
    /\ nr_process < MAX_PROCESS
    /\ nr_free >= g + KSTACKPAGE + CopyPages(p)
    /\ state[c] = "FREE"
    /\ state' = [state EXCEPT ![c] = "UNINIT"]
    /\ wait_state' = [wait_state EXCEPT ![c] = 0]
    /\ time_slice' = [time_slice EXCEPT ![c] = 0]
    /\ need_resched' = [need_resched EXCEPT ![c] = FALSE]
    /\ exiting' = [exiting EXCEPT ![c] = FALSE]
    /\ parent' = [parent EXCEPT ![c] = p]
    /\ kstack' = kstack \cup {c}
    /\ mm' = IF p \in mm THEN mm \cup {c} ELSE mm
    /\ heap' = heap + g
    /\ nr_free' = nr_free - g - KSTACKPAGE - CopyPages(p)
    /\ proc' = [proc EXCEPT ![p] = c]
    /\ pc' = [pc EXCEPT ![p] = "fork_link",
                        ![c] = IF p = initproc THEN "kexec" ELSE "user"]
    /\ UNCHANGED <<current, run_list, linked, nr_process, wait_pid, fl_if, panic>>

\* get_pid, hash_proc and set_links, with interrupts off.
ForkLink(p) ==
    /\ At(p, "fork_link")
    /\ linked' = linked \cup {proc[p]}
    /\ nr_process' = nr_process + 1
    /\ Goto(p, "fork_wake")
    /\ UNCHANGED <<schedVars, parent, memVars, proc, wait_pid, exiting, fl_if, panic>>

ForkWake(p) ==
    /\ At(p, "fork_wake")
    /\ wakeup_proc(proc[p])
    /\ proc' = [proc EXCEPT ![p] = NULL]
    /\ Goto(p, AfterFork(p))
    /\ UNCHANGED <<treeVars, memVars, wait_pid, exiting, fl_if, panic>>

----------------------------------------------------------------------------
(* do_wait                                                                 *)

\* sys_wait.  A pid that is no child's is legal; a bad code_store is SysOther.
SysWait(p, pid) ==
    /\ At(p, "user")
    /\ wait_pid' = [wait_pid EXCEPT ![p] = pid]
    /\ Goto(p, "wait")
    /\ UNCHANGED <<schedVars, treeVars, memVars, proc, exiting, fl_if, panic>>

\* The children that the scan of do_wait looks at.
Scanned(p) ==
    IF wait_pid[p] = NULL
    THEN Children(p)
    ELSE {q \in Procs : q = wait_pid[p] /\ find_proc(q) /\ parent[q] = p}

\* The scan stops at a zombie (for pid 0, the first in the list).
WaitFind(p, z) ==
    /\ At(p, "wait")
    /\ z \in Scanned(p)
    /\ state[z] = "ZOMBIE"
    /\ proc' = [proc EXCEPT ![p] = z]
    /\ Goto(p, "wait_found")
    /\ UNCHANGED <<schedVars, treeVars, memVars, wait_pid, exiting, fl_if, panic>>

\* The scan has seen children but no zombie.
WaitSleep(p) ==
    /\ At(p, "wait")
    /\ Scanned(p) # {}
    /\ \A q \in Scanned(p) : state[q] # "ZOMBIE"
    /\ state' = [state EXCEPT ![p] = "SLEEPING"]
    /\ wait_state' = [wait_state EXCEPT ![p] = WT_CHILD]
    /\ Goto(p, "wait_sched")
    /\ UNCHANGED <<current, run_list, time_slice, need_resched, treeVars,
                   memVars, proc, wait_pid, exiting, fl_if, panic>>

WaitSchedule(p) ==
    /\ At(p, "wait_sched")
    /\ schedule
    /\ Goto(p, "wait_resume")
    /\ UNCHANGED <<treeVars, memVars, proc, wait_pid, exiting, fl_if, panic>>

\* Back from schedule: die if killed, else scan again.
WaitResume(p) ==
    /\ At(p, "wait_resume")
    /\ Goto(p, IF exiting[p] THEN "exit" ELSE "wait")
    /\ wait_pid' = IF exiting[p] THEN [wait_pid EXCEPT ![p] = NULL] ELSE wait_pid
    /\ UNCHANGED <<schedVars, treeVars, memVars, proc, exiting, fl_if, panic>>

WaitNoChild(p) ==
    /\ At(p, "wait")
    /\ Scanned(p) = {}
    /\ Goto(p, AfterNoChild(p))
    /\ wait_pid' = [wait_pid EXCEPT ![p] = NULL]
    /\ UNCHANGED <<schedVars, treeVars, memVars, proc, exiting, fl_if, panic>>

\* Fault: put_kstack is forgotten.
WaitReap_KeepsStack(p) ==
    LET z == proc[p] IN
    /\ At(p, "wait_found")
    /\ linked' = linked \ {z}
    /\ nr_process' = nr_process - 1
    /\ state' = [state EXCEPT ![z] = "FREE"]
    /\ parent' = [parent EXCEPT ![z] = NULL]
    /\ proc' = [proc EXCEPT ![p] = NULL]
    /\ time_slice' = [time_slice EXCEPT ![z] = 0]
    /\ need_resched' = [need_resched EXCEPT ![z] = FALSE]
    /\ exiting' = [exiting EXCEPT ![z] = FALSE]
    /\ wait_pid' = [wait_pid EXCEPT ![p] = NULL]
    /\ pc' = [pc EXCEPT ![p] = AfterReap(p), ![z] = "none"]
    /\ UNCHANGED <<wait_state, current, run_list, memVars, fl_if, panic>>

\* Fault: remove_links does not count the process out.
WaitReap_NotCounted(p) ==
    LET z == proc[p] IN
    /\ At(p, "wait_found")
    /\ linked' = linked \ {z}
    /\ kstack' = kstack \ {z}
    /\ nr_free' = nr_free + KSTACKPAGE
    /\ state' = [state EXCEPT ![z] = "FREE"]
    /\ parent' = [parent EXCEPT ![z] = NULL]
    /\ proc' = [proc EXCEPT ![p] = NULL]
    /\ time_slice' = [time_slice EXCEPT ![z] = 0]
    /\ need_resched' = [need_resched EXCEPT ![z] = FALSE]
    /\ exiting' = [exiting EXCEPT ![z] = FALSE]
    /\ wait_pid' = [wait_pid EXCEPT ![p] = NULL]
    /\ pc' = [pc EXCEPT ![p] = AfterReap(p), ![z] = "none"]
    /\ UNCHANGED <<wait_state, current, run_list, nr_process, mm, heap, fl_if, panic>>

\* unhash_proc, remove_links, put_kstack and kfree of the zombie found.  The
\* fields of a freed proc_struct mean nothing and are reset here; alloc_proc
\* sets them again.
WaitReap(p) ==
    LET z == proc[p] IN
    /\ At(p, "wait_found")
    /\ linked' = linked \ {z}
    /\ nr_process' = nr_process - 1
    /\ kstack' = kstack \ {z}
    /\ nr_free' = nr_free + KSTACKPAGE
    /\ state' = [state EXCEPT ![z] = "FREE"]
    /\ parent' = [parent EXCEPT ![z] = NULL]
    /\ proc' = [proc EXCEPT ![p] = NULL]
    /\ time_slice' = [time_slice EXCEPT ![z] = 0]
    /\ need_resched' = [need_resched EXCEPT ![z] = FALSE]
    /\ exiting' = [exiting EXCEPT ![z] = FALSE]
    /\ wait_pid' = [wait_pid EXCEPT ![p] = NULL]
    /\ pc' = [pc EXCEPT ![p] = AfterReap(p), ![z] = "none"]
    /\ UNCHANGED <<wait_state, current, run_list, mm, heap, fl_if, panic>>

----------------------------------------------------------------------------
(* do_exit                                                                 *)

\* The body up to the critical section: give the address space back and
\* become a zombie.
ExitZombie(p) ==
    /\ At(p, "exit")
    /\ p # initproc
    /\ mm' = mm \ {p}
    /\ nr_free' = nr_free + CopyPages(p)
    /\ state' = [state EXCEPT ![p] = "ZOMBIE"]
    /\ Goto(p, "exit_notify")
    /\ UNCHANGED <<wait_state, current, run_list, time_slice, need_resched,
                   treeVars, kstack, heap, proc, wait_pid, exiting, fl_if, panic>>

ExitOfInit(p) ==
    /\ At(p, "exit")
    /\ p = initproc
    /\ Panic("initproc exit")

\* Fault: the parent is not told.
ExitNotify_Silent(p) ==
    /\ At(p, "exit_notify")
    /\ Goto(p, "exit_reparent")
    /\ UNCHANGED <<schedVars, treeVars, memVars, proc, wait_pid, exiting, fl_if, panic>>

\* Inside local_intr_save: wake a parent that waits for a child ...
ExitNotify(p) ==
    /\ At(p, "exit_notify")
    /\ IF wait_state[parent[p]] = WT_CHILD
       THEN wakeup_proc(parent[p])
       ELSE UNCHANGED schedVars
    /\ Goto(p, "exit_reparent")
    /\ UNCHANGED <<treeVars, memVars, proc, wait_pid, exiting, fl_if, panic>>

\* Fault: initproc is not woken for a zombie it inherits.
ExitReparent_NoWake(p) ==
    /\ At(p, "exit_reparent")
    /\ parent' = [q \in Procs |-> IF q \in Children(p) THEN initproc ELSE parent[q]]
    /\ Goto(p, "exit_sched")
    /\ UNCHANGED <<schedVars, linked, nr_process, memVars, proc, wait_pid, exiting, fl_if, panic>>

\* Fault: the children keep the dead parent.
ExitReparent_Orphans(p) ==
    /\ At(p, "exit_reparent")
    /\ UNCHANGED parent
    /\ IF /\ \E q \in Children(p) : state[q] = "ZOMBIE"
          /\ wait_state[initproc] = WT_CHILD
       THEN wakeup_proc(initproc)
       ELSE UNCHANGED schedVars
    /\ Goto(p, "exit_sched")
    /\ UNCHANGED <<linked, nr_process, memVars, proc, wait_pid, exiting, fl_if, panic>>

\* Fault: the children go to the parent of the process.
ExitReparent_Grandparent(p) ==
    /\ At(p, "exit_reparent")
    /\ parent' = [q \in Procs |-> IF q \in Children(p) THEN parent[p] ELSE parent[q]]
    /\ IF /\ \E q \in Children(p) : state[q] = "ZOMBIE"
          /\ wait_state[initproc] = WT_CHILD
       THEN wakeup_proc(initproc)
       ELSE UNCHANGED schedVars
    /\ Goto(p, "exit_sched")
    /\ UNCHANGED <<linked, nr_process, memVars, proc, wait_pid, exiting, fl_if, panic>>

\* ... and hand every child to initproc, waking it if one is a zombie.
ExitReparent(p) ==
    /\ At(p, "exit_reparent")
    /\ parent' = [q \in Procs |-> IF q \in Children(p) THEN initproc ELSE parent[q]]
    /\ IF /\ \E q \in Children(p) : state[q] = "ZOMBIE"
          /\ wait_state[initproc] = WT_CHILD
       THEN wakeup_proc(initproc)
       ELSE UNCHANGED schedVars
    /\ Goto(p, "exit_sched")
    /\ UNCHANGED <<linked, nr_process, memVars, proc, wait_pid, exiting, fl_if, panic>>

\* The last call of do_exit never returns.  Interrupts come back with
\* whatever runs next.
ExitSchedule(p) ==
    /\ At(p, "exit_sched")
    /\ schedule
    /\ Goto(p, "dead")
    /\ fl_if' = TRUE
    /\ UNCHANGED <<treeVars, memVars, proc, wait_pid, exiting, panic>>

----------------------------------------------------------------------------
(* The other system calls, and the kernel threads.                         *)

SysExit(p) ==
    /\ At(p, "user")
    /\ Goto(p, "exit")
    /\ UNCHANGED <<schedVars, treeVars, memVars, proc, wait_pid, exiting, fl_if, panic>>

SysYield(p) ==
    /\ At(p, "user")
    /\ need_resched' = [need_resched EXCEPT ![p] = TRUE]
    /\ Goto(p, "ret")
    /\ UNCHANGED <<state, wait_state, current, run_list, time_slice, treeVars,
                   memVars, proc, wait_pid, exiting, fl_if, panic>>

\* do_kill(q): the first kill marks q and ends an interruptible wait; a later
\* one returns -E_KILLED, and an unknown pid -E_INVAL, without effect.
SysKill(p, q) ==
    /\ At(p, "user")
    /\ find_proc(q)
    /\ ~exiting[q]
    /\ exiting' = [exiting EXCEPT ![q] = TRUE]
    /\ IF wait_state[q] = WT_CHILD THEN wakeup_proc(q) ELSE UNCHANGED schedVars
    /\ Goto(p, "ret")
    /\ UNCHANGED <<treeVars, memVars, proc, wait_pid, fl_if, panic>>

\* A system call without effect on this state: getpid, putc, pgdir, gettime,
\* set_priority, a kill or a wait that is refused.
SysOther(p) ==
    /\ At(p, "user")
    /\ Goto(p, "ret")
    /\ UNCHANGED <<schedVars, treeVars, memVars, proc, wait_pid, exiting, fl_if, panic>>

\* A number that syscalls[] does not have stops the kernel.
SysUndefined(p) ==
    /\ At(p, "user")
    /\ Panic("undefined syscall")

\* user_main: do_execve loads the program, or exits when load_icode refuses it,
\* having given back what it had taken.
KernelExec(p, g) ==
    /\ At(p, "kexec")
    /\ IF nr_free < g + MmPages
       THEN Panic("out of memory")
       ELSE /\ heap' = heap + g
            /\ \/ /\ mm' = mm \cup {p}
                  /\ nr_free' = nr_free - g - MmPages
                  /\ Goto(p, "user")
               \/ /\ Goto(p, "exit")
                  /\ nr_free' = nr_free - g
                  /\ UNCHANGED mm
            /\ UNCHANGED <<schedVars, treeVars, kstack, proc, wait_pid,
                           exiting, fl_if, panic>>

\* init_main lets others run after each child it has reaped.
InitSchedule(p) ==
    /\ At(p, "init_sched")
    /\ schedule
    /\ Goto(p, "wait")
    /\ UNCHANGED <<treeVars, memVars, proc, wait_pid, exiting, fl_if, panic>>

\* init_main has checked that everyone has gone and returns, which is an exit.
InitReturn(p) ==
    /\ At(p, "init_check")
    /\ Goto(p, "exit")
    /\ UNCHANGED <<schedVars, treeVars, memVars, proc, wait_pid, exiting, fl_if, panic>>

IdleSchedule(p) ==
    /\ At(p, "idle")
    /\ need_resched[p]
    /\ schedule
    /\ UNCHANGED <<treeVars, memVars, localVars, exiting, fl_if, panic>>

----------------------------------------------------------------------------
(* Traps.  Interrupt and exception gates clear IF, the system call gate    *)
(* leaves it on.                                                           *)

\* Fault: PF_EXITING is not looked at.
TrapReturn_NoExitCheck(p) ==
    /\ At(p, "ret")
    /\ IF need_resched[p] THEN schedule ELSE UNCHANGED schedVars
    /\ Goto(p, "user")
    /\ fl_if' = TRUE
    /\ UNCHANGED <<treeVars, memVars, proc, wait_pid, exiting, panic>>

\* The tail of trap() for a trap from user mode.
TrapReturn(p) ==
    /\ At(p, "ret")
    /\ IF exiting[p]
       THEN /\ Goto(p, "exit")
            /\ UNCHANGED <<schedVars, fl_if>>
       ELSE /\ IF need_resched[p] THEN schedule ELSE UNCHANGED schedVars
            /\ Goto(p, "user")
            /\ fl_if' = TRUE
    /\ UNCHANGED <<treeVars, memVars, proc, wait_pid, exiting, panic>>

\* IF is off in a handler behind an interrupt gate and in the critical
\* section of do_exit, which spans two actions here.
Interruptible == fl_if /\ pc[current] # "exit_reparent"

\* The timer interrupts user code ...
UserTick(p) ==
    /\ At(p, "user")
    /\ sched_class_proc_tick(p)
    /\ fl_if' = FALSE
    /\ Goto(p, "ret")
    /\ UNCHANGED <<state, wait_state, current, run_list, treeVars, memVars,
                   proc, wait_pid, exiting, panic>>

\* ... or kernel code, which goes on where it was.
KernelTick(p) ==
    /\ panic = "none"
    /\ current = p
    /\ pc[p] # "user"
    /\ Interruptible
    /\ sched_class_proc_tick(p)
    /\ UNCHANGED <<state, wait_state, current, run_list, treeVars, memVars,
                   localVars, exiting, fl_if, panic>>

\* An exception other than a page fault, in user mode, ends the process.
UserException(p) ==
    /\ At(p, "user")
    /\ fl_if' = FALSE
    /\ Goto(p, "exit")
    /\ UNCHANGED <<schedVars, treeVars, memVars, proc, wait_pid, exiting, panic>>

\* A page fault is resolved, or it stops the kernel.
UserPageFault(p) ==
    /\ At(p, "user")
    /\ \/ /\ fl_if' = FALSE
          /\ Goto(p, "ret")
          /\ UNCHANGED <<schedVars, treeVars, memVars, proc, wait_pid, exiting, panic>>
       \/ Panic("page fault")

\* A panic ends in the kernel monitor, which never leaves its loop.
KMonitor ==
    /\ panic # "none"
    /\ UNCHANGED vars

----------------------------------------------------------------------------
Fork(p) ==
    \/ ForkNoProc(p)
    \/ \E g \in HeapGrowth : ForkNoStack(p, g) \/ ForkOutOfMemory(p, g)
    \/ \E c \in Procs, g \in HeapGrowth : ForkAlloc(p, c, g)

Syscall(p) ==
    \/ Fork(p)
    \/ \E pid \in (Procs \ {idleproc}) \cup {NULL} : SysWait(p, pid)
    \/ \E q \in Procs : SysKill(p, q)
    \/ SysExit(p) \/ SysYield(p) \/ SysOther(p) \/ SysUndefined(p)

\* The steps of kernel code, which the CPU does not stop taking.
KernelStep(p) ==
    \/ p = initproc /\ Fork(p)
    \/ ForkLink(p) \/ ForkWake(p)
    \/ \E z \in Procs : WaitFind(p, z)
    \/ WaitSleep(p) \/ WaitSchedule(p) \/ WaitResume(p)
    \/ WaitNoChild(p) \/ WaitReap(p)
    \/ ExitZombie(p) \/ ExitOfInit(p) \/ ExitNotify(p) \/ ExitReparent(p)
    \/ ExitSchedule(p)
    \/ \E g \in HeapGrowth : KernelExec(p, g)
    \/ InitSchedule(p) \/ InitReturn(p) \/ IdleSchedule(p)
    \/ TrapReturn(p)

\* What user code may do next.
UserStep(p) ==
    \/ p # initproc /\ Syscall(p)
    \/ UserException(p) \/ UserPageFault(p)

Tick == \E p \in Procs : UserTick(p) \/ KernelTick(p)

Next ==
    \/ \E p \in Procs : KernelStep(p) \/ UserStep(p)
    \/ Tick
    \/ KMonitor

Spec == Init /\ [][Next]_vars

\* The CPU goes on executing kernel code, and the timer, whose interrupt stays
\* pending while IF is off, goes on ticking.  User code may loop for ever.
Fairness ==
    /\ WF_vars(KernelStep(current))
    /\ SF_vars(Tick)

FairSpec == Spec /\ Fairness

----------------------------------------------------------------------------
(* Properties.                                                             *)

Elems(queue) == {queue[i] : i \in DOMAIN queue}

Distinct(queue) == \A i, j \in DOMAIN queue : queue[i] = queue[j] => i = j

Queued == Elems(run_list)

\* Type correctness of the whole kernel state.
TypeOK ==
    /\ state \in [Procs -> ProcStates]
    /\ wait_state \in [Procs -> {0, WT_CHILD}]
    /\ current \in Procs
    /\ run_list \in Seq(Procs)
    /\ time_slice \in [Procs -> 0 .. MAX_TIME_SLICE]
    /\ need_resched \in [Procs -> BOOLEAN]
    /\ parent \in [Procs -> Procs \cup {NULL}]
    /\ linked \in SUBSET Procs
    /\ nr_process \in Nat
    /\ heap \in Nat
    /\ exiting \in [Procs -> BOOLEAN]
    /\ kstack \in SUBSET Procs
    /\ mm \in SUBSET Procs
    /\ nr_free \in Nat
    /\ pc \in [Procs -> Labels]
    /\ proc \in [Procs -> Procs \cup {NULL}]
    /\ wait_pid \in [Procs -> Procs \cup {NULL}]
    /\ fl_if \in BOOLEAN
    /\ panic \in Panics

\* The run queue holds each process that could run and does not, once, and
\* nothing else: no process is lost by a sleep, a wake-up or a switch, and
\* RR_enqueue never finds one that is already linked (default_sched.c:15).
RunQueueExact ==
    /\ Queued = {p \in Procs \ {idleproc} : state[p] = "RUNNABLE" /\ p # current}
    /\ Distinct(run_list)

\* No wake-up is lost in do_wait: a sleeping process has no zombie among the
\* children it waits for, except one that is about to notify it in do_exit.
NoLostWakeup ==
    \A p \in Procs : state[p] = "SLEEPING" =>
        \A z \in Scanned(p) :
            state[z] = "ZOMBIE" => current = z /\ pc[z] = "exit_notify"

\* Sleepers do not wait for each other only: the CPU idles only with someone in
\* the queue, and whatever set of sleepers, one of them waits for a process that
\* is outside the set and has not ended, or is the one that runs and about to
\* notify it in do_exit.  Whether that process will end is another question.
NobodyHangs ==
    /\ current = idleproc => run_list # <<>>
    /\ \A S \in SUBSET {p \in Procs : state[p] = "SLEEPING"} :
        S # {} => \E p \in S : \E q \in Scanned(p) \ S : state[q] = "ZOMBIE" => current = q

\* The assertions of the kernel code: only sleepers are woken, and no zombie
\* (sched.c:60); whoever forks or sits in user mode waits for nothing
\* (proc.c:418); a waiter reaps only a process that has left the CPU for good
\* and is neither idleproc nor initproc (proc.c:751); do_exit does not return
\* (proc.c:506).
AssertionsHold ==
    /\ \A p \in Procs : wait_state[p] = WT_CHILD <=> state[p] = "SLEEPING"
    /\ pc[current] \in {"user", "init_main", "fork_link", "fork_wake"}
            => wait_state[current] = 0
    /\ pc[current] = "fork_wake" => state[proc[current]] = "UNINIT"
    /\ pc[current] = "wait_found" =>
            LET z == proc[current] IN
            z \in Users /\ pc[z] = "dead" /\ z # current /\ z \in linked
    /\ pc[current] # "dead"

\* The process count that do_fork tests is the number of linked processes and
\* idleproc, through every fork, reap and failure.
CountExact == nr_process = Cardinality(linked) + 1

\* What init_main asserts when do_wait tells it that no child is left
\* (proc.c:847-850): everyone has gone, and all pages but the heap's are back.
InitCheck ==
    pc[initproc] = "init_check" =>
        /\ Children(initproc) = {}
        /\ nr_process = 2
        /\ linked = {initproc}
        /\ \A p \in Users : state[p] = "FREE"
        /\ nr_free + heap = nr_free_pages_store

\* Pages are neither lost nor handed out twice: what is not free belongs to
\* the kernel heap, to the kernel stack of a process that exists or to a living
\* user process; and when initproc hears that no child is left, all of them
\* but the heap's are back.
PagesConserved ==
    /\ nr_free + heap + KSTACKPAGE * Cardinality(kstack) + MmPages * Cardinality(mm)
            = TotalPages
    /\ kstack = {p \in Procs \ {idleproc} : state[p] # "FREE"}
    /\ mm \subseteq {p \in Users : state[p] \notin {"FREE", "ZOMBIE"}}
    /\ InitCheck

\* The next assertion of init_main (proc.c:852): all pages are back.
NoPageLeak == pc[initproc] = "init_check" => nr_free = nr_free_pages_store

\* The tree of processes that the handlers build is the one ProcTree promises.
\* A process is in it from wakeup_proc in do_fork to kfree in do_wait, and is a
\* zombie once its children have been handed over.
Tree ==
    INSTANCE ProcTree WITH
        NoProc <- NULL,
        life <- [p \in Procs |->
                    IF p = idleproc \/ state[p] \in {"FREE", "UNINIT"} THEN "none"
                    ELSE IF pc[p] \in {"exit_sched", "dead"} THEN "zombie" ELSE "live"],
        par <- [p \in Procs |->
                    IF p \in {idleproc, initproc} \/ state[p] \in {"FREE", "UNINIT"}
                    THEN NULL ELSE parent[p]]

ImplementsTree == Tree!Spec

\* Every process hangs below a live one, so each zombie has a parent that can
\* still reap it, whatever the order of exits; and initproc, who adopts the
\* orphans, outlives everyone unless someone kills it.
LiveParents ==
    /\ Tree!LiveParents
    /\ panic = "initproc exit" => linked = {initproc} \/ exiting[initproc]

----------------------------------------------------------------------------
(* Liveness, under FairSpec.                                               *)

Panicked == panic # "none"

\* Round robin starves nobody: a process in the run queue gets the CPU, even
\* if every other user process loops for ever.
QueuedRuns ==
    \A p \in Procs \ {idleproc} : (p \in Queued) ~> (current = p \/ Panicked)

Waiting(p) == pc[p] \in {"wait", "wait_sched", "wait_resume"}

\* A process in do_wait comes out of the wait once a child it waits for is a
\* zombie.  For initproc this says that orphans go on being reaped.
WaiterReturns ==
    \A p \in Procs \ {idleproc} :
        (Waiting(p) /\ \E z \in Scanned(p) : state[z] = "ZOMBIE")
            ~> (~Waiting(p) \/ Panicked)

Gone(p) == state[p] \in {"FREE", "ZOMBIE"}

\* A killed process dies, unless it went to sleep in do_wait after the kill.
KilledDiesOrSleeps ==
    \A p \in Users :
        exiting[p] ~> (Gone(p) \/ state[p] = "SLEEPING" \/ Panicked)

\* What do_kill is documented to do (proc.c:768): a killed process dies.
KilledDies == \A p \in Users : exiting[p] ~> (Gone(p) \/ Panicked)

\* For TLC: user processes are interchangeable (the safety run only).
UserSymmetry == Permutations(Users)

=============================================================================
