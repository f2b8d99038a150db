------------------------------- MODULE Context -------------------------------
(***************************************************************************)
(* The registers of the one CPU and the kernel stacks on which they are    *)
(* saved: trap frames (kern/trap/trapentry.S, trap.c), context switches    *)
(* (switch.S and proc_run) and the frames that do_fork and load_icode      *)
(* build.  Two registers stand for all: eax, which carries results and     *)
(* which a switch does not save, and ebx for those that are saved.  Who is *)
(* scheduled, and when, is left open (module Sched).                       *)
(***************************************************************************)
EXTENDS Integers, Sequences, SequencesExt

CONSTANTS
    Procs, idleproc,
    Junk,           \* what eax may hold besides results
    pid,            \* a result of fork but 0
    MaxFrames       \* bound of the frames and activations on a kernel stack

VARIABLES
    current,
    eax, ebx,
    at,             \* the code that eip is in
    esp,            \* the words in use on current's kernel stack, 0 in user mode
    fl_if,          \* the interrupt flag
    esp0,           \* whose kernel stack the TSS has
    stack,          \* kernel stacks, from their top: frames and activations
    tf,             \* proc->tf: an index into the stack
    context,        \* proc->context, of the processes off the CPU
    held            \* history: the registers that the process had at each
                    \* level it runs at, the latest last

CpuVars == <<current, eax, ebx, at, esp, fl_if, esp0, stack, tf, context, held>>

\* What the code of p leaves in ebx at a level: nothing else leaves it there.
Mark(p, level) == <<p, level>>

\* What load_icode puts there.
Zeroed == Mark(idleproc, 0)

\* The context of a process on the CPU, or of none, means nothing.
Nowhere == [at |-> "none", esp |-> 0, ebx |-> Junk]

\* kern_init runs on the boot stack as idleproc.
CpuInit ==
    /\ current = idleproc
    /\ eax = Junk /\ ebx = Mark(idleproc, 1)
    /\ at = "kernel"
    /\ esp = 0
    /\ fl_if = TRUE
    /\ esp0 = idleproc
    /\ stack = [p \in Procs |-> <<>>]
    /\ tf = [p \in Procs |-> 0]
    /\ context = [p \in Procs |-> Nowhere]
    /\ held = [p \in Procs |-> IF p = idleproc THEN <<[eax |-> eax, ebx |-> ebx]>> ELSE <<>>]

Frame(a, b, where, flag) ==
    [kind |-> "frame", eax |-> a, ebx |-> b, at |-> where, fl_if |-> flag]

FromUser(frame) == frame.at = "user"

\* What is on the stack of current up to esp; the rest is gone.
Mine == SubSeq(stack[current], 1, esp)

Pop == [stack EXCEPT ![current] = SubSeq(@, 1, esp - 1)]

Now == [eax |-> eax, ebx |-> ebx]

\* The code that runs changes the registers, which it then has.
Become(regs) ==
    /\ eax' = regs.eax /\ ebx' = regs.ebx
    /\ held' = [held EXCEPT ![current][Len(held[current])] = regs]

\* User code computes.
Compute ==
    /\ at = "user"
    /\ Become([eax |-> Junk, ebx |-> Mark(current, 1)])
    /\ UNCHANGED <<current, at, esp, fl_if, esp0, stack, tf, context>>

----------------------------------------------------------------------------
(* Traps.                                                                  *)

\* The CPU, the vector and __alltraps put the frame together: from user mode at
\* the top of the stack that the TSS has (esp is 0), in the kernel where esp is.
\* The gate of the system call leaves interrupts on.
Trap(flag) ==
    LET where == IF at = "user" THEN esp0 ELSE current IN
    /\ at \in {"user", "kernel", "tail", "entry"}
    /\ Len(Mine) < MaxFrames
    /\ stack' = [stack EXCEPT ![where] = Append(Mine, Frame(eax, ebx, at, fl_if))]
    /\ esp' = Len(Mine) + 1
    /\ fl_if' = flag
    /\ at' = "entry"
    /\ eax' = Junk
    /\ held' = [held EXCEPT ![current] = Append(@, [eax |-> Junk, ebx |-> ebx])]
    /\ UNCHANGED <<current, ebx, esp0, tf, context>>

Interrupt == fl_if /\ Trap(FALSE)

SystemCall == at = "user" /\ Trap(fl_if)

\* kernel_execve, in a thread that has never been in user mode.
KernelExecve ==
    /\ at = "kernel"
    /\ current # idleproc
    /\ esp = 0
    /\ Trap(fl_if)

\* trap() begins: it keeps a chain of frames in the stack.
TrapEnter ==
    /\ at = "entry"
    /\ stack' = [stack EXCEPT ![current] =
                    Append(Mine, [kind |-> "trap", otf |-> tf[current]])]
    /\ esp' = esp + 1
    /\ tf' = [tf EXCEPT ![current] = esp]
    /\ at' = "kernel"
    /\ Become([eax |-> Junk, ebx |-> Mark(current, Len(held[current]))])
    /\ UNCHANGED <<current, fl_if, esp0, context>>

\* The frame that trap() was called with lies below its activation.
InTrap == at = "kernel" /\ esp > 1 /\ Mine[esp].kind = "trap"
TheFrame == Mine[tf[current]]
Calling == InTrap /\ FromUser(TheFrame)

\* The handler is through, with a result where there is one.
Answer(result) ==
    /\ stack' = [stack EXCEPT ![current][tf[current]].eax = result]
    /\ held' = [held EXCEPT ![current][Len(held[current]) - 1].eax = result]
    /\ at' = "tail"

SysReturns ==
    /\ Calling
    /\ Answer(0)
    /\ UNCHANGED <<current, eax, ebx, esp, fl_if, esp0, tf, context>>

\* An interrupt, or an exception that is handled, has no result.
Handled ==
    /\ InTrap
    /\ at' = "tail"
    /\ UNCHANGED <<current, eax, ebx, esp, fl_if, esp0, stack, tf, context, held>>

\* trap() ends.  On the way to user mode ("back") it may call schedule.
TrapLeave ==
    /\ at = "tail"
    /\ Mine[esp].kind = "trap"
    /\ tf' = [tf EXCEPT ![current] = Mine[esp].otf]
    /\ esp' = esp - 1
    /\ stack' = Pop
    /\ at' = IF FromUser(Mine[esp - 1]) THEN "back" ELSE "trapret"
    /\ UNCHANGED <<current, eax, ebx, fl_if, esp0, context, held>>

Back ==
    /\ at = "back"
    /\ at' = "trapret"
    /\ UNCHANGED <<current, eax, ebx, esp, fl_if, esp0, stack, tf, context, held>>

\* __trapret: the registers come out of the frame that esp points at.  In
\* user mode the kernel stack is empty; in the kernel it goes on below it.
TrapRet ==
    LET frame == Mine[esp] IN
    /\ at = "trapret"
    /\ eax' = frame.eax /\ ebx' = frame.ebx
    /\ at' = frame.at
    /\ fl_if' = frame.fl_if
    /\ esp' = IF FromUser(frame) THEN 0 ELSE esp - 1
    /\ stack' = Pop
    /\ held' = [held EXCEPT ![current] = Front(@)]
    /\ UNCHANGED <<current, esp0, tf, context>>

----------------------------------------------------------------------------
(* proc_run and switch_to.                                                 *)

\* Fault: the TSS keeps the stack of the process that leaves.
load_esp0_Forgotten(next) == esp0

load_esp0(next) == next

\* The CPU gets the registers of next, all but eax.
SwitchTo(next) ==
    /\ current' = next
    /\ esp0' = load_esp0(next)
    /\ fl_if' = FALSE
    /\ at' = context[next].at
    /\ esp' = context[next].esp
    /\ ebx' = context[next].ebx
    /\ UNCHANGED eax

\* Called by schedule in a system call, at the end of a trap from user mode or
\* in a thread; the flag of local_intr_save stays on the stack that is left.
proc_run(next) ==
    /\ at = "back" \/ (at = "kernel" /\ (esp = 0 \/ Calling))
    /\ esp < MaxFrames
    /\ context[next].at # "none"
    /\ stack' = [stack EXCEPT ![current] =
                    Append(Mine, [kind |-> "run", at |-> at, flag |-> fl_if])]
    /\ context' = [context EXCEPT
                    ![next] = Nowhere,
                    ![current] = [at |-> "switched", esp |-> esp + 1, ebx |-> ebx]]
    /\ SwitchTo(next)
    /\ UNCHANGED <<tf, held>>

\* Back from switch_to: eax is whatever the other process left in it.
Switched ==
    LET run == Mine[esp] IN
    /\ at = "switched"
    /\ at' = run.at
    /\ fl_if' = run.flag
    /\ esp' = esp - 1
    /\ stack' = Pop
    /\ held' = [held EXCEPT ![current][Len(held[current])].eax = eax]
    /\ UNCHANGED <<current, eax, ebx, esp0, tf, context>>

\* forkrets(current->tf): a new process starts at its frame.
ForkRet ==
    /\ at = "forkret"
    /\ esp' = tf[current]
    /\ at' = "trapret"
    /\ UNCHANGED <<current, eax, ebx, fl_if, esp0, stack, tf, context, held>>

----------------------------------------------------------------------------
(* do_fork and do_execve.                                                  *)

\* The frame of the child is that of the parent with 0 as the result, and IF.
copy_thread(frame) == [frame EXCEPT !.eax = 0, !.fl_if = TRUE]

NewProcess(c, frame) ==
    /\ held[c] = <<>>
    /\ tf' = [tf EXCEPT ![c] = 1]
    /\ context' = [context EXCEPT ![c] = [at |-> "forkret", esp |-> 1, ebx |-> Junk]]

SysFork(c) ==
    LET child == copy_thread(TheFrame) IN
    /\ Calling
    /\ NewProcess(c, child)
    /\ stack' = [stack EXCEPT ![c] = <<child>>, ![current][tf[current]].eax = pid]
    /\ held' = LET mine == held[current][Len(held[current]) - 1] IN
               [held EXCEPT
                    ![c] = <<[mine EXCEPT !.eax = 0], Now>>,
                    ![current][Len(held[current]) - 1].eax = pid]
    /\ at' = "tail"
    /\ UNCHANGED <<current, eax, ebx, esp, fl_if, esp0>>

\* kernel_thread: the frame says to call the function in ebx, in the kernel.
kernel_thread(c) ==
    LET fn    == Mark(c, 1)
        child == copy_thread(Frame(Junk, fn, "kernel", FALSE)) IN
    /\ at = "kernel" /\ esp = 0
    /\ NewProcess(c, child)
    /\ stack' = [stack EXCEPT ![c] = <<child>>]
    /\ held' = [held EXCEPT ![c] = <<[eax |-> 0, ebx |-> fn], Now>>]
    /\ UNCHANGED <<current, eax, ebx, at, esp, fl_if, esp0>>

\* load_icode fills current->tf, the frame of the system call, anew.
SysExec ==
    /\ InTrap
    /\ tf[current] = 1 /\ esp = 2
    /\ LET fresh == Frame(0, Zeroed, "user", TRUE) IN
       /\ stack' = [stack EXCEPT ![current][tf[current]] = fresh]
       /\ held' = [held EXCEPT ![current] =
                      <<[eax |-> 0, ebx |-> Zeroed], Last(held[current])>>]
    /\ at' = "tail"
    /\ UNCHANGED <<current, eax, ebx, esp, fl_if, esp0, tf, context>>

\* do_exit switches away for good; the proc_struct may be used again.
SysExit(next) ==
    /\ Calling
    /\ context[next].at # "none"
    /\ SwitchTo(next)
    /\ held' = [held EXCEPT ![current] = <<>>]
    /\ stack' = [stack EXCEPT ![current] = <<>>]
    /\ tf' = [tf EXCEPT ![current] = 0]
    /\ context' = [context EXCEPT ![next] = Nowhere]

----------------------------------------------------------------------------
CpuNext ==
    \/ Compute
    \/ Interrupt \/ SystemCall \/ KernelExecve
    \/ TrapEnter \/ SysReturns \/ Handled \/ TrapLeave \/ Back \/ TrapRet
    \/ \E p \in Procs : proc_run(p)
    \/ Switched \/ ForkRet
    \/ \E c \in Procs : SysFork(c) \/ SysExit(c) \/ kernel_thread(c)
    \/ SysExec

CpuSpec == CpuInit /\ [][CpuNext]_CpuVars

\* Whatever runs finds the registers as it left them: a process in user mode
\* after any traps, switches and nested interrupts, with the result of its call
\* in eax, and kernel code after an interrupt or a switch; and a trap finds the
\* kernel stack of the process that runs.
OwnRegisters ==
    at \in {"user", "kernel", "tail", "entry"} =>
        /\ held[current] # <<>>
        /\ Last(held[current]) = Now
        /\ esp0 = current

=============================================================================
