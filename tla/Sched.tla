------------------------------- MODULE Sched -------------------------------
(***************************************************************************)
(* The scheduler of kern/schedule: the framework of sched.c over the       *)
(* round-robin class of default_sched.c, which sched_init installs.        *)
(*                                                                         *)
(* The module has the state the scheduler reads and writes and one action  *)
(* per function.  It has no specification of its own: Proc calls these     *)
(* actions from the process-management handlers.                           *)
(*                                                                         *)
(* Here and in the other modules a definition named Def_Fault is a faulty  *)
(* variant of the definition Def after it.  No specification uses it; put  *)
(* in the place of Def it must break a property.                           *)
(***************************************************************************)
EXTENDS Integers, Sequences

CONSTANTS
    Procs,          \* the proc_structs that kmalloc can hand out, and idleproc
    idleproc,       \* the proc_struct of the idle thread, never in the run queue
    MAX_TIME_SLICE  \* rq->max_time_slice

ASSUME IdleAssumption == idleproc \in Procs
ASSUME SliceAssumption == MAX_TIME_SLICE \in Nat \ {0}

VARIABLES
    state,          \* proc->state; "FREE" when the proc_struct is not allocated
    wait_state,     \* proc->wait_state
    current,        \* the process that has the CPU
    run_list,       \* rq->run_list, head first
    time_slice,     \* proc->time_slice
    need_resched    \* proc->need_resched

schedVars == <<state, wait_state, current, run_list, time_slice, need_resched>>

ProcStates == {"FREE", "UNINIT", "SLEEPING", "RUNNABLE", "ZOMBIE"}

\* WT_CHILD contains the WT_INTERRUPTED bit and is the only wait state the
\* kernel ever sets, so "wait_state & WT_INTERRUPTED" is "wait_state = WT_CHILD".
WT_CHILD == 1

----------------------------------------------------------------------------
(* The round-robin class.                                                  *)

\* The slice of a process put in the queue: a used-up slice is refilled.
RefillSlice(slice) ==
    IF slice = 0 \/ slice > MAX_TIME_SLICE THEN MAX_TIME_SLICE ELSE slice

\* Fault: last in, first out.
RR_enqueue_AtHead(queue, p) == <<p>> \o queue

\* A newly runnable process goes to the tail.
RR_enqueue(queue, p) == Append(queue, p)

\* The class picks the head, and schedule() dequeues what was picked.
RR_pick_next(queue) == Head(queue)

RR_dequeue(queue) == Tail(queue)

\* Fault: the slice is not tested before it is decremented.
RR_proc_tick_Unguarded(p) ==
    /\ time_slice' = [time_slice EXCEPT ![p] = @ - 1]
    /\ need_resched' = [need_resched EXCEPT ![p] = @ \/ time_slice[p] = 1]

\* A timer tick charged to the running process p.
RR_proc_tick(p) ==
    LET left == IF time_slice[p] > 0 THEN time_slice[p] - 1 ELSE 0 IN
    /\ time_slice' = [time_slice EXCEPT ![p] = left]
    /\ need_resched' = [need_resched EXCEPT ![p] = @ \/ left = 0]

----------------------------------------------------------------------------
(* The scheduling framework.                                               *)

\* sched_class_enqueue on a queue and a slice table: idleproc is skipped.
QueueWith(p) == IF p = idleproc THEN run_list ELSE RR_enqueue(run_list, p)

SlicesWith(p) ==
    IF p = idleproc
    THEN time_slice
    ELSE [time_slice EXCEPT ![p] = RefillSlice(@)]

\* The tick is charged to the current process; the idle thread is asked to
\* give the CPU up at once.
sched_class_proc_tick(p) ==
    IF p = idleproc
    THEN /\ need_resched' = [need_resched EXCEPT ![p] = TRUE]
         /\ UNCHANGED time_slice
    ELSE RR_proc_tick(p)

\* Fault: the wait state survives the wake-up.
wakeup_proc_StaleWait(p) ==
    IF state[p] # "RUNNABLE"
    THEN /\ state' = [state EXCEPT ![p] = "RUNNABLE"]
         /\ run_list' = IF p # current THEN QueueWith(p) ELSE run_list
         /\ time_slice' = IF p # current THEN SlicesWith(p) ELSE time_slice
         /\ UNCHANGED <<wait_state, current, need_resched>>
    ELSE UNCHANGED schedVars

\* wakeup_proc(p).  Its assertion, that p is not a zombie, is one of the
\* assertions that the invariants of Proc check.
wakeup_proc(p) ==
    IF state[p] # "RUNNABLE"
    THEN /\ state' = [state EXCEPT ![p] = "RUNNABLE"]
         /\ wait_state' = [wait_state EXCEPT ![p] = 0]
         /\ run_list' = IF p # current THEN QueueWith(p) ELSE run_list
         /\ time_slice' = IF p # current THEN SlicesWith(p) ELSE time_slice
         /\ UNCHANGED <<current, need_resched>>
    ELSE UNCHANGED schedVars

\* Fault: a preempted process is not put back.
Requeued_Dropped == run_list

\* The queue that schedule() picks from: a current process that can go on
\* running is put back at the tail first.
Requeued == IF state[current] = "RUNNABLE" THEN QueueWith(current) ELSE run_list

schedule ==
    /\ need_resched' = [need_resched EXCEPT ![current] = FALSE]
    /\ time_slice' = IF state[current] = "RUNNABLE"
                     THEN SlicesWith(current) ELSE time_slice
    /\ IF Requeued = <<>>
       THEN /\ current' = idleproc
            /\ run_list' = <<>>
       ELSE /\ current' = RR_pick_next(Requeued)
            /\ run_list' = RR_dequeue(Requeued)
    /\ UNCHANGED <<state, wait_state>>

============================================================================
