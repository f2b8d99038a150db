------------------------------- MODULE Stride -------------------------------
(***************************************************************************)
(* The stride scheduling class (kern/schedule/Stride_c) on its skew heap   *)
(* (libs/skew_heap.h), as schedule and wakeup_proc of sched.c call it.     *)
(* Strides are counters of Width bits that wrap round.  Time slices are    *)
(* those of the round robin class (module Sched) and left out: a process   *)
(* may be preempted at any time.                                           *)
(***************************************************************************)
EXTENDS Integers, FiniteSets, TLC

CONSTANTS
    Procs,
    Width,          \* bits of lab6_stride, 32 in the code
    Priorities,     \* the priorities that processes ask for
    NULL

VARIABLES
    proc,           \* the fields of each proc_struct: the heap node's left,
                    \* right and parent, the stride and the priority
    run_pool,       \* rq->lab6_run_pool, the root of the heap
    current,        \* the process on the CPU, NULL for idleproc
    asleep,         \* the processes that sleep
    strayed         \* history: one has joined the others too far from them

vars == <<proc, run_pool, current, asleep, strayed>>

\* Fault: as large as the counter.
BIG_STRIDE_Whole == 2 ^ Width - 1

BIG_STRIDE == 2 ^ (Width - 1) - 1

\* alloc_proc.
Init ==
    /\ proc = [f \in {"left", "right", "parent"} |-> [p \in Procs |-> NULL]]
                @@ [f \in {"stride", "priority"} |-> [p \in Procs |-> 0]]
    /\ run_pool = NULL
    /\ current = NULL
    /\ asleep = {}
    /\ strayed = FALSE

----------------------------------------------------------------------------
(* libs/skew_heap.h: a queue is [root, proc]                               *)

\* How far the stride of a is ahead of that of b.
Ahead(pr, a, b) == (pr.stride[a] - pr.stride[b]) % 2 ^ Width

\* proc_stride_comp_f(a, b) = -1: the difference is negative as an int32_t.
Before(pr, a, b) == Ahead(pr, a, b) >= 2 ^ (Width - 1)

SetParent(pr, a, p) == IF a = NULL THEN pr ELSE [pr EXCEPT !.parent[a] = p]

\* The loser is merged with the right child, and the children swap places.
RECURSIVE skew_heap_merge(_, _, _)
skew_heap_merge(pr, a, b) ==
    IF NULL \in {a, b} THEN [root |-> IF a = NULL THEN b ELSE a, proc |-> pr]
    ELSE LET wins == IF Before(pr, a, b) THEN a ELSE b
             m    == IF wins = a THEN skew_heap_merge(pr, pr.right[a], b)
                                 ELSE skew_heap_merge(pr, a, pr.right[b])
             hung == [m.proc EXCEPT !.left[wins] = m.root,
                                    !.right[wins] = pr.left[wins]]
         IN  [root |-> wins, proc |-> SetParent(hung, m.root, wins)]

Cleared(pr, b) ==
    [pr EXCEPT !.left[b] = NULL, !.right[b] = NULL, !.parent[b] = NULL]

skew_heap_insert(q, b) == skew_heap_merge(Cleared(q.proc, b), q.root, b)

\* The pointers of b are dead from here to its insertion: they are cleared.
skew_heap_remove(q, b) ==
    LET p == q.proc.parent[b]
        m == skew_heap_merge(q.proc, q.proc.left[b], q.proc.right[b])
        r == Cleared(SetParent(m.proc, m.root, p), b)
    IN  IF p = NULL THEN [root |-> m.root, proc |-> r]
        ELSE [root |-> q.root, proc |-> IF q.proc.left[p] = b
                                        THEN [r EXCEPT !.left[p] = m.root]
                                        ELSE [r EXCEPT !.right[p] = m.root]]

----------------------------------------------------------------------------
(* Stride_c                                                                *)

stride_enqueue(q, p) == skew_heap_insert(q, p)

stride_dequeue(q, p) == skew_heap_remove(q, p)

\* The root, whose stride grows by its pass.
stride_pick_next(q) ==
    LET p    == q.root
        pass == IF q.proc.priority[p] = 0 THEN BIG_STRIDE
                ELSE BIG_STRIDE \div q.proc.priority[p]
    IN  [q EXCEPT !.proc.stride[p] = (@ + pass) % 2 ^ Width]

----------------------------------------------------------------------------
(* The callers                                                             *)

Queue == [root |-> run_pool, proc |-> proc]

Becomes(q) == run_pool' = q.root /\ proc' = q.proc

RECURSIVE Nodes(_)
Nodes(a) == IF a = NULL THEN {}
            ELSE {a} \cup Nodes(proc.left[a]) \cup Nodes(proc.right[a])

Queued == Nodes(run_pool)
Competing == Queued \cup ({current} \ {NULL})

\* Strides within BIG_STRIDE of the least of them.
Window(pr, ps) ==
    ps = {} \/ \E least \in ps : \A p \in ps : Ahead(pr, p, least) <= BIG_STRIDE

\* The rest of schedule: the queue q has no place for the old process.
Switch(q) ==
    IF q.root = NULL THEN current' = NULL /\ Becomes(q)
    ELSE /\ current' = q.root
         /\ Becomes(stride_dequeue(stride_pick_next(q), q.root))

\* schedule, while current is runnable.
Preempt ==
    /\ current # NULL \/ run_pool # NULL
    /\ Switch(IF current = NULL THEN Queue ELSE stride_enqueue(Queue, current))
    /\ UNCHANGED <<asleep, strayed>>

Sleep ==
    /\ current # NULL
    /\ asleep' = asleep \cup {current}
    /\ Switch(Queue)
    /\ UNCHANGED strayed

\* do_exit; the slot can be used again.
Exit ==
    /\ current # NULL
    /\ Switch(Queue)
    /\ UNCHANGED <<asleep, strayed>>

Join(q, p) ==
    /\ Becomes(stride_enqueue(q, p))
    /\ strayed' = (strayed \/ ~Window(q.proc, Competing \cup {p}))
    /\ UNCHANGED current

Wakeup(p) ==
    /\ p \in asleep
    /\ asleep' = asleep \ {p}
    /\ Join(Queue, p)

\* do_fork: a new proc_struct, and wakeup_proc.
Fork(p) ==
    /\ p \notin Competing \cup asleep
    /\ Join([Queue EXCEPT !.proc.stride[p] = 0, !.proc.priority[p] = 0], p)
    /\ UNCHANGED asleep

lab6_set_priority(n) ==
    /\ current # NULL
    /\ proc' = [proc EXCEPT !.priority[current] = IF n = 0 THEN 1 ELSE n]
    /\ UNCHANGED <<run_pool, current, asleep, strayed>>

Next ==
    \/ Preempt \/ Sleep \/ Exit
    \/ \E p \in Procs : Wakeup(p) \/ Fork(p)
    \/ \E n \in Priorities : lab6_set_priority(n)

Spec == Init /\ [][Next]_vars

----------------------------------------------------------------------------
(* Properties                                                              *)

\* The pool is a tree whose parent pointers are right.  As long as no process
\* has joined out of step (a sleeper with an old stride, or a new process
\* with stride 0, which the code lets in), every pick keeps the strides within
\* BIG_STRIDE of the least, so that the signed comparison tells who is behind
\* across the wrap, and the root is a process that nobody is behind.
PicksLeast ==
    /\ run_pool # NULL => proc.parent[run_pool] = NULL
    /\ \A p \in Queued :
        LET l == proc.left[p] r == proc.right[p]
        IN  /\ l # NULL => proc.parent[l] = p
            /\ r # NULL => proc.parent[r] = p
            /\ Nodes(l) \cap Nodes(r) = {} /\ p \notin Nodes(l) \cup Nodes(r)
    /\ current \notin Queued /\ asleep \cap Competing = {}
    /\ ~strayed => /\ Window(proc, Competing)
                   /\ \A p \in Queued : ~Before(proc, p, run_pool)

=============================================================================
