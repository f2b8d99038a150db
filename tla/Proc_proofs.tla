---------------------------- MODULE Proc_proofs ----------------------------
(***************************************************************************)
(* Proofs about Proc: the run queue and what sleepers wait for (Inv), and  *)
(* then the tree of processes below initproc, which gives every zombie a   *)
(* live parent and leaves nobody waiting for himself, with every page      *)
(* accounted for (TreeInv).                                                *)
(***************************************************************************)
EXTENDS Proc, FiniteSetTheorems, SequenceTheorems, TLAPS

----------------------------------------------------------------------------
(* The run queue as a sequence without repetition.                         *)

\* Putting a new element at the tail adds it, and repeats nothing.
LEMMA AppendLemma ==
    ASSUME NEW S, NEW q \in Seq(S), NEW x \in S
    PROVE  /\ Append(q, x) \in Seq(S)
           /\ Append(q, x) # <<>>
           /\ Elems(Append(q, x)) = Elems(q) \cup {x}
           /\ Distinct(q) /\ x \notin Elems(q) => Distinct(Append(q, x))
  <1> DEFINE a == Append(q, x)
             n == Len(q)
  <1>1. /\ n \in Nat
        /\ DOMAIN q = 1 .. n
        /\ DOMAIN a = 1 .. n + 1
        /\ \A i \in 1 .. n : a[i] = q[i]
        /\ a[n + 1] = x
    <2>1. /\ a \in Seq(S)
          /\ Len(a) = n + 1
          /\ \A i \in 1 .. n : a[i] = q[i]
          /\ a[n + 1] = x
      BY AppendProperties
    <2> QED  BY <2>1
  <1>2. a \in Seq(S) /\ a # <<>>
    BY AppendProperties
  <1> HIDE DEF a, n
  <1>3. Elems(a) = Elems(q) \cup {x}
    <2>1. \A e : e \in Elems(a) <=> \E i \in 1 .. n + 1 : e = a[i]
      BY <1>1 DEF Elems
    <2>2. \A e : e \in Elems(q) <=> \E i \in 1 .. n : e = q[i]
      BY <1>1 DEF Elems
    <2>3. \A i \in 1 .. n + 1 : i \in 1 .. n \/ i = n + 1
      BY <1>1
    <2>4. \A i \in 1 .. n : i \in 1 .. n + 1
      BY <1>1
    <2>5. n + 1 \in 1 .. n + 1
      BY <1>1
    <2> QED  BY <1>1, <2>1, <2>2, <2>3, <2>4, <2>5
  <1>4. ASSUME Distinct(q), x \notin Elems(q) PROVE Distinct(a)
    <2>1. \A i \in 1 .. n : q[i] # x
      BY <1>1, <1>4 DEF Elems
    <2>2. \A i, j \in 1 .. n : q[i] = q[j] => i = j
      BY <1>1, <1>4 DEF Distinct
    <2>3. \A i, j \in 1 .. n + 1 : a[i] = a[j] => i = j
      BY <1>1, <2>1, <2>2
    <2> QED  BY <1>1, <2>3 DEF Distinct
  <1> QED  BY <1>2, <1>3, <1>4 DEF a

\* Taking the head off removes exactly the head.
LEMMA TailLemma ==
    ASSUME NEW S, NEW q \in Seq(S), q # <<>>, Distinct(q)
    PROVE  /\ Tail(q) \in Seq(S)
           /\ Head(q) \in S
           /\ Head(q) \in Elems(q)
           /\ Elems(Tail(q)) = Elems(q) \ {Head(q)}
           /\ Distinct(Tail(q))
  <1> DEFINE t == Tail(q)
             n == Len(q)
  <1>1. /\ n \in Nat \ {0}
        /\ DOMAIN q = 1 .. n
        /\ DOMAIN t = 1 .. n - 1
        /\ \A i \in 1 .. n - 1 : t[i] = q[i + 1]
        /\ Head(q) = q[1]
    OBVIOUS
  <1>2. Tail(q) \in Seq(S) /\ Head(q) \in S
    OBVIOUS
  <1> HIDE DEF t, n
  <1>3. \A i, j \in 1 .. n : q[i] = q[j] => i = j
    BY <1>1 DEF Distinct
  <1>4. Head(q) \in Elems(q)
    BY <1>1 DEF Elems
  <1>5. Elems(t) = Elems(q) \ {Head(q)}
    <2>1. \A e : e \in Elems(t) <=> \E i \in 1 .. n - 1 : e = t[i]
      BY <1>1 DEF Elems
    <2>2. \A e : e \in Elems(q) <=> \E i \in 1 .. n : e = q[i]
      BY <1>1 DEF Elems
    <2>3. \A i \in 1 .. n - 1 : i + 1 \in 1 .. n /\ i + 1 # 1
      BY <1>1
    <2>4. \A i \in 1 .. n : i # 1 => i - 1 \in 1 .. n - 1 /\ (i - 1) + 1 = i
      BY <1>1
    <2>5. 1 \in 1 .. n
      BY <1>1
    <2>6. ASSUME NEW e \in Elems(t) PROVE e \in Elems(q) /\ e # Head(q)
      BY <1>1, <1>3, <2>1, <2>2, <2>3, <2>5
    <2>7. ASSUME NEW e \in Elems(q), e # Head(q) PROVE e \in Elems(t)
      <3>1. PICK i \in 1 .. n : e = q[i]
        BY <2>2
      <3>2. i # 1
        BY <1>1, <2>7, <3>1
      <3>3. e = t[i - 1]
        BY <1>1, <2>4, <3>1, <3>2
      <3> QED  BY <2>1, <2>4, <3>2, <3>3
    <2> QED  BY <2>6, <2>7
  <1>6. Distinct(t)
    <2>1. \A i, j \in 1 .. n - 1 : t[i] = t[j] => i = j
      BY <1>1, <1>3
    <2> QED  BY <1>1, <2>1 DEF Distinct
  <1> QED  BY <1>2, <1>4, <1>5, <1>6 DEF t

----------------------------------------------------------------------------
(* The inductive invariant.                                                *)

ExitPcs == {"exit_notify", "exit_reparent", "exit_sched", "dead"}

\* Where a process can be that does not have the CPU.
OffCpuPcs == {"none", "idle", "init_main", "kexec", "user", "wait",
              "wait_resume", "dead"}

\* Where a process is runnable and has nothing under way that another could see.
PlainPcs == {"init_main", "init_sched", "init_check", "kexec", "user", "ret",
             "wait", "wait_resume", "exit"}

\* How far the kernel code of a process is, and the state it has there.
PcState ==
    \A p \in Procs :
        /\ state[p] = "FREE" <=> pc[p] = "none"
        /\ state[p] = "ZOMBIE" <=> pc[p] \in ExitPcs
        /\ state[p] = "SLEEPING" => pc[p] \in {"wait_sched", "wait_resume"}
        /\ state[p] = "UNINIT" => /\ pc[current] \in {"fork_link", "fork_wake"}
                                  /\ p = proc[current]
        /\ wait_state[p] = WT_CHILD <=> state[p] = "SLEEPING"

\* The kernel is not preemptive: a process loses the CPU only in schedule().
OffCpu == \A p \in Procs : p # current => pc[p] \in OffCpuPcs

\* What the running process may rely on.
OnCpu ==
    /\ pc[current] \notin {"none", "dead"}
    /\ state[current] = "RUNNABLE" \/ pc[current] \in ExitPcs \cup {"wait_sched"}
    /\ pc[current] = "wait_sched" => state[current] = "SLEEPING"
    /\ pc[current] \in {"fork_link", "fork_wake"} =>
            /\ proc[current] \in Procs
            /\ state[proc[current]] = "UNINIT"
    /\ pc[current] = "wait_found" =>
            /\ proc[current] \in linked
            /\ state[proc[current]] = "ZOMBIE"

\* The idle thread is always runnable, and initproc never dies.
KernelThreads ==
    /\ state[idleproc] = "RUNNABLE"
    /\ state[initproc] \in {"RUNNABLE", "SLEEPING"}
    /\ \A p \in Procs : pc[p] = "idle" <=> p = idleproc

Parents ==
    \A p \in Procs \ {idleproc} : state[p] # "FREE" => parent[p] \in Procs

Counted ==
    /\ IsFiniteSet(linked)
    /\ CountExact
    /\ \A p \in linked : state[p] # "FREE"
    /\ pc[current] = "fork_link" => proc[current] \notin linked

Inv ==
    /\ TypeOK
    /\ RunQueueExact
    /\ PcState
    /\ OffCpu
    /\ OnCpu
    /\ KernelThreads
    /\ Parents
    /\ Counted
    /\ NoLostWakeup

\* The state that proc_init leaves satisfies Inv.
LEMMA InitInv == Init => Inv
  <1> SUFFICES ASSUME Init PROVE Inv
    OBVIOUS
  <1> USE IdleAssumption, SliceAssumption, ProcsAssumption, PagesAssumption
  <1>1. TypeOK
    BY DEF Init, TypeOK, ProcStates, WT_CHILD, Labels, Panics
  <1>2. RunQueueExact
    <2>1. DOMAIN run_list = {1} /\ run_list[1] = initproc
      BY DEF Init
    <2>2. Elems(run_list) = {initproc}
      BY <2>1 DEF Elems
    <2>3. Distinct(run_list)
      BY <2>1 DEF Distinct
    <2>4. {p \in Procs \ {idleproc} : state[p] = "RUNNABLE" /\ p # current} = {initproc}
      BY DEF Init
    <2> QED  BY <2>2, <2>3, <2>4 DEF RunQueueExact, Queued
  <1>3. \A p \in Procs :
            /\ p = idleproc => pc[p] = "idle" /\ state[p] = "RUNNABLE"
            /\ p = initproc => pc[p] = "init_main" /\ state[p] = "RUNNABLE"
            /\ p \notin {idleproc, initproc} => pc[p] = "none" /\ state[p] = "FREE"
            /\ wait_state[p] = 0
    BY DEF Init
  <1>4. current = idleproc /\ linked = {initproc} /\ nr_process = 2
    BY DEF Init
  <1>5. Parents
    BY DEF Init, Parents
  <1> USE DEF ExitPcs, OffCpuPcs, WT_CHILD
  <1>6. PcState
    <2> SUFFICES ASSUME NEW p \in Procs
                 PROVE  /\ state[p] = "FREE" <=> pc[p] = "none"
                        /\ state[p] = "ZOMBIE" <=> pc[p] \in ExitPcs
                        /\ state[p] \notin {"SLEEPING", "UNINIT"}
                        /\ wait_state[p] # WT_CHILD
      BY DEF PcState
    <2>1. wait_state[p] = 0 /\ state[p] \in {"FREE", "RUNNABLE"}
      BY <1>3
    <2>2. state[p] = "FREE" <=> pc[p] = "none"
      BY <1>3
    <2>3. pc[p] \notin ExitPcs
      BY <1>3
    <2> QED  BY <2>1, <2>2, <2>3
  <1>7. OffCpu
    BY <1>3, <1>4 DEF OffCpu
  <1>8. OnCpu
    BY <1>3, <1>4 DEF OnCpu
  <1>9. KernelThreads
    BY <1>3 DEF KernelThreads
  <1>10. Counted
    <2>1. IsFiniteSet(linked) /\ Cardinality(linked) = 1
      BY <1>4, FS_Singleton
    <2>2. pc[current] # "fork_link" /\ state[initproc] # "FREE"
      BY <1>3, <1>4
    <2> QED  BY <1>4, <2>1, <2>2 DEF Counted, CountExact
  <1>11. NoLostWakeup
    BY <1>3 DEF NoLostWakeup
  <1> QED  BY <1>1, <1>2, <1>5, <1>6, <1>7, <1>8, <1>9, <1>10, <1>11 DEF Inv

----------------------------------------------------------------------------
(* What the scheduler functions do to an invariant state.                  *)

\* schedule() keeps the queue exact: who gives the CPU up while runnable is in
\* it, who gets the CPU is not, and is runnable.
LEMMA ScheduleLemma ==
    ASSUME TypeOK, RunQueueExact, KernelThreads, schedule
    PROVE  /\ UNCHANGED <<state, wait_state>>
           /\ current' \in Procs
           /\ run_list' \in Seq(Procs)
           /\ time_slice' \in [Procs -> 0 .. MAX_TIME_SLICE]
           /\ need_resched' \in [Procs -> BOOLEAN]
           /\ state[current'] = "RUNNABLE"
           /\ RunQueueExact'
  <1> USE IdleAssumption, SliceAssumption
  <1>1. UNCHANGED <<state, wait_state>> /\ need_resched' \in [Procs -> BOOLEAN]
    BY DEF schedule, TypeOK
  <1>2. time_slice' \in [Procs -> 0 .. MAX_TIME_SLICE]
    <2>1. SlicesWith(current) \in [Procs -> 0 .. MAX_TIME_SLICE]
      BY DEF SlicesWith, RefillSlice, TypeOK
    <2> QED  BY <2>1 DEF schedule, TypeOK
  <1>3. /\ Requeued \in Seq(Procs)
        /\ Distinct(Requeued)
        /\ Elems(Requeued) = {p \in Procs \ {idleproc} : state[p] = "RUNNABLE"}
    <2>1. CASE state[current] = "RUNNABLE" /\ current # idleproc
      <3>1. Requeued = Append(run_list, current)
        BY <2>1 DEF Requeued, QueueWith, RR_enqueue
      <3>2. current \notin Elems(run_list)
        BY DEF RunQueueExact, Queued
      <3> QED  BY <2>1, <3>1, <3>2, AppendLemma DEF TypeOK, RunQueueExact, Queued
    <2>2. CASE ~(state[current] = "RUNNABLE" /\ current # idleproc)
      <3>1. Requeued = run_list
        BY <2>2 DEF Requeued, QueueWith
      <3> QED  BY <2>2, <3>1 DEF TypeOK, RunQueueExact, Queued
    <2> QED  BY <2>1, <2>2
  <1>4. CASE Requeued = <<>>
    <2>1. current' = idleproc /\ run_list' = <<>>
      BY <1>4 DEF schedule
    <2>2. Elems(<<>>) = {} /\ Distinct(<<>>)
      BY DEF Elems, Distinct
    <2>3. RunQueueExact'
      BY <1>1, <1>3, <1>4, <2>1, <2>2 DEF RunQueueExact, Queued
    <2> QED  BY <1>1, <1>2, <2>1, <2>3 DEF KernelThreads
  <1>5. CASE Requeued # <<>>
    <2>1. current' = Head(Requeued) /\ run_list' = Tail(Requeued)
      BY <1>5 DEF schedule, RR_pick_next, RR_dequeue
    <2>2. /\ Tail(Requeued) \in Seq(Procs)
          /\ Head(Requeued) \in Elems(Requeued)
          /\ Elems(Tail(Requeued)) = Elems(Requeued) \ {Head(Requeued)}
          /\ Distinct(Tail(Requeued))
      BY <1>3, <1>5, TailLemma
    <2>3. RunQueueExact'
      BY <1>1, <1>3, <2>1, <2>2 DEF RunQueueExact, Queued
    <2> QED  BY <1>1, <1>2, <1>3, <2>1, <2>2, <2>3
  <1> QED  BY <1>4, <1>5

\* wakeup_proc() of a process that is off the CPU and not runnable puts it in
\* the queue.
LEMMA WakeupLemma ==
    ASSUME TypeOK, RunQueueExact, NEW p \in Procs, wakeup_proc(p),
           state[p] # "RUNNABLE", p # current, p # idleproc
    PROVE  /\ UNCHANGED <<current, need_resched>>
           /\ state' = [state EXCEPT ![p] = "RUNNABLE"]
           /\ wait_state' = [wait_state EXCEPT ![p] = 0]
           /\ run_list' \in Seq(Procs)
           /\ time_slice' \in [Procs -> 0 .. MAX_TIME_SLICE]
           /\ RunQueueExact'
  <1>1. /\ UNCHANGED <<current, need_resched>>
        /\ state' = [state EXCEPT ![p] = "RUNNABLE"]
        /\ wait_state' = [wait_state EXCEPT ![p] = 0]
        /\ run_list' = Append(run_list, p)
        /\ time_slice' = SlicesWith(p)
    BY DEF wakeup_proc, QueueWith, RR_enqueue
  <1>2. SlicesWith(p) \in [Procs -> 0 .. MAX_TIME_SLICE]
    BY SliceAssumption DEF SlicesWith, RefillSlice, TypeOK
  <1>3. p \notin Elems(run_list) /\ Distinct(run_list)
    BY DEF RunQueueExact, Queued
  <1>4. /\ run_list' \in Seq(Procs)
        /\ Elems(run_list') = Elems(run_list) \cup {p}
        /\ Distinct(run_list')
    <2>1. run_list \in Seq(Procs)
      BY DEF TypeOK
    <2> QED  BY <1>1, <1>3, <2>1, AppendLemma
  <1>5. RunQueueExact'
    BY <1>1, <1>4 DEF RunQueueExact, Queued, TypeOK
  <1> QED  BY <1>1, <1>2, <1>4, <1>5

\* A tick leaves the slices and the flags well typed.
LEMMA TickLemma ==
    ASSUME TypeOK, NEW p \in Procs, sched_class_proc_tick(p)
    PROVE  /\ time_slice' \in [Procs -> 0 .. MAX_TIME_SLICE]
           /\ need_resched' \in [Procs -> BOOLEAN]
  <1>1. time_slice \in [Procs -> 0 .. MAX_TIME_SLICE] /\ need_resched \in [Procs -> BOOLEAN]
    BY DEF TypeOK
  <1>2. CASE p = idleproc
    BY <1>1, <1>2 DEF sched_class_proc_tick
  <1>3. CASE p # idleproc
    <2> DEFINE left == IF time_slice[p] > 0 THEN time_slice[p] - 1 ELSE 0
    <2>1. left \in 0 .. MAX_TIME_SLICE
      BY <1>1, SliceAssumption
    <2>2. /\ time_slice' = [time_slice EXCEPT ![p] = left]
          /\ need_resched' = [need_resched EXCEPT ![p] = @ \/ left = 0]
      BY <1>3 DEF sched_class_proc_tick, RR_proc_tick
    <2> HIDE DEF left
    <2>3. time_slice' \in [Procs -> 0 .. MAX_TIME_SLICE]
      BY <1>1, <2>1, <2>2
    <2>4. need_resched' \in [Procs -> BOOLEAN]
      BY <1>1, <2>2, Zenon
    <2> QED  BY <2>3, <2>4
  <1> QED  BY <1>2, <1>3

----------------------------------------------------------------------------
(* The kinds of step that the actions take, and that each keeps Inv.       *)

\* Kernel code that goes on where it was, the tick being charged.
LEMMA StayStep ==
    ASSUME Inv, TypeOK',
           UNCHANGED <<state, wait_state, current, run_list, treeVars, localVars>>
    PROVE  Inv'
  <1>1. RunQueueExact'
    BY DEF Inv, RunQueueExact, Queued
  <1>2. PcState' /\ OffCpu' /\ OnCpu' /\ KernelThreads'
    BY DEF Inv, PcState, OffCpu, OnCpu, KernelThreads, treeVars, localVars
  <1>3. Parents' /\ Counted'
    BY DEF Inv, Parents, Counted, CountExact, treeVars, localVars
  <1>4. NoLostWakeup'
    BY DEF Inv, NoLostWakeup, Scanned, Children, find_proc, treeVars, localVars
  <1> QED  BY <1>1, <1>2, <1>3, <1>4 DEF Inv

\* The running process goes on to another point where nothing is under way.
LEMMA QuietStep ==
    ASSUME Inv, TypeOK', pc[current] \in PlainPcs, NEW l \in PlainPcs,
           pc' = [pc EXCEPT ![current] = l],
           UNCHANGED <<state, wait_state, current, run_list, treeVars, proc>>,
           \A q \in Procs \ {current} : wait_pid'[q] = wait_pid[q]
    PROVE  Inv'
  <1> USE DEF PlainPcs, ExitPcs, OffCpuPcs, treeVars
  <1>1. /\ pc \in [Procs -> Labels]
        /\ current \in Procs
        /\ state[current] = "RUNNABLE"
        /\ \A q \in Procs : pc'[q] = IF q = current THEN l ELSE pc[q]
    BY DEF Inv, TypeOK, OnCpu
  <1>2. RunQueueExact'
    BY DEF Inv, RunQueueExact, Queued
  <1>3. PcState'
    BY <1>1 DEF Inv, PcState
  <1>4. OffCpu'
    BY <1>1 DEF Inv, OffCpu
  <1>5. OnCpu'
    BY <1>1 DEF Inv, OnCpu
  <1>6. KernelThreads'
    BY <1>1 DEF Inv, KernelThreads
  <1>7. Parents'
    BY DEF Inv, Parents
  <1>8. Counted'
    BY <1>1 DEF Inv, Counted, CountExact
  <1>9. NoLostWakeup'
    <2> SUFFICES ASSUME NEW p \in Procs, state[p] = "SLEEPING",
                        NEW z \in Scanned(p)', state[z] = "ZOMBIE"
                 PROVE  FALSE
      BY DEF NoLostWakeup
    <2>1. p # current
      BY <1>1
    <2>2. z \in Scanned(p)
      BY <2>1 DEF Scanned, Children, find_proc
    <2>3. current = z
      BY <2>2 DEF Inv, NoLostWakeup
    <2> QED  BY <1>1, <2>3
  <1> QED  BY <1>2, <1>3, <1>4, <1>5, <1>6, <1>7, <1>8, <1>9 DEF Inv

\* The running process gives the CPU up in schedule().
LEMMA SwitchStep ==
    ASSUME Inv, schedule, NEW l,
           \/ pc[current] = "exit_sched" /\ l = "dead"
           \/ pc[current] = "wait_sched" /\ l = "wait_resume"
           \/ pc[current] = "init_sched" /\ l = "wait"
           \/ pc[current] = "idle" /\ l = "idle"
           \/ pc[current] = "ret" /\ l = "user",
           pc' = [pc EXCEPT ![current] = l],
           UNCHANGED <<treeVars, memVars, proc, wait_pid, exiting, panic>>,
           fl_if' \in BOOLEAN
    PROVE  Inv'
  <1> USE DEF ExitPcs, OffCpuPcs, treeVars, memVars
  <1>1. /\ UNCHANGED <<state, wait_state>>
        /\ current' \in Procs
        /\ run_list' \in Seq(Procs)
        /\ time_slice' \in [Procs -> 0 .. MAX_TIME_SLICE]
        /\ need_resched' \in [Procs -> BOOLEAN]
        /\ state[current'] = "RUNNABLE"
        /\ RunQueueExact'
    BY ScheduleLemma DEF Inv
  <1>2. /\ pc \in [Procs -> Labels]
        /\ current \in Procs
        /\ l \in Labels
        /\ \A q \in Procs : pc'[q] = IF q = current THEN l ELSE pc[q]
    BY DEF Inv, TypeOK, Labels
  <1>3. TypeOK'
    BY <1>1, <1>2 DEF Inv, TypeOK
  <1>4. PcState'
    BY <1>1, <1>2 DEF Inv, PcState
  <1>5. OffCpu'
    BY <1>1, <1>2 DEF Inv, OffCpu
  <1>6. OnCpu'
    <2>1. pc[current'] \notin {"none", "exit_notify", "exit_reparent", "exit_sched", "dead"}
      BY <1>1 DEF Inv, PcState
    <2>2. pc'[current'] \in OffCpuPcs \ {"none", "dead"}
      BY <1>1, <1>2, <2>1 DEF Inv, OffCpu
    <2> QED  BY <1>1, <2>2 DEF OnCpu
  <1>7. KernelThreads'
    BY <1>1, <1>2 DEF Inv, KernelThreads
  <1>8. Parents'
    BY <1>1 DEF Inv, Parents
  <1>9. Counted'
    <2>1. pc'[current'] # "fork_link"
      BY <1>1, <1>2 DEF Inv, OffCpu
    <2> QED  BY <1>1, <2>1 DEF Inv, Counted, CountExact
  <1>10. NoLostWakeup'
    <2> SUFFICES ASSUME NEW p \in Procs, state[p] = "SLEEPING",
                        NEW z \in Scanned(p)', state[z] = "ZOMBIE"
                 PROVE  FALSE
      BY <1>1 DEF NoLostWakeup
    <2>1. z \in Scanned(p)
      BY DEF Scanned, Children, find_proc
    <2>2. current = z /\ pc[z] = "exit_notify"
      BY <2>1 DEF Inv, NoLostWakeup
    <2> QED  BY <2>2
  <1> QED  BY <1>1, <1>3, <1>4, <1>5, <1>6, <1>7, <1>8, <1>9, <1>10 DEF Inv

\* The running process may wake one that sleeps, and goes on.
LEMMA NotifyStep ==
    ASSUME Inv, NEW l,
           \/ pc[current] = "user" /\ l = "ret"
           \/ pc[current] = "exit_notify" /\ l = "exit_reparent"
           \/ pc[current] = "exit_reparent" /\ l = "exit_sched",
           pc' = [pc EXCEPT ![current] = l],
           \/ UNCHANGED schedVars
           \/ \E q \in Procs : state[q] = "SLEEPING" /\ wakeup_proc(q),
           UNCHANGED <<linked, nr_process, memVars, proc, wait_pid, fl_if, panic>>,
           exiting' \in [Procs -> BOOLEAN],
           parent' \in [Procs -> Procs \cup {NULL}],
           Parents', NoLostWakeup'
    PROVE  Inv'
  <1> USE DEF ExitPcs, OffCpuPcs, memVars
  <1>1. /\ pc \in [Procs -> Labels]
        /\ state \in [Procs -> ProcStates]
        /\ wait_state \in [Procs -> {0, WT_CHILD}]
        /\ current \in Procs
        /\ l \in Labels
        /\ \A q \in Procs : pc'[q] = IF q = current THEN l ELSE pc[q]
    BY DEF Inv, TypeOK, Labels
  <1>2. /\ current' = current
        /\ state' \in [Procs -> ProcStates]
        /\ wait_state' \in [Procs -> {0, WT_CHILD}]
        /\ run_list' \in Seq(Procs)
        /\ time_slice' \in [Procs -> 0 .. MAX_TIME_SLICE]
        /\ need_resched' \in [Procs -> BOOLEAN]
        /\ RunQueueExact'
        /\ \A q \in Procs :
                \/ state'[q] = state[q] /\ wait_state'[q] = wait_state[q]
                \/ state[q] = "SLEEPING" /\ state'[q] = "RUNNABLE" /\ wait_state'[q] = 0
    <2>1. CASE UNCHANGED schedVars
      BY <2>1 DEF schedVars, Inv, TypeOK, RunQueueExact, Queued
    <2>2. CASE \E q \in Procs : state[q] = "SLEEPING" /\ wakeup_proc(q)
      <3>1. PICK q \in Procs : state[q] = "SLEEPING" /\ wakeup_proc(q)
        BY <2>2
      <3>2. q # current /\ q # idleproc
        BY <3>1 DEF Inv, PcState, KernelThreads
      <3>3. /\ UNCHANGED <<current, need_resched>>
            /\ state' = [state EXCEPT ![q] = "RUNNABLE"]
            /\ wait_state' = [wait_state EXCEPT ![q] = 0]
            /\ run_list' \in Seq(Procs)
            /\ time_slice' \in [Procs -> 0 .. MAX_TIME_SLICE]
            /\ RunQueueExact'
        BY <3>1, <3>2, WakeupLemma DEF Inv
      <3> QED  BY <1>1, <3>1, <3>3 DEF Inv, TypeOK, ProcStates
    <2> QED  BY <2>1, <2>2
  <1>3. TypeOK'
    BY <1>1, <1>2 DEF Inv, TypeOK
  <1>4. PcState'
    <2> SUFFICES ASSUME NEW p \in Procs
                 PROVE  /\ state'[p] = "FREE" <=> pc'[p] = "none"
                        /\ state'[p] = "ZOMBIE" <=> pc'[p] \in ExitPcs
                        /\ state'[p] = "SLEEPING" => pc'[p] \in {"wait_sched", "wait_resume"}
                        /\ state'[p] # "UNINIT"
                        /\ wait_state'[p] = WT_CHILD <=> state'[p] = "SLEEPING"
      BY DEF PcState
    <2>1. /\ state[p] = "FREE" <=> pc[p] = "none"
          /\ state[p] = "ZOMBIE" <=> pc[p] \in ExitPcs
          /\ state[p] = "SLEEPING" => pc[p] \in {"wait_sched", "wait_resume"}
          /\ state[p] # "UNINIT"
          /\ wait_state[p] = WT_CHILD <=> state[p] = "SLEEPING"
      BY DEF Inv, PcState
    <2>2. CASE state'[p] = state[p] /\ wait_state'[p] = wait_state[p]
      BY <1>1, <2>1, <2>2
    <2>3. CASE state[p] = "SLEEPING" /\ state'[p] = "RUNNABLE" /\ wait_state'[p] = 0
      <3>1. p # current
        BY <2>1, <2>3
      <3> QED  BY <1>1, <2>1, <2>3, <3>1 DEF WT_CHILD
    <2> QED  BY <1>2, <2>2, <2>3
  <1>5. OffCpu'
    BY <1>1, <1>2 DEF Inv, OffCpu
  <1>6. OnCpu'
    <2>1. state'[current] = state[current]
      BY <1>1, <1>2 DEF Inv, PcState
    <2> QED  BY <1>1, <1>2, <2>1 DEF Inv, OnCpu
  <1>7. KernelThreads'
    BY <1>1, <1>2, IdleAssumption, ProcsAssumption DEF Inv, KernelThreads
  <1>8. Counted'
    <2>1. linked \subseteq Procs
      BY DEF Inv, TypeOK
    <2> QED  BY <1>1, <1>2, <2>1 DEF Inv, Counted, CountExact
  <1> QED  BY <1>2, <1>3, <1>4, <1>5, <1>6, <1>7, <1>8 DEF Inv

----------------------------------------------------------------------------
(* The actions that change what a process is.                              *)

\* The new process is known to its parent only, which holds the CPU.
LEMMA ForkAllocInv ==
    ASSUME Inv, NEW p \in Procs, NEW c \in Procs, NEW g \in HeapGrowth,
           ForkAlloc(p, c, g)
    PROVE  Inv'
  <1> USE IdleAssumption, SliceAssumption, ProcsAssumption, PagesAssumption
      DEF ExitPcs, OffCpuPcs
  <1>1. /\ p = current
        /\ pc[p] \in {"user", "init_main"}
        /\ state[p] = "RUNNABLE"
        /\ state[c] = "FREE"
        /\ c \notin {p, idleproc, initproc}
    BY DEF ForkAlloc, ForkCall, At, Inv, OnCpu, KernelThreads
  <1>2. TypeOK
    BY DEF Inv
  <1>3. /\ UNCHANGED <<current, run_list, linked, nr_process, wait_pid, fl_if, panic>>
        /\ state' = [state EXCEPT ![c] = "UNINIT"]
        /\ wait_state' = [wait_state EXCEPT ![c] = 0]
        /\ parent' = [parent EXCEPT ![c] = p]
        /\ proc' = [proc EXCEPT ![p] = c]
        /\ pc' = [pc EXCEPT ![p] = "fork_link",
                            ![c] = IF p = initproc THEN "kexec" ELSE "user"]
    BY DEF ForkAlloc
  <1>4. /\ \A q \in Procs : state'[q] = IF q = c THEN "UNINIT" ELSE state[q]
        /\ \A q \in Procs : wait_state'[q] = IF q = c THEN 0 ELSE wait_state[q]
        /\ \A q \in Procs : parent'[q] = IF q = c THEN p ELSE parent[q]
        /\ pc'[p] = "fork_link"
        /\ pc'[c] \in {"kexec", "user"}
        /\ \A q \in Procs \ {p, c} : pc'[q] = pc[q]
        /\ proc'[p] = c
    BY <1>1, <1>2, <1>3 DEF TypeOK
  <1>5. TypeOK'
    <2>1. /\ nr_free' \in Nat
          /\ heap' \in Nat
          /\ mm' \subseteq Procs
          /\ kstack' \subseteq Procs
      BY <1>2 DEF ForkAlloc, HeapGrowth, CopyPages, TypeOK
    <2>2. /\ state' \in [Procs -> ProcStates]
          /\ wait_state' \in [Procs -> {0, WT_CHILD}]
          /\ parent' \in [Procs -> Procs \cup {NULL}]
          /\ proc' \in [Procs -> Procs \cup {NULL}]
          /\ pc' \in [Procs -> Labels]
      BY <1>2, <1>3 DEF TypeOK, ProcStates, Labels
    <2>3. /\ time_slice' \in [Procs -> 0 .. MAX_TIME_SLICE]
          /\ need_resched' \in [Procs -> BOOLEAN]
          /\ exiting' \in [Procs -> BOOLEAN]
      BY <1>2 DEF ForkAlloc, TypeOK
    <2> QED  BY <1>2, <1>3, <2>1, <2>2, <2>3 DEF TypeOK
  <1>6. RunQueueExact'
    BY <1>1, <1>3, <1>4 DEF Inv, RunQueueExact, Queued
  <1>7. PcState'
    <2> SUFFICES ASSUME NEW q \in Procs
                 PROVE  /\ state'[q] = "FREE" <=> pc'[q] = "none"
                        /\ state'[q] = "ZOMBIE" <=> pc'[q] \in ExitPcs
                        /\ state'[q] = "SLEEPING" => pc'[q] \in {"wait_sched", "wait_resume"}
                        /\ state'[q] = "UNINIT" => q = c
                        /\ wait_state'[q] = WT_CHILD <=> state'[q] = "SLEEPING"
      BY <1>1, <1>3, <1>4 DEF PcState
    <2>1. /\ state[q] = "FREE" <=> pc[q] = "none"
          /\ state[q] = "ZOMBIE" <=> pc[q] \in ExitPcs
          /\ state[q] = "SLEEPING" => pc[q] \in {"wait_sched", "wait_resume"}
          /\ state[q] # "UNINIT"
          /\ wait_state[q] = WT_CHILD <=> state[q] = "SLEEPING"
      BY <1>1 DEF Inv, PcState
    <2>2. CASE q = c
      BY <1>4, <2>2 DEF WT_CHILD
    <2>3. CASE q = p
      BY <1>1, <1>4, <2>1, <2>3
    <2>4. CASE q \notin {p, c}
      BY <1>4, <2>1, <2>4
    <2> QED  BY <2>2, <2>3, <2>4
  <1>8. OffCpu'
    BY <1>1, <1>3, <1>4 DEF Inv, OffCpu
  <1>9. OnCpu'
    BY <1>1, <1>3, <1>4 DEF OnCpu
  <1>10. KernelThreads'
    BY <1>1, <1>4 DEF Inv, KernelThreads
  <1>11. Parents'
    BY <1>4 DEF Inv, Parents
  <1>12. Counted'
    <2>1. linked \subseteq Procs /\ c \notin linked
      BY <1>1, <1>2 DEF Inv, Counted, TypeOK
    <2> QED  BY <1>1, <1>3, <1>4, <2>1 DEF Inv, Counted, CountExact
  <1>13. NoLostWakeup'
    <2> SUFFICES ASSUME NEW q \in Procs, state'[q] = "SLEEPING",
                        NEW z \in Scanned(q)', state'[z] = "ZOMBIE"
                 PROVE  FALSE
      BY DEF NoLostWakeup
    <2>1. linked \subseteq Procs
      BY <1>2 DEF TypeOK
    <2>2. z \in Procs
      BY <1>3, <2>1 DEF Scanned, Children, find_proc
    <2>3. z # c /\ state[z] = "ZOMBIE" /\ state[q] = "SLEEPING"
      BY <1>4, <2>2
    <2>4. z \in Scanned(q)
      BY <1>3, <1>4, <2>1, <2>2, <2>3 DEF Scanned, Children, find_proc
    <2> QED  BY <1>1, <2>3, <2>4 DEF Inv, NoLostWakeup
  <1> QED  BY <1>5, <1>6, <1>7, <1>8, <1>9, <1>10, <1>11, <1>12, <1>13 DEF Inv

\* The new process is counted when it is linked.
LEMMA ForkLinkInv ==
    ASSUME Inv, NEW p \in Procs, ForkLink(p)
    PROVE  Inv'
  <1> USE DEF ExitPcs, OffCpuPcs
  <1> DEFINE c == proc[p]
  <1>1. TypeOK
    BY DEF Inv
  <1>2. /\ p = current
        /\ pc[p] = "fork_link"
        /\ linked' = linked \cup {c}
        /\ nr_process' = nr_process + 1
        /\ pc' = [pc EXCEPT ![p] = "fork_wake"]
        /\ UNCHANGED <<schedVars, parent, memVars, proc, wait_pid, exiting, fl_if, panic>>
    BY DEF ForkLink, At, Goto
  <1>3. /\ state[p] = "RUNNABLE"
        /\ c \in Procs
        /\ state[c] = "UNINIT"
        /\ c \notin linked
        /\ c # p
    BY <1>2 DEF Inv, OnCpu, Counted
  <1>4. \A q \in Procs : pc'[q] = IF q = p THEN "fork_wake" ELSE pc[q]
    BY <1>1, <1>2 DEF TypeOK
  <1>5. TypeOK'
    BY <1>1, <1>2, <1>3 DEF TypeOK, schedVars, memVars, Labels
  <1>6. RunQueueExact'
    BY <1>2 DEF Inv, RunQueueExact, Queued, schedVars
  <1>7. PcState' /\ OffCpu' /\ OnCpu' /\ KernelThreads' /\ Parents'
    <2>1. PcState'
      BY <1>2, <1>3, <1>4 DEF Inv, PcState, schedVars
    <2>2. OffCpu'
      BY <1>2, <1>4 DEF Inv, OffCpu, schedVars
    <2>3. OnCpu'
      BY <1>2, <1>3, <1>4 DEF OnCpu, schedVars
    <2>4. KernelThreads'
      BY <1>2, <1>4 DEF Inv, KernelThreads, schedVars
    <2>5. Parents'
      BY <1>2 DEF Inv, Parents, schedVars
    <2> QED  BY <2>1, <2>2, <2>3, <2>4, <2>5
  <1>8. Counted'
    <2>1. IsFiniteSet(linked') /\ Cardinality(linked') = Cardinality(linked) + 1
      BY <1>2, <1>3, FS_AddElement DEF Inv, Counted
    <2>2. Cardinality(linked) \in Nat
      BY FS_CardinalityType DEF Inv, Counted
    <2>3. CountExact'
      BY <1>2, <2>1, <2>2 DEF Inv, Counted, CountExact
    <2>4. pc'[current'] # "fork_link"
      BY <1>2, <1>4 DEF schedVars
    <2>5. \A q \in linked' : state'[q] # "FREE"
      BY <1>2, <1>3 DEF Inv, Counted, schedVars
    <2> QED  BY <2>1, <2>3, <2>4, <2>5 DEF Counted
  <1>9. NoLostWakeup'
    <2> SUFFICES ASSUME NEW q \in Procs, state[q] = "SLEEPING",
                        NEW z \in Scanned(q)', state[z] = "ZOMBIE"
                 PROVE  FALSE
      BY <1>2 DEF NoLostWakeup, schedVars
    <2>1. z # c
      BY <1>3
    <2>2. z \in Scanned(q)
      BY <1>2, <2>1 DEF Scanned, Children, find_proc
    <2> QED  BY <1>2, <1>3, <2>2 DEF Inv, NoLostWakeup
  <1> QED  BY <1>5, <1>6, <1>7, <1>8, <1>9 DEF Inv

\* The new process becomes runnable and is queued.
LEMMA ForkWakeInv ==
    ASSUME Inv, NEW p \in Procs, ForkWake(p)
    PROVE  Inv'
  <1> USE DEF ExitPcs, OffCpuPcs
  <1> DEFINE c == proc[p]
  <1>1. TypeOK
    BY DEF Inv
  <1>2. /\ p = current
        /\ pc[p] = "fork_wake"
        /\ wakeup_proc(c)
        /\ proc' = [proc EXCEPT ![p] = NULL]
        /\ pc' = [pc EXCEPT ![p] = AfterFork(p)]
        /\ UNCHANGED <<treeVars, memVars, wait_pid, exiting, fl_if, panic>>
    BY DEF ForkWake, At, Goto
  <1>3. /\ state[p] = "RUNNABLE"
        /\ c \in Procs
        /\ state[c] = "UNINIT"
        /\ c \notin {p, idleproc, initproc}
        /\ wait_state[c] = 0
    BY <1>1, <1>2 DEF Inv, OnCpu, KernelThreads, PcState, TypeOK
  <1>4. /\ UNCHANGED <<current, need_resched>>
        /\ state' = [state EXCEPT ![c] = "RUNNABLE"]
        /\ wait_state' = [wait_state EXCEPT ![c] = 0]
        /\ run_list' \in Seq(Procs)
        /\ time_slice' \in [Procs -> 0 .. MAX_TIME_SLICE]
        /\ RunQueueExact'
    BY <1>2, <1>3, WakeupLemma DEF Inv
  <1>5. /\ AfterFork(p) \in {"wait", "ret"}
        /\ \A q \in Procs : pc'[q] = IF q = p THEN AfterFork(p) ELSE pc[q]
        /\ \A q \in Procs : state'[q] = IF q = c THEN "RUNNABLE" ELSE state[q]
        /\ \A q \in Procs : wait_state'[q] = wait_state[q]
    BY <1>1, <1>2, <1>3, <1>4 DEF TypeOK, AfterFork
  <1> HIDE DEF c
  <1>6. TypeOK'
    BY <1>1, <1>2, <1>4, <1>5 DEF TypeOK, treeVars, memVars, Labels, ProcStates
  <1>7. PcState'
    <2>1. c \in Procs /\ \A q \in Procs : state[q] = "UNINIT" => q = c
      BY <1>2, <1>3 DEF Inv, PcState, c
    <2> QED  BY <1>2, <1>3, <1>5, <2>1 DEF Inv, PcState, WT_CHILD
  <1>8. OffCpu'
    BY <1>2, <1>4, <1>5 DEF Inv, OffCpu
  <1>9. OnCpu'
    BY <1>2, <1>3, <1>4, <1>5 DEF OnCpu
  <1>10. KernelThreads' /\ Parents'
    BY <1>2, <1>3, <1>4, <1>5, ProcsAssumption, IdleAssumption
       DEF Inv, KernelThreads, Parents, treeVars
  <1>11. Counted'
    <2>1. linked \subseteq Procs
      BY <1>1 DEF TypeOK
    <2> QED  BY <1>2, <1>4, <1>5, <2>1 DEF Inv, Counted, CountExact, treeVars
  <1>12. NoLostWakeup'
    <2> SUFFICES ASSUME NEW q \in Procs, state'[q] = "SLEEPING",
                        NEW z \in Scanned(q)', state'[z] = "ZOMBIE"
                 PROVE  FALSE
      BY DEF NoLostWakeup
    <2>1. z \in Scanned(q) /\ z \in Procs
      BY <1>1, <1>2 DEF Scanned, Children, find_proc, treeVars, TypeOK
    <2>2. state[q] = "SLEEPING" /\ state[z] = "ZOMBIE"
      BY <1>5, <2>1
    <2> QED  BY <1>2, <1>3, <2>1, <2>2 DEF Inv, NoLostWakeup
  <1> QED  BY <1>4, <1>6, <1>7, <1>8, <1>9, <1>10, <1>11, <1>12 DEF Inv

\* A zombie that do_wait finds is still there when it is reaped.
LEMMA WaitFindInv ==
    ASSUME Inv, NEW p \in Procs, NEW z \in Procs, WaitFind(p, z)
    PROVE  Inv'
  <1> USE DEF ExitPcs, OffCpuPcs
  <1>1. TypeOK
    BY DEF Inv
  <1>2. /\ p = current
        /\ pc[p] = "wait"
        /\ z \in linked
        /\ state[z] = "ZOMBIE"
        /\ proc' = [proc EXCEPT ![p] = z]
        /\ pc' = [pc EXCEPT ![p] = "wait_found"]
        /\ UNCHANGED <<schedVars, treeVars, memVars, wait_pid, exiting, fl_if, panic>>
    BY DEF WaitFind, At, Goto, Scanned, Children, find_proc
  <1>3. /\ state[p] = "RUNNABLE"
        /\ \A q \in Procs : pc'[q] = IF q = p THEN "wait_found" ELSE pc[q]
        /\ proc'[p] = z
    BY <1>1, <1>2 DEF Inv, OnCpu, TypeOK
  <1>4. TypeOK'
    BY <1>1, <1>2 DEF TypeOK, schedVars, treeVars, memVars, Labels
  <1>5. RunQueueExact'
    BY <1>2 DEF Inv, RunQueueExact, Queued, schedVars
  <1>6. PcState'
    BY <1>2, <1>3 DEF Inv, PcState, schedVars
  <1>7. OffCpu'
    BY <1>2, <1>3 DEF Inv, OffCpu, schedVars
  <1>8. OnCpu'
    BY <1>2, <1>3 DEF OnCpu, schedVars, treeVars
  <1>9. KernelThreads' /\ Parents' /\ Counted'
    BY <1>2, <1>3 DEF Inv, KernelThreads, Parents, Counted, CountExact, schedVars, treeVars
  <1>10. NoLostWakeup'
    BY <1>2, <1>3 DEF Inv, NoLostWakeup, Scanned, Children, find_proc, schedVars, treeVars
  <1> QED  BY <1>4, <1>5, <1>6, <1>7, <1>8, <1>9, <1>10 DEF Inv

\* The scan and the sleep are one step: no child becomes a zombie in between.
LEMMA WaitSleepInv ==
    ASSUME Inv, NEW p \in Procs, WaitSleep(p)
    PROVE  Inv'
  <1> USE DEF ExitPcs, OffCpuPcs, treeVars, memVars
  <1>1. TypeOK
    BY DEF Inv
  <1>2. /\ p = current
        /\ pc[p] = "wait"
        /\ \A q \in Scanned(p) : state[q] # "ZOMBIE"
        /\ state' = [state EXCEPT ![p] = "SLEEPING"]
        /\ wait_state' = [wait_state EXCEPT ![p] = WT_CHILD]
        /\ pc' = [pc EXCEPT ![p] = "wait_sched"]
        /\ UNCHANGED <<current, run_list, time_slice, need_resched, treeVars,
                       memVars, proc, wait_pid, exiting, fl_if, panic>>
    BY DEF WaitSleep, At, Goto
  <1>3. /\ state[p] = "RUNNABLE"
        /\ p # idleproc
        /\ \A q \in Procs : pc'[q] = IF q = p THEN "wait_sched" ELSE pc[q]
        /\ \A q \in Procs : state'[q] = IF q = p THEN "SLEEPING" ELSE state[q]
        /\ \A q \in Procs : wait_state'[q] = IF q = p THEN WT_CHILD ELSE wait_state[q]
    BY <1>1, <1>2 DEF Inv, OnCpu, KernelThreads, TypeOK
  <1>4. TypeOK'
    BY <1>1, <1>2 DEF TypeOK, Labels, ProcStates
  <1>5. RunQueueExact'
    BY <1>2, <1>3 DEF Inv, RunQueueExact, Queued
  <1>6. PcState'
    BY <1>2, <1>3 DEF Inv, PcState
  <1>7. OffCpu'
    BY <1>2, <1>3 DEF Inv, OffCpu
  <1>8. OnCpu'
    BY <1>2, <1>3 DEF OnCpu
  <1>9. KernelThreads' /\ Parents' /\ Counted'
    <2>1. linked \subseteq Procs
      BY <1>1 DEF TypeOK
    <2> QED  BY <1>2, <1>3, <2>1, ProcsAssumption, IdleAssumption
             DEF Inv, KernelThreads, Parents, Counted, CountExact
  <1>10. NoLostWakeup'
    <2> SUFFICES ASSUME NEW q \in Procs, state'[q] = "SLEEPING",
                        NEW z \in Scanned(q)', state'[z] = "ZOMBIE"
                 PROVE  FALSE
      BY DEF NoLostWakeup
    <2>1. z \in Scanned(q) /\ z \in Procs
      BY <1>1, <1>2 DEF Scanned, Children, find_proc, TypeOK
    <2>2. state[z] = "ZOMBIE" /\ z # p
      BY <1>3, <2>1
    <2>3. q # p /\ state[q] = "SLEEPING"
      BY <1>2, <1>3, <2>1, <2>2
    <2> QED  BY <1>2, <2>1, <2>2, <2>3 DEF Inv, NoLostWakeup
  <1> QED  BY <1>4, <1>5, <1>6, <1>7, <1>8, <1>9, <1>10 DEF Inv

\* The zombie, which has left the CPU for good, is freed and counted out.
LEMMA WaitReapInv ==
    ASSUME Inv, NEW p \in Procs, WaitReap(p)
    PROVE  Inv'
  <1> USE DEF ExitPcs, OffCpuPcs
  <1> DEFINE z == proc[p]
  <1>1. TypeOK
    BY DEF Inv
  <1>2. /\ p = current
        /\ pc[p] = "wait_found"
        /\ linked' = linked \ {z}
        /\ nr_process' = nr_process - 1
        /\ state' = [state EXCEPT ![z] = "FREE"]
        /\ parent' = [parent EXCEPT ![z] = NULL]
        /\ proc' = [proc EXCEPT ![p] = NULL]
        /\ wait_pid' = [wait_pid EXCEPT ![p] = NULL]
        /\ pc' = [pc EXCEPT ![p] = AfterReap(p), ![z] = "none"]
        /\ UNCHANGED <<wait_state, current, run_list, mm, heap, fl_if, panic>>
    BY DEF WaitReap, At
  <1>3. /\ state[p] = "RUNNABLE"
        /\ z \in linked
        /\ z \in Procs
        /\ state[z] = "ZOMBIE"
        /\ z \notin {p, idleproc, initproc}
    BY <1>1, <1>2 DEF Inv, OnCpu, KernelThreads, TypeOK
  <1>4. /\ IsFiniteSet(linked')
        /\ Cardinality(linked') = Cardinality(linked) - 1
        /\ Cardinality(linked) \in Nat
        /\ Cardinality(linked') \in Nat
        /\ nr_process = Cardinality(linked) + 1
    BY <1>2, <1>3, FS_RemoveElement, FS_CardinalityType DEF Inv, Counted, CountExact
  <1>5. TypeOK'
    <2>1. nr_process' \in Nat
      BY <1>2, <1>4
    <2>2. /\ nr_free' \in Nat
          /\ kstack' \subseteq Procs
          /\ time_slice' \in [Procs -> 0 .. MAX_TIME_SLICE]
          /\ need_resched' \in [Procs -> BOOLEAN]
          /\ exiting' \in [Procs -> BOOLEAN]
      <3>1. /\ kstack' = kstack \ {z}
            /\ nr_free' = nr_free + KSTACKPAGE
            /\ time_slice' = [time_slice EXCEPT ![z] = 0]
            /\ need_resched' = [need_resched EXCEPT ![z] = FALSE]
            /\ exiting' = [exiting EXCEPT ![z] = FALSE]
        BY DEF WaitReap
      <3>2. nr_free' \in Nat /\ kstack' \subseteq Procs
        BY <1>1, <3>1, PagesAssumption DEF TypeOK
      <3>3. time_slice' \in [Procs -> 0 .. MAX_TIME_SLICE]
        <4>1. 0 \in 0 .. MAX_TIME_SLICE
          BY SliceAssumption
        <4>2. time_slice \in [Procs -> 0 .. MAX_TIME_SLICE]
          BY <1>1 DEF TypeOK
        <4> HIDE DEF z
        <4> QED  BY <3>1, <4>1, <4>2
      <3>4. need_resched' \in [Procs -> BOOLEAN] /\ exiting' \in [Procs -> BOOLEAN]
        BY <1>1, <3>1 DEF TypeOK
      <3> QED  BY <3>2, <3>3, <3>4
    <2>3. /\ state' \in [Procs -> ProcStates]
          /\ parent' \in [Procs -> Procs \cup {NULL}]
          /\ proc' \in [Procs -> Procs \cup {NULL}]
          /\ wait_pid' \in [Procs -> Procs \cup {NULL}]
          /\ pc' \in [Procs -> Labels]
          /\ linked' \subseteq Procs
      BY <1>1, <1>2 DEF TypeOK, ProcStates, Labels, AfterReap
    <2> QED  BY <1>1, <1>2, <2>1, <2>2, <2>3 DEF TypeOK
  <1>6. /\ \A q \in Procs : state'[q] = IF q = z THEN "FREE" ELSE state[q]
        /\ \A q \in Procs : parent'[q] = IF q = z THEN NULL ELSE parent[q]
        /\ \A q \in Procs \ {p} : wait_pid'[q] = wait_pid[q]
        /\ AfterReap(p) \in {"init_sched", "ret"}
        /\ pc'[p] = AfterReap(p)
        /\ pc'[z] = "none"
        /\ \A q \in Procs \ {p, z} : pc'[q] = pc[q]
    BY <1>1, <1>2, <1>3 DEF TypeOK, AfterReap
  <1> HIDE DEF z
  <1>7. RunQueueExact'
    BY <1>2, <1>3, <1>6 DEF Inv, RunQueueExact, Queued
  <1>8. PcState'
    <2> SUFFICES ASSUME NEW q \in Procs
                 PROVE  /\ state'[q] = "FREE" <=> pc'[q] = "none"
                        /\ state'[q] = "ZOMBIE" <=> pc'[q] \in ExitPcs
                        /\ state'[q] = "SLEEPING" => pc'[q] \in {"wait_sched", "wait_resume"}
                        /\ state'[q] # "UNINIT"
                        /\ wait_state'[q] = WT_CHILD <=> state'[q] = "SLEEPING"
      BY DEF PcState
    <2>1. /\ state[q] = "FREE" <=> pc[q] = "none"
          /\ state[q] = "ZOMBIE" <=> pc[q] \in ExitPcs
          /\ state[q] = "SLEEPING" => pc[q] \in {"wait_sched", "wait_resume"}
          /\ state[q] # "UNINIT"
          /\ wait_state[q] = WT_CHILD <=> state[q] = "SLEEPING"
      BY <1>2 DEF Inv, PcState
    <2>2. CASE q = z
      BY <1>2, <1>3, <1>6, <2>1, <2>2
    <2>3. CASE q = p
      BY <1>2, <1>3, <1>6, <2>1, <2>3
    <2>4. CASE q \notin {p, z}
      BY <1>2, <1>6, <2>1, <2>4
    <2> QED  BY <2>2, <2>3, <2>4
  <1>9. OffCpu'
    BY <1>2, <1>3, <1>6 DEF Inv, OffCpu
  <1>10. OnCpu'
    BY <1>2, <1>3, <1>6 DEF OnCpu
  <1>11. KernelThreads' /\ Parents'
    <2>1. KernelThreads'
      <3>1. p # idleproc
        BY <1>2, IdleAssumption DEF Inv, KernelThreads
      <3>2. ASSUME NEW q \in Procs PROVE pc'[q] = "idle" <=> q = idleproc
        <4>1. pc[q] = "idle" <=> q = idleproc
          BY DEF Inv, KernelThreads
        <4>2. CASE q \in {p, z}
          BY <1>3, <1>6, <3>1, <4>2
        <4>3. CASE q \notin {p, z}
          BY <1>6, <4>1, <4>3
        <4> QED  BY <4>2, <4>3
      <3>3. state'[idleproc] = "RUNNABLE" /\ state'[initproc] \in {"RUNNABLE", "SLEEPING"}
        BY <1>3, <1>6, ProcsAssumption, IdleAssumption DEF Inv, KernelThreads
      <3> QED  BY <3>2, <3>3 DEF KernelThreads
    <2>2. Parents'
      BY <1>6 DEF Inv, Parents
    <2> QED  BY <2>1, <2>2
  <1>12. Counted'
    <2>1. CountExact'
      BY <1>2, <1>4 DEF CountExact
    <2>2. \A q \in linked' : state'[q] # "FREE"
      BY <1>1, <1>2, <1>6 DEF Inv, Counted, TypeOK
    <2>3. pc'[current'] # "fork_link"
      BY <1>2, <1>6
    <2> QED  BY <1>4, <2>1, <2>2, <2>3 DEF Counted
  <1>13. NoLostWakeup'
    <2> SUFFICES ASSUME NEW q \in Procs, state'[q] = "SLEEPING",
                        NEW y \in Scanned(q)', state'[y] = "ZOMBIE"
                 PROVE  FALSE
      BY DEF NoLostWakeup
    <2>1. q \notin {p, z} /\ state[q] = "SLEEPING"
      BY <1>3, <1>6
    <2>2. y \in Procs
      BY <1>1, <1>2 DEF Scanned, Children, find_proc, TypeOK
    <2>3. y # z /\ state[y] = "ZOMBIE"
      BY <1>6, <2>2
    <2>4. y \in Scanned(q)
      BY <1>2, <1>6, <2>1, <2>2, <2>3 DEF Scanned, Children, find_proc
    <2> QED  BY <1>2, <1>3, <2>1, <2>3, <2>4 DEF Inv, NoLostWakeup
  <1> QED  BY <1>5, <1>7, <1>8, <1>9, <1>10, <1>11, <1>12, <1>13 DEF Inv

\* A process becomes a zombie just before it notifies its parent.
LEMMA ExitZombieInv ==
    ASSUME Inv, NEW p \in Procs, ExitZombie(p)
    PROVE  Inv'
  <1> USE DEF ExitPcs, OffCpuPcs, treeVars
  <1>1. TypeOK
    BY DEF Inv
  <1>2. /\ p = current
        /\ p # initproc
        /\ pc[p] = "exit"
        /\ mm' = mm \ {p}
        /\ nr_free' = nr_free + CopyPages(p)
        /\ state' = [state EXCEPT ![p] = "ZOMBIE"]
        /\ pc' = [pc EXCEPT ![p] = "exit_notify"]
        /\ UNCHANGED <<wait_state, current, run_list, time_slice, need_resched, treeVars,
                       kstack, heap, proc, wait_pid, exiting, fl_if, panic>>
    BY DEF ExitZombie, At, Goto
  <1>3. /\ state[p] = "RUNNABLE"
        /\ p # idleproc
        /\ \A q \in Procs : pc'[q] = IF q = p THEN "exit_notify" ELSE pc[q]
        /\ \A q \in Procs : state'[q] = IF q = p THEN "ZOMBIE" ELSE state[q]
    BY <1>1, <1>2 DEF Inv, OnCpu, KernelThreads, TypeOK
  <1>4. TypeOK'
    <2>1. nr_free' \in Nat
      BY <1>1, <1>2, PagesAssumption DEF TypeOK, CopyPages
    <2> QED  BY <1>1, <1>2, <2>1 DEF TypeOK, Labels, ProcStates
  <1>5. RunQueueExact'
    BY <1>2, <1>3 DEF Inv, RunQueueExact, Queued
  <1>6. PcState'
    BY <1>2, <1>3 DEF Inv, PcState
  <1>7. OffCpu'
    BY <1>2, <1>3 DEF Inv, OffCpu
  <1>8. OnCpu'
    BY <1>2, <1>3 DEF OnCpu
  <1>9. KernelThreads'
    BY <1>2, <1>3, ProcsAssumption, IdleAssumption DEF Inv, KernelThreads
  <1>10. Parents' /\ Counted'
    <2>1. linked \subseteq Procs
      BY <1>1 DEF TypeOK
    <2> QED  BY <1>2, <1>3, <2>1 DEF Inv, Parents, Counted, CountExact
  <1>11. NoLostWakeup'
    <2> SUFFICES ASSUME NEW q \in Procs, state'[q] = "SLEEPING",
                        NEW z \in Scanned(q)', state'[z] = "ZOMBIE"
                 PROVE  current' = z /\ pc'[z] = "exit_notify"
      BY DEF NoLostWakeup
    <2>1. z \in Scanned(q) /\ z \in Procs
      BY <1>1, <1>2 DEF Scanned, Children, find_proc, TypeOK
    <2>2. CASE z = p
      BY <1>2, <1>3, <2>2
    <2>3. CASE z # p
      <3>1. state[z] = "ZOMBIE" /\ state[q] = "SLEEPING"
        BY <1>3, <2>1, <2>3
      <3> QED  BY <1>2, <2>1, <2>3, <3>1 DEF Inv, NoLostWakeup
    <2> QED  BY <2>2, <2>3
  <1> QED  BY <1>4, <1>5, <1>6, <1>7, <1>8, <1>9, <1>10, <1>11 DEF Inv

----------------------------------------------------------------------------
(* The steps of do_exit that wake a waiting process.                       *)

\* Whoever waits for the zombie is woken before anyone else runs.
LEMMA ExitNotifyInv ==
    ASSUME Inv, NEW p \in Procs, ExitNotify(p)
    PROVE  Inv'
  <1> DEFINE q == parent[p]
  <1>1. TypeOK
    BY DEF Inv
  <1>2. /\ p = current
        /\ pc[p] = "exit_notify"
        /\ IF wait_state[q] = WT_CHILD THEN wakeup_proc(q) ELSE UNCHANGED schedVars
        /\ pc' = [pc EXCEPT ![p] = "exit_reparent"]
        /\ UNCHANGED <<treeVars, memVars, proc, wait_pid, exiting, fl_if, panic>>
    BY DEF ExitNotify, At, Goto
  <1>3. state[p] = "ZOMBIE" /\ p # idleproc /\ q \in Procs
    BY <1>2 DEF Inv, PcState, ExitPcs, KernelThreads, Parents
  <1>4. \/ UNCHANGED schedVars /\ state[q] # "SLEEPING"
        \/ state[q] = "SLEEPING" /\ wakeup_proc(q)
    BY <1>2, <1>3 DEF Inv, PcState
  <1>5. /\ \A r \in Procs : state'[r] = state[r] \/ state'[r] = "RUNNABLE"
        /\ state'[q] # "SLEEPING"
        /\ current' = current
    BY <1>1, <1>3, <1>4 DEF wakeup_proc, schedVars, TypeOK
  <1> HIDE DEF q
  <1>6. Parents'
    <2>1. \A r \in Procs : state'[r] # "FREE" /\ state[r] = "FREE" => r = q
      BY <1>1, <1>3, <1>4 DEF wakeup_proc, schedVars, TypeOK
    <2>2. \A r \in Procs : state'[r] # "FREE" => state[r] # "FREE"
      BY <1>4, <2>1 DEF schedVars
    <2> QED  BY <1>2, <2>2 DEF Inv, Parents, treeVars
  <1>7. NoLostWakeup'
    <2> SUFFICES ASSUME NEW r \in Procs, state'[r] = "SLEEPING",
                        NEW z \in Scanned(r)', state'[z] = "ZOMBIE"
                 PROVE  FALSE
      BY DEF NoLostWakeup
    <2>1. z \in Scanned(r) /\ z \in Procs
      BY <1>1, <1>2 DEF Scanned, Children, find_proc, treeVars, TypeOK
    <2>2. state[r] = "SLEEPING" /\ state[z] = "ZOMBIE"
      BY <1>5, <2>1
    <2>3. z = p
      BY <1>2, <2>1, <2>2 DEF Inv, NoLostWakeup
    <2>4. r = q
      BY <2>1, <2>3 DEF Scanned, Children, q
    <2> QED  BY <1>5, <2>4
  <1>8. exiting' \in [Procs -> BOOLEAN] /\ parent' \in [Procs -> Procs \cup {NULL}]
    BY <1>1, <1>2 DEF TypeOK, treeVars
  <1>9. \/ UNCHANGED schedVars
        \/ \E r \in Procs : state[r] = "SLEEPING" /\ wakeup_proc(r)
    BY <1>3, <1>4
  <1> QED  BY <1>2, <1>6, <1>7, <1>8, <1>9, NotifyStep DEF treeVars

\* initproc is woken when it inherits a zombie that it would sleep on.
LEMMA ExitReparentInv ==
    ASSUME Inv, NEW p \in Procs, ExitReparent(p)
    PROVE  Inv'
  <1> USE ProcsAssumption
  <1>1. TypeOK
    BY DEF Inv
  <1>2. /\ p = current
        /\ pc[p] = "exit_reparent"
        /\ parent' = [q \in Procs |-> IF q \in Children(p) THEN initproc ELSE parent[q]]
        /\ IF /\ \E q \in Children(p) : state[q] = "ZOMBIE"
              /\ wait_state[initproc] = WT_CHILD
           THEN wakeup_proc(initproc)
           ELSE UNCHANGED schedVars
        /\ pc' = [pc EXCEPT ![p] = "exit_sched"]
        /\ UNCHANGED <<linked, nr_process, memVars, proc, wait_pid, exiting, fl_if, panic>>
    BY DEF ExitReparent, At, Goto
  <1>3. state[p] = "ZOMBIE"
    BY <1>2 DEF Inv, PcState, ExitPcs
  <1>4. \/ /\ UNCHANGED schedVars
           /\ (\E q \in Children(p) : state[q] = "ZOMBIE") => state[initproc] # "SLEEPING"
        \/ state[initproc] = "SLEEPING" /\ wakeup_proc(initproc)
    BY <1>2 DEF Inv, PcState
  <1>5. /\ \A r \in Procs : state'[r] = state[r] \/ (state[r] = "SLEEPING" /\ state'[r] = "RUNNABLE")
        /\ state'[initproc] = "SLEEPING" => \A q \in Children(p) : state[q] # "ZOMBIE"
    <2>1. CASE /\ UNCHANGED schedVars
               /\ (\E q \in Children(p) : state[q] = "ZOMBIE") => state[initproc] # "SLEEPING"
      BY <2>1 DEF schedVars
    <2>2. CASE state[initproc] = "SLEEPING" /\ wakeup_proc(initproc)
      <3>1. state' = [state EXCEPT ![initproc] = "RUNNABLE"]
        BY <2>2 DEF wakeup_proc
      <3> QED  BY <1>1, <2>2, <3>1 DEF TypeOK
    <2> QED  BY <1>4, <2>1, <2>2
  <1>6. parent' \in [Procs -> Procs \cup {NULL}]
    BY <1>1, <1>2 DEF TypeOK
  <1>7. Parents'
    BY <1>2, <1>5 DEF Inv, Parents
  <1>8. NoLostWakeup'
    <2> SUFFICES ASSUME NEW r \in Procs, state'[r] = "SLEEPING",
                        NEW z \in Scanned(r)', state'[z] = "ZOMBIE"
                 PROVE  FALSE
      BY DEF NoLostWakeup
    <2>1. z \in Procs /\ z \in linked /\ parent'[z] = r
      BY <1>1, <1>2 DEF Scanned, Children, find_proc, TypeOK
    <2>2. state[r] = "SLEEPING" /\ state[z] = "ZOMBIE"
      BY <1>5, <2>1
    <2>3. CASE z \in Children(p)
      BY <1>2, <1>5, <2>1, <2>2, <2>3
    <2>4. CASE z \notin Children(p)
      <3>1. parent[z] = r
        BY <1>2, <2>1, <2>4
      <3>2. z \in Scanned(r)
        BY <1>2, <2>1, <3>1 DEF Scanned, Children, find_proc
      <3> QED  BY <1>2, <2>2, <3>2 DEF Inv, NoLostWakeup
    <2> QED  BY <2>3, <2>4
  <1>9. exiting' \in [Procs -> BOOLEAN]
    BY <1>1, <1>2 DEF TypeOK
  <1>10. \/ UNCHANGED schedVars
         \/ \E r \in Procs : state[r] = "SLEEPING" /\ wakeup_proc(r)
    BY <1>4
  <1> QED  BY <1>2, <1>6, <1>7, <1>8, <1>9, <1>10, NotifyStep

\* A kill only ends the wait of a sleeping process.
LEMMA SysKillInv ==
    ASSUME Inv, NEW p \in Procs, NEW q \in Procs, SysKill(p, q)
    PROVE  Inv'
  <1>1. TypeOK
    BY DEF Inv
  <1>2. /\ p = current
        /\ pc[p] = "user"
        /\ exiting' = [exiting EXCEPT ![q] = TRUE]
        /\ IF wait_state[q] = WT_CHILD THEN wakeup_proc(q) ELSE UNCHANGED schedVars
        /\ pc' = [pc EXCEPT ![p] = "ret"]
        /\ UNCHANGED <<treeVars, memVars, proc, wait_pid, fl_if, panic>>
    BY DEF SysKill, At, Goto
  <1>3. UNCHANGED schedVars \/ (state[q] = "SLEEPING" /\ wakeup_proc(q))
    <2>1. wait_state[q] = WT_CHILD <=> state[q] = "SLEEPING"
      BY DEF Inv, PcState
    <2> QED  BY <1>2, <2>1, Zenon
  <1>4. \A r \in Procs : state'[r] = state[r] \/ (state[r] = "SLEEPING" /\ state'[r] = "RUNNABLE")
    <2>1. CASE UNCHANGED schedVars
      BY <2>1 DEF schedVars
    <2>2. CASE state[q] = "SLEEPING" /\ wakeup_proc(q)
      <3>1. state' = [state EXCEPT ![q] = "RUNNABLE"]
        BY <2>2 DEF wakeup_proc
      <3> QED  BY <1>1, <2>2, <3>1 DEF TypeOK
    <2> QED  BY <1>3, <2>1, <2>2
  <1>5. Parents'
    BY <1>2, <1>4 DEF Inv, Parents, treeVars
  <1>6. NoLostWakeup'
    <2> SUFFICES ASSUME NEW r \in Procs, state'[r] = "SLEEPING",
                        NEW z \in Scanned(r)', state'[z] = "ZOMBIE"
                 PROVE  FALSE
      BY DEF NoLostWakeup
    <2>1. z \in Scanned(r) /\ z \in Procs
      BY <1>1, <1>2 DEF Scanned, Children, find_proc, treeVars, TypeOK
    <2>2. state[r] = "SLEEPING" /\ state[z] = "ZOMBIE"
      BY <1>4, <2>1
    <2> QED  BY <1>2, <2>1, <2>2 DEF Inv, NoLostWakeup
  <1>7. exiting' \in [Procs -> BOOLEAN]
    BY <1>1, <1>2 DEF TypeOK
  <1>8. parent' \in [Procs -> Procs \cup {NULL}]
    BY <1>1, <1>2 DEF TypeOK, treeVars
  <1>9. \/ UNCHANGED schedVars
        \/ \E r \in Procs : state[r] = "SLEEPING" /\ wakeup_proc(r)
    BY <1>3
  <1> QED  BY <1>2, <1>5, <1>6, <1>7, <1>8, <1>9, NotifyStep DEF treeVars

----------------------------------------------------------------------------
(* The actions that leave the processes as they are.                       *)

\* A panic changes nothing but `panic`.
LEMMA PanicInv ==
    ASSUME Inv, NEW r \in Panics, Panic(r)
    PROVE  Inv'
  <1>1. /\ panic' = r
        /\ UNCHANGED <<schedVars, treeVars, memVars, localVars, exiting, fl_if>>
    BY DEF Panic
  <1>2. TypeOK'
    BY <1>1 DEF Inv, TypeOK, schedVars, treeVars, memVars, localVars
  <1> QED  BY <1>1, <1>2, StayStep DEF schedVars

\* The calls of do_fork that fail.
LEMMA ForkFailsInv ==
    ASSUME Inv, NEW p \in Procs, ForkCall(p), ForkReturnsError(p),
           heap' \in Nat, nr_free' \in Nat
    PROVE  Inv'
  <1>1. CASE p = initproc
    BY <1>1, PanicInv DEF ForkReturnsError, Panics
  <1>2. CASE p # initproc
    <2>1. /\ p = current
          /\ pc[p] \in {"user", "init_main"}
          /\ pc' = [pc EXCEPT ![p] = "ret"]
          /\ UNCHANGED <<schedVars, treeVars, kstack, mm, proc, wait_pid, exiting, fl_if, panic>>
      BY <1>2 DEF ForkReturnsError, ForkCall, At, Goto
    <2>2. TypeOK'
      BY <2>1 DEF Inv, TypeOK, schedVars, treeVars, Labels
    <2> QED  BY <2>1, <2>2, QuietStep DEF PlainPcs, schedVars
  <1> QED  BY <1>1, <1>2

\* The system calls and the returns from do_wait that only go somewhere else.
LEMMA GotoInv ==
    ASSUME Inv, NEW p \in Procs,
           SysExit(p) \/ SysYield(p) \/ SysOther(p) \/ InitReturn(p) \/ UserException(p)
    PROVE  Inv'
  <1>1. TypeOK
    BY DEF Inv
  <1>2. CASE SysExit(p) \/ SysOther(p) \/ InitReturn(p) \/ UserException(p)
    <2>1. PICK l \in {"exit", "ret"} : pc' = [pc EXCEPT ![p] = l]
      BY <1>2 DEF SysExit, SysOther, InitReturn, UserException, Goto
    <2>2. /\ p = current
          /\ pc[p] \in {"user", "init_check"}
          /\ fl_if' \in BOOLEAN
          /\ UNCHANGED <<schedVars, treeVars, memVars, proc, wait_pid, exiting, panic>>
      BY <1>1, <1>2 DEF SysExit, SysOther, InitReturn, UserException, At, TypeOK
    <2>3. TypeOK'
      BY <1>1, <2>1, <2>2 DEF TypeOK, schedVars, treeVars, memVars, Labels
    <2> QED  BY <2>1, <2>2, <2>3, QuietStep DEF PlainPcs, schedVars
  <1>3. CASE SysYield(p)
    <2>1. /\ p = current
          /\ pc[p] = "user"
          /\ pc' = [pc EXCEPT ![p] = "ret"]
          /\ need_resched' = [need_resched EXCEPT ![p] = TRUE]
          /\ UNCHANGED <<state, wait_state, current, run_list, time_slice, treeVars,
                         memVars, proc, wait_pid, exiting, fl_if, panic>>
      BY <1>3 DEF SysYield, At, Goto
    <2>2. TypeOK'
      BY <1>1, <2>1 DEF TypeOK, treeVars, memVars, Labels
    <2> QED  BY <2>1, <2>2, QuietStep DEF PlainPcs
  <1> QED  BY <1>2, <1>3

\* The way into do_wait, and out of it without a child.
LEMMA WaitMovesInv ==
    ASSUME Inv, NEW p \in Procs,
           \/ \E pid \in (Procs \ {idleproc}) \cup {NULL} : SysWait(p, pid)
           \/ WaitResume(p)
           \/ WaitNoChild(p)
    PROVE  Inv'
  <1>1. TypeOK
    BY DEF Inv
  <1>2. /\ p = current
        /\ pc[p] \in {"user", "wait_resume", "wait"}
        /\ UNCHANGED <<schedVars, treeVars, memVars, proc, exiting, fl_if, panic>>
    BY DEF SysWait, WaitResume, WaitNoChild, At
  <1>3. PICK l \in {"wait", "exit", "ret", "init_check"} : pc' = [pc EXCEPT ![p] = l]
    BY DEF SysWait, WaitResume, WaitNoChild, Goto, AfterNoChild
  <1>4. \E v \in Procs \cup {NULL} : wait_pid' = [wait_pid EXCEPT ![p] = v]
    <2>1. wait_pid = [wait_pid EXCEPT ![p] = wait_pid[p]] /\ wait_pid[p] \in Procs \cup {NULL}
      BY <1>1 DEF TypeOK
    <2> QED  BY <2>1 DEF SysWait, WaitResume, WaitNoChild
  <1>5. /\ wait_pid' \in [Procs -> Procs \cup {NULL}]
        /\ \A q \in Procs \ {current} : wait_pid'[q] = wait_pid[q]
    BY <1>1, <1>2, <1>4 DEF TypeOK
  <1>6. TypeOK'
    BY <1>1, <1>2, <1>3, <1>5 DEF TypeOK, schedVars, treeVars, memVars, Labels
  <1> QED  BY <1>2, <1>3, <1>5, <1>6, QuietStep DEF PlainPcs, schedVars

\* The first program: loaded, refused or out of memory.
LEMMA KernelExecInv ==
    ASSUME Inv, NEW p \in Procs, NEW g \in HeapGrowth, KernelExec(p, g)
    PROVE  Inv'
  <1>1. CASE nr_free < g + MmPages
    BY <1>1, PanicInv DEF KernelExec, Panics
  <1>2. CASE ~(nr_free < g + MmPages)
    <2>1. /\ p = current
          /\ pc[p] = "kexec"
          /\ heap' = heap + g
          /\ UNCHANGED <<schedVars, treeVars, kstack, proc, wait_pid, exiting, fl_if, panic>>
          /\ \/ mm' = mm \cup {p} /\ nr_free' = nr_free - g - MmPages
             \/ mm' = mm /\ nr_free' = nr_free - g
      BY <1>2 DEF KernelExec, At
    <2>2. PICK l \in {"user", "exit"} : pc' = [pc EXCEPT ![p] = l]
      BY <1>2 DEF KernelExec, Goto
    <2>3. heap' \in Nat /\ nr_free' \in Nat /\ mm' \subseteq Procs
      BY <1>2, <2>1, PagesAssumption DEF Inv, TypeOK, HeapGrowth
    <2>4. TypeOK'
      BY <2>1, <2>2, <2>3 DEF Inv, TypeOK, schedVars, treeVars, Labels
    <2> QED  BY <2>1, <2>2, <2>4, QuietStep DEF PlainPcs, schedVars
  <1> QED  BY <1>1, <1>2

\* A tick, in user mode or in kernel mode.
LEMMA TickInv ==
    ASSUME Inv, NEW p \in Procs, UserTick(p) \/ KernelTick(p)
    PROVE  Inv'
  <1>1. /\ time_slice' \in [Procs -> 0 .. MAX_TIME_SLICE]
        /\ need_resched' \in [Procs -> BOOLEAN]
    BY TickLemma DEF Inv, UserTick, KernelTick
  <1>2. CASE UserTick(p)
    <2>1. /\ p = current
          /\ pc[p] = "user"
          /\ pc' = [pc EXCEPT ![p] = "ret"]
          /\ fl_if' = FALSE
          /\ UNCHANGED <<state, wait_state, current, run_list, treeVars, memVars,
                         proc, wait_pid, exiting, panic>>
      BY <1>2 DEF UserTick, At, Goto
    <2>2. TypeOK'
      BY <1>1, <2>1 DEF Inv, TypeOK, treeVars, memVars, Labels
    <2> QED  BY <2>1, <2>2, QuietStep DEF PlainPcs
  <1>3. CASE KernelTick(p)
    <2>1. UNCHANGED <<state, wait_state, current, run_list, treeVars, memVars,
                      localVars, exiting, fl_if, panic>>
      BY <1>3 DEF KernelTick
    <2>2. TypeOK'
      BY <1>1, <2>1 DEF Inv, TypeOK, treeVars, memVars, localVars
    <2> QED  BY <2>1, <2>2, StayStep
  <1> QED  BY <1>2, <1>3

\* A page fault, resolved or fatal.
LEMMA UserPageFaultInv ==
    ASSUME Inv, NEW p \in Procs, UserPageFault(p)
    PROVE  Inv'
  <1>1. CASE Panic("page fault")
    BY <1>1, PanicInv DEF Panics
  <1>2. CASE ~Panic("page fault")
    <2>1. /\ p = current
          /\ pc[p] = "user"
          /\ pc' = [pc EXCEPT ![p] = "ret"]
          /\ fl_if' = FALSE
          /\ UNCHANGED <<schedVars, treeVars, memVars, proc, wait_pid, exiting, panic>>
      BY <1>2 DEF UserPageFault, At, Goto
    <2>2. TypeOK'
      BY <2>1 DEF Inv, TypeOK, schedVars, treeVars, memVars, Labels
    <2> QED  BY <2>1, <2>2, QuietStep DEF PlainPcs, schedVars
  <1> QED  BY <1>1, <1>2

\* The calls of schedule(), and the tail of trap() with and without one.
LEMMA SwitchInv ==
    ASSUME Inv, NEW p \in Procs,
           \/ ExitSchedule(p) \/ WaitSchedule(p) \/ InitSchedule(p)
           \/ IdleSchedule(p) \/ TrapReturn(p)
    PROVE  Inv'
  <1>1. TypeOK
    BY DEF Inv
  <1>2. CASE ExitSchedule(p)
    BY <1>2, SwitchStep DEF ExitSchedule, At, Goto
  <1>3. CASE WaitSchedule(p)
    BY <1>1, <1>3, SwitchStep DEF WaitSchedule, At, Goto, TypeOK
  <1>4. CASE InitSchedule(p)
    BY <1>1, <1>4, SwitchStep DEF InitSchedule, At, Goto, TypeOK
  <1>5. CASE IdleSchedule(p)
    <2>1. pc' = [pc EXCEPT ![current] = "idle"]
      BY <1>1, <1>5 DEF IdleSchedule, At, localVars, TypeOK
    <2> QED  BY <1>1, <1>5, <2>1, SwitchStep DEF IdleSchedule, At, localVars, TypeOK
  <1>6. CASE TrapReturn(p)
    <2>1. /\ p = current
          /\ pc[p] = "ret"
          /\ UNCHANGED <<treeVars, memVars, proc, wait_pid, exiting, panic>>
      BY <1>6 DEF TrapReturn, At
    <2>2. CASE /\ schedule
               /\ pc' = [pc EXCEPT ![p] = "user"]
               /\ fl_if' = TRUE
      BY <2>1, <2>2, SwitchStep
    <2>3. CASE /\ UNCHANGED schedVars
               /\ fl_if' \in BOOLEAN
               /\ \E l \in {"exit", "user"} : pc' = [pc EXCEPT ![p] = l]
      <3>1. PICK l \in {"exit", "user"} : pc' = [pc EXCEPT ![p] = l]
        BY <2>3
      <3>2. TypeOK'
        BY <1>1, <2>1, <2>3, <3>1 DEF TypeOK, schedVars, treeVars, memVars, Labels
      <3> QED  BY <2>1, <2>3, <3>1, <3>2, QuietStep DEF PlainPcs, schedVars
    <2>4. fl_if \in BOOLEAN
      BY <1>1 DEF TypeOK
    <2> QED  BY <1>6, <2>2, <2>3, <2>4 DEF TrapReturn, Goto
  <1> QED  BY <1>2, <1>3, <1>4, <1>5, <1>6

----------------------------------------------------------------------------
(* Inv is inductive, and what follows from it.                             *)

\* do_fork, whether it succeeds, fails or stops the kernel.
LEMMA ForkInv ==
    ASSUME Inv, NEW p \in Procs, Fork(p)
    PROVE  Inv'
  <1>1. CASE ForkNoProc(p)
    <2>1. heap' \in Nat /\ nr_free' \in Nat
      BY <1>1 DEF ForkNoProc, Inv, TypeOK
    <2> QED  BY <1>1, <2>1, ForkFailsInv DEF ForkNoProc
  <1>2. ASSUME NEW g \in HeapGrowth, ForkNoStack(p, g) PROVE Inv'
    <2>1. heap' \in Nat /\ nr_free' \in Nat
      BY <1>2 DEF ForkNoStack, HeapGrowth, Inv, TypeOK
    <2> QED  BY <1>2, <2>1, ForkFailsInv DEF ForkNoStack
  <1>3. ASSUME NEW g \in HeapGrowth, ForkOutOfMemory(p, g) PROVE Inv'
    BY <1>3, PanicInv DEF ForkOutOfMemory, Panics
  <1>4. ASSUME NEW c \in Procs, NEW g \in HeapGrowth, ForkAlloc(p, c, g) PROVE Inv'
    BY <1>4, ForkAllocInv
  <1> QED  BY <1>1, <1>2, <1>3, <1>4 DEF Fork

\* Every step of kernel code keeps Inv.
LEMMA KernelStepInv ==
    ASSUME Inv, NEW p \in Procs, KernelStep(p)
    PROVE  Inv'
  <1>1. CASE Fork(p)
    BY <1>1, ForkInv
  <1>2. CASE ForkLink(p)
    BY <1>2, ForkLinkInv
  <1>3. CASE ForkWake(p)
    BY <1>3, ForkWakeInv
  <1>4. CASE \E z \in Procs : WaitFind(p, z)
    BY <1>4, WaitFindInv
  <1>5. CASE WaitSleep(p)
    BY <1>5, WaitSleepInv
  <1>6. CASE WaitResume(p) \/ WaitNoChild(p)
    BY <1>6, WaitMovesInv
  <1>7. CASE WaitReap(p)
    BY <1>7, WaitReapInv
  <1>8. CASE ExitZombie(p)
    BY <1>8, ExitZombieInv
  <1>9. CASE ExitOfInit(p)
    BY <1>9, PanicInv DEF ExitOfInit, Panics
  <1>10. CASE ExitNotify(p)
    BY <1>10, ExitNotifyInv
  <1>11. CASE ExitReparent(p)
    BY <1>11, ExitReparentInv
  <1>12. CASE \E g \in HeapGrowth : KernelExec(p, g)
    BY <1>12, KernelExecInv
  <1>13. CASE InitReturn(p)
    BY <1>13, GotoInv
  <1>14. CASE \/ ExitSchedule(p) \/ WaitSchedule(p) \/ InitSchedule(p)
              \/ IdleSchedule(p) \/ TrapReturn(p)
    BY <1>14, SwitchInv
  <1> QED  BY <1>1, <1>2, <1>3, <1>4, <1>5, <1>6, <1>7, <1>8, <1>9, <1>10, <1>11,
              <1>12, <1>13, <1>14 DEF KernelStep

\* Every system call and fault of user code keeps Inv.
LEMMA UserStepInv ==
    ASSUME Inv, NEW p \in Procs, UserStep(p)
    PROVE  Inv'
  <1>1. CASE Fork(p)
    BY <1>1, ForkInv
  <1>2. CASE \E pid \in (Procs \ {idleproc}) \cup {NULL} : SysWait(p, pid)
    BY <1>2, WaitMovesInv
  <1>3. CASE \E q \in Procs : SysKill(p, q)
    BY <1>3, SysKillInv
  <1>4. CASE SysExit(p) \/ SysYield(p) \/ SysOther(p) \/ UserException(p)
    BY <1>4, GotoInv
  <1>5. CASE UserPageFault(p)
    BY <1>5, UserPageFaultInv
  <1>6. CASE SysUndefined(p)
    BY <1>6, PanicInv DEF SysUndefined, Panics
  <1> QED  BY <1>1, <1>2, <1>3, <1>4, <1>5, <1>6 DEF UserStep, Syscall

\* Every step of the kernel keeps Inv.
LEMMA StepInv == Inv /\ [Next]_vars => Inv'
  <1> SUFFICES ASSUME Inv, [Next]_vars PROVE Inv'
    OBVIOUS
  <1>1. ASSUME NEW p \in Procs, KernelStep(p) PROVE Inv'
    BY <1>1, KernelStepInv
  <1>2. ASSUME NEW p \in Procs, UserStep(p) PROVE Inv'
    BY <1>2, UserStepInv
  <1>3. CASE Tick
    BY <1>3, TickInv DEF Tick
  <1>4. CASE UNCHANGED vars
    <2>1. /\ UNCHANGED <<state, wait_state, current, run_list, treeVars, localVars>>
          /\ UNCHANGED <<time_slice, need_resched, memVars, exiting, fl_if, panic>>
      BY <1>4 DEF vars, schedVars
    <2>2. TypeOK'
      BY <2>1 DEF Inv, TypeOK, treeVars, memVars, localVars
    <2> QED  BY <2>1, <2>2, StayStep
  <1>5. CASE KMonitor
    BY <1>4, <1>5 DEF KMonitor
  <1> QED  BY <1>1, <1>2, <1>3, <1>4, <1>5 DEF Next

\* The whole kernel state keeps the inductive invariant: what each process is,
\* where its kernel code is, and what the queue and the counters say of it.
THEOREM Invariance == Spec => []Inv
  BY InitInv, StepInv, PTL DEF Spec

\* Whatever the processes, the slice and the memory: the kernel state is well
\* typed, so no count of pages or processes goes below zero and no slice is
\* longer than the scheduler's.
THEOREM TypeCorrect == Spec => []TypeOK
  <1>1. Inv => TypeOK
    BY DEF Inv
  <1> QED  BY <1>1, Invariance, PTL

\* The run queue is exact: every runnable process that is off the CPU is queued
\* once, nobody else is.
THEOREM QueueExact == Spec => []RunQueueExact
  <1>1. Inv => RunQueueExact
    BY DEF Inv
  <1> QED  BY <1>1, Invariance, PTL

\* do_exit and do_wait never lose a wake-up, orphans and kills included.
THEOREM NoWakeupLost == Spec => []NoLostWakeup
  <1>1. Inv => NoLostWakeup
    BY DEF Inv
  <1> QED  BY <1>1, Invariance, PTL

\* nr_process is the length of proc_list, plus idleproc.
THEOREM CountCorrect == Spec => []CountExact
  <1>1. Inv => CountExact
    BY DEF Inv, Counted
  <1> QED  BY <1>1, Invariance, PTL

\* No assertion of sched.c or proc.c about sleeping, waking and reaping fails,
\* and do_exit does not return.
THEOREM AssertionsNeverFail == Spec => []AssertionsHold
  <1>1. ASSUME Inv PROVE AssertionsHold
    <2> USE <1>1 DEF ExitPcs, OffCpuPcs
    <2>1. current \in Procs /\ linked \subseteq Procs
      BY DEF Inv, TypeOK
    <2>2. \A p \in Procs : wait_state[p] = WT_CHILD <=> state[p] = "SLEEPING"
      BY DEF Inv, PcState
    <2>3. ASSUME pc[current] \in {"user", "init_main", "fork_link", "fork_wake"}
          PROVE  wait_state[current] = 0
      <3>1. state[current] = "RUNNABLE"
        BY <2>3 DEF Inv, OnCpu
      <3>2. wait_state[current] \in {0, WT_CHILD}
        BY <2>1 DEF Inv, TypeOK
      <3> QED  BY <2>1, <2>2, <3>1, <3>2
    <2>4. pc[current] = "fork_wake" => state[proc[current]] = "UNINIT"
      BY DEF Inv, OnCpu
    <2>5. ASSUME pc[current] = "wait_found"
          PROVE  LET z == proc[current] IN
                 z \in Users /\ pc[z] = "dead" /\ z # current /\ z \in linked
      <3> DEFINE z == proc[current]
      <3>1. state[current] = "RUNNABLE" /\ z \in linked /\ state[z] = "ZOMBIE"
        BY <2>5 DEF Inv, OnCpu
      <3>2. z # current /\ z \in Users
        BY <2>1, <3>1 DEF Inv, KernelThreads, Users
      <3>3. pc[z] = "dead"
        BY <2>1, <3>1, <3>2 DEF Inv, PcState, OffCpu
      <3> QED  BY <3>1, <3>2, <3>3
    <2>6. pc[current] # "dead"
      BY DEF Inv, OnCpu
    <2> QED  BY <2>2, <2>3, <2>4, <2>5, <2>6 DEF AssertionsHold
  <1> QED  BY <1>1, Invariance, PTL

----------------------------------------------------------------------------
(* The second inductive invariant, on top of Inv.                          *)

\* A process is linked from set_links in do_fork to remove_links in do_wait.
LinkedExact ==
    linked = {p \in Procs \ {idleproc} : state[p] \notin {"FREE", "UNINIT"}}
                \cup (IF pc[current] = "fork_wake" THEN {proc[current]} ELSE {})

\* Everyone but initproc hangs below a process that has not yet handed its
\* children over.
Hung ==
    \A p \in linked \ {initproc} :
        /\ parent[p] \in linked
        /\ state[parent[p]] # "UNINIT"
        /\ pc[parent[p]] \notin {"exit_sched", "dead"}

\* There is no cycle: any set of processes has a member whose parent is outside
\* and one without a child inside.
Rooted ==
    \A S \in SUBSET (linked \ {initproc}) :
        S # {} => \E p \in S : parent[p] \notin S

HasLeaf ==
    \A S \in SUBSET linked :
        S # {} => \E p \in S : \A q \in S : parent[q] # p

\* Whom do_fork makes and do_wait finds is a child of the caller.
Own ==
    pc[current] \in {"fork_link", "fork_wake", "wait_found"}
        => parent[proc[current]] = current

\* initproc waits for any child; it is told that none is left only when all
\* have gone, and returns then or when it is killed.
InitThread ==
    /\ parent[initproc] = idleproc
    /\ wait_pid[initproc] = NULL
    /\ pc[initproc] \notin {"user", "ret", "kexec"}
    /\ \A p \in Procs : pc[p] = "init_main" => p = initproc
    /\ pc[initproc] = "init_check" => linked = {initproc}
    /\ pc[initproc] = "exit" => linked = {initproc} \/ exiting[initproc]
    /\ panic = "initproc exit" => linked = {initproc} \/ exiting[initproc]

\* Nobody sleeps without a child to wait for.
SleepersWait == \A p \in Procs : state[p] = "SLEEPING" => Scanned(p) # {}

\* Only a user process without an address space loads a program.
Loading == \A p \in Procs : pc[p] = "kexec" => p \in Users \ mm

\* The first three parts of PagesConserved.
PagesExact ==
    /\ IsFiniteSet(kstack)
    /\ IsFiniteSet(mm)
    /\ nr_free + heap + KSTACKPAGE * Cardinality(kstack) + MmPages * Cardinality(mm)
            = TotalPages
    /\ kstack = {p \in Procs \ {idleproc} : state[p] # "FREE"}
    /\ mm \subseteq {p \in Users : state[p] \notin {"FREE", "ZOMBIE"}}

TreeInv ==
    /\ LinkedExact
    /\ Hung
    /\ Rooted
    /\ HasLeaf
    /\ Own
    /\ InitThread
    /\ SleepersWait
    /\ Loading
    /\ PagesExact

\* The state that proc_init leaves satisfies it.
LEMMA InitTree == Init => TreeInv
  <1> SUFFICES ASSUME Init PROVE TreeInv
    OBVIOUS
  <1> USE IdleAssumption, ProcsAssumption, PagesAssumption
  <1>1. /\ \A p \in Procs :
                /\ p = idleproc => pc[p] = "idle" /\ state[p] = "RUNNABLE"
                /\ p = initproc => pc[p] = "init_main" /\ state[p] = "RUNNABLE"
                /\ p \notin {idleproc, initproc} => pc[p] = "none" /\ state[p] = "FREE"
        /\ current = idleproc
        /\ linked = {initproc}
        /\ parent[initproc] = idleproc
        /\ wait_pid[initproc] = NULL
        /\ panic = "none"
    BY DEF Init
  <1>2. LinkedExact
    BY <1>1 DEF LinkedExact
  <1>3. Hung /\ Rooted /\ Own /\ InitThread /\ SleepersWait /\ Loading
    BY <1>1 DEF Hung, Rooted, Own, InitThread, SleepersWait, Loading
  <1>4. HasLeaf
    <2> SUFFICES ASSUME NEW S \in SUBSET {initproc}, S # {}
                 PROVE  \E p \in S : \A q \in S : parent[q] # p
      BY <1>1 DEF HasLeaf
    <2>1. S = {initproc}
      OBVIOUS
    <2> QED  BY <1>1, <2>1
  <1>5. PagesExact
    <2>1. /\ kstack = {initproc} /\ mm = {} /\ heap = 0
          /\ nr_free = TotalPages - KSTACKPAGE
      BY DEF Init
    <2>2. /\ IsFiniteSet({initproc}) /\ Cardinality({initproc}) = 1
          /\ IsFiniteSet({}) /\ Cardinality({}) = 0
      BY FS_Singleton, FS_EmptySet
    <2>3. nr_free + heap + KSTACKPAGE * 1 + MmPages * 0 = TotalPages
      BY <2>1
    <2>4. kstack = {p \in Procs \ {idleproc} : state[p] # "FREE"}
      BY <1>1, <2>1
    <2> QED  BY <2>1, <2>2, <2>3, <2>4 DEF PagesExact
  <1> QED  BY <1>2, <1>3, <1>4, <1>5 DEF TreeInv

----------------------------------------------------------------------------
(* Steps that change neither the tree nor the memory.                      *)

ForkPcs == {"fork_link", "fork_wake"}

\* Where the running process goes in such a step.
Moves ==
    {<<"user", "ret">>, <<"user", "wait">>, <<"user", "exit">>, <<"kexec", "exit">>,
     <<"wait", "wait_found">>, <<"wait", "wait_sched">>, <<"wait", "ret">>,
     <<"wait", "init_check">>, <<"wait_sched", "wait_resume">>,
     <<"wait_resume", "wait">>, <<"wait_resume", "exit">>,
     <<"init_sched", "wait">>, <<"init_check", "exit">>, <<"idle", "idle">>,
     <<"ret", "user">>, <<"ret", "exit">>,
     <<"exit_notify", "exit_reparent">>, <<"exit_sched", "dead">>}

\* Processes fall asleep and wake up, but are neither made nor ended.
Alike ==
    \A q \in Procs :
        \/ state'[q] = state[q]
        \/ {state[q], state'[q]} \subseteq {"RUNNABLE", "SLEEPING"}

PlainStep ==
    /\ UNCHANGED <<linked, parent, kstack, mm>>
    /\ nr_free' + heap' = nr_free + heap
    /\ Alike
    /\ \A q \in Procs : pc'[q] = pc[q] \/ <<pc[q], pc'[q]>> \in Moves
    /\ \/ UNCHANGED <<current, pc, proc>>
       \/ pc[current] \notin ForkPcs /\ pc'[current'] \notin ForkPcs
    /\ Own'
    /\ \A q \in Procs : state'[q] = "SLEEPING" =>
            /\ wait_pid'[q] = wait_pid[q]
            /\ state[q] = "SLEEPING" \/ Scanned(q) # {}
    /\ InitThread'

\* Such a step keeps the tree and the memory as they are.
LEMMA PlainKeeps ==
    ASSUME Inv, Inv', TreeInv, PlainStep
    PROVE  TreeInv'
  <1> USE DEF Moves, ForkPcs
  <1>1. /\ UNCHANGED <<linked, parent, kstack, mm>>
        /\ \A q \in Procs :
                \/ state'[q] = state[q]
                \/ {state[q], state'[q]} \subseteq {"RUNNABLE", "SLEEPING"}
        /\ \A q \in Procs : pc'[q] = pc[q] \/ <<pc[q], pc'[q]>> \in Moves
    BY DEF PlainStep, Alike
  <1>2. LinkedExact'
    <2>1. \A q \in Procs : state'[q] \in {"FREE", "UNINIT"} <=> state[q] \in {"FREE", "UNINIT"}
      BY <1>1
    <2>2. \/ UNCHANGED <<current, pc, proc>>
          \/ pc[current] # "fork_wake" /\ pc'[current'] # "fork_wake"
      BY DEF PlainStep
    <2> QED  BY <1>1, <2>1, <2>2 DEF TreeInv, LinkedExact
  <1>3. Hung'
    <2> SUFFICES ASSUME NEW p \in linked \ {initproc}
                 PROVE  /\ parent[p] \in linked
                        /\ state'[parent[p]] # "UNINIT"
                        /\ pc'[parent[p]] \notin {"exit_sched", "dead"}
      BY <1>1 DEF Hung
    <2>1. /\ parent[p] \in linked /\ parent[p] \in Procs
          /\ state[parent[p]] # "UNINIT"
          /\ pc[parent[p]] \notin {"exit_sched", "dead"}
      BY DEF TreeInv, Hung, Inv, TypeOK
    <2> QED  BY <1>1, <2>1
  <1>4. Rooted' /\ HasLeaf'
    BY <1>1 DEF TreeInv, Rooted, HasLeaf
  <1>5. Own' /\ InitThread'
    BY DEF PlainStep
  <1>6. SleepersWait'
    <2> SUFFICES ASSUME NEW p \in Procs, state'[p] = "SLEEPING"
                 PROVE  Scanned(p)' # {}
      BY DEF SleepersWait
    <2>1. Scanned(p) # {} /\ wait_pid'[p] = wait_pid[p]
      BY DEF PlainStep, TreeInv, SleepersWait
    <2> QED  BY <1>1, <2>1 DEF Scanned, Children, find_proc
  <1>7. Loading'
    BY <1>1 DEF TreeInv, Loading
  <1>8. PagesExact'
    <2>1. \A q \in Procs : /\ state'[q] = "FREE" <=> state[q] = "FREE"
                           /\ state'[q] = "ZOMBIE" <=> state[q] = "ZOMBIE"
      BY <1>1
    <2>2. kstack' = {p \in Procs \ {idleproc} : state'[p] # "FREE"}
      BY <1>1, <2>1 DEF TreeInv, PagesExact
    <2>3. mm' \subseteq {p \in Users : state'[p] \notin {"FREE", "ZOMBIE"}}
      BY <1>1, <2>1 DEF TreeInv, PagesExact, Users
    <2>4. nr_free' + heap' = nr_free + heap
      BY DEF PlainStep
    <2>5. nr_free' + heap' + KSTACKPAGE * Cardinality(kstack) + MmPages * Cardinality(mm)
            = TotalPages
      BY <2>4 DEF TreeInv, PagesExact
    <2> QED  BY <1>1, <2>2, <2>3, <2>5 DEF TreeInv, PagesExact
  <1> QED  BY <1>2, <1>3, <1>4, <1>5, <1>6, <1>7, <1>8 DEF TreeInv

\* What initproc relies on, in a step of the running process.
LEMMA InitKeeps ==
    ASSUME Inv, TreeInv, NEW l \in Labels,
           pc' = [pc EXCEPT ![current] = l], l # "init_main",
           panic = "none", panic' # "initproc exit",
           parent'[initproc] = parent[initproc],
           wait_pid'[initproc] \in {wait_pid[initproc], NULL},
           exiting[initproc] => exiting'[initproc],
           \/ UNCHANGED linked
           \/ {pc[current], l} \cap {"init_check", "exit"} = {},
           current = initproc =>
                /\ l \notin {"user", "ret", "kexec"}
                /\ l = "init_check" => Children(initproc) = {}
                /\ l = "exit" => pc[current] = "init_check" \/ exiting[initproc]
    PROVE  InitThread'
  <1> USE ProcsAssumption DEF OffCpuPcs
  <1>1. /\ current \in Procs
        /\ \A q \in Procs : pc'[q] = IF q = current THEN l ELSE pc[q]
    BY DEF Inv, TypeOK
  <1>2. ASSUME current = initproc, l = "init_check" PROVE linked = {initproc}
    <2>1. initproc \in linked
      BY DEF TreeInv, LinkedExact, Inv, KernelThreads
    <2>2. \A p \in linked \ {initproc} : parent[p] # initproc
      BY <1>2 DEF Children
    <2>3. ASSUME linked \ {initproc} # {} PROVE FALSE
      <3>1. PICK p \in linked \ {initproc} : parent[p] \notin linked \ {initproc}
        BY <2>3 DEF TreeInv, Rooted
      <3>2. parent[p] \in linked
        BY DEF TreeInv, Hung
      <3> QED  BY <2>2, <3>1, <3>2
    <2> QED  BY <2>1, <2>3
  <1>3. CASE current # initproc
    <2>1. pc[initproc] \notin {"init_check", "exit"} /\ pc'[initproc] = pc[initproc]
      BY <1>1, <1>3 DEF Inv, OffCpu
    <2> QED  BY <1>1, <2>1 DEF TreeInv, InitThread
  <1>4. CASE current = initproc
    <2>1. pc'[initproc] = l
      BY <1>1, <1>4
    <2>2. l = "init_check" => linked' = {initproc}
      BY <1>2, <1>4
    <2>3. l = "exit" => linked' = {initproc} \/ exiting'[initproc]
      BY <1>4 DEF TreeInv, InitThread
    <2> QED  BY <1>1, <1>4, <2>1, <2>2, <2>3 DEF TreeInv, InitThread
  <1> QED  BY <1>3, <1>4

\* Nothing but the clock moves, or the kernel panics.
LEMMA StayPlain ==
    ASSUME Inv, TreeInv,
           UNCHANGED <<state, current, treeVars, kstack, mm, localVars, exiting>>,
           nr_free' + heap' = nr_free + heap,
           panic' = "initproc exit" =>
                panic = "initproc exit" \/ pc[initproc] = "exit"
    PROVE  PlainStep
  <1> USE DEF treeVars, localVars
  <1>1. Alike /\ Own' /\ InitThread'
    BY DEF TreeInv, Alike, Own, InitThread
  <1>2. \A q \in Procs : state[q] = "SLEEPING" => Scanned(q) # {}
    BY DEF TreeInv, SleepersWait
  <1> QED  BY <1>1, <1>2 DEF PlainStep

\* The running process goes on, and may fall asleep or wake others up.
LEMMA GotoPlain ==
    ASSUME Inv, TreeInv, NEW l \in Labels,
           <<pc[current], l>> \in Moves,
           pc' = [pc EXCEPT ![current] = l],
           panic = "none", panic' = panic,
           UNCHANGED <<current, linked, parent, kstack, mm>>,
           nr_free' + heap' = nr_free + heap,
           Alike,
           \A q \in Procs : state'[q] = "SLEEPING" =>
                /\ state[q] = "SLEEPING" \/ Scanned(q) # {}
                /\ wait_pid'[q] = wait_pid[q],
           l = "wait_found" => parent[proc'[current]] = current,
           wait_pid'[initproc] \in {wait_pid[initproc], NULL},
           exiting[initproc] => exiting'[initproc],
           current = initproc =>
                /\ l \notin {"user", "ret", "kexec"}
                /\ l = "init_check" => Children(initproc) = {}
                /\ l = "exit" => pc[current] = "init_check" \/ exiting[initproc]
    PROVE  PlainStep
  <1>1. InitThread'
    BY InitKeeps DEF Moves
  <1>2. /\ current \in Procs
        /\ \A q \in Procs : pc'[q] = IF q = current THEN l ELSE pc[q]
    BY DEF Inv, TypeOK
  <1>3. Own'
    BY <1>2 DEF Own, Moves
  <1>4. pc[current] \notin ForkPcs /\ pc'[current'] \notin ForkPcs
    BY <1>2 DEF ForkPcs, Moves
  <1> QED  BY <1>1, <1>2, <1>3, <1>4 DEF PlainStep

\* The running process gives the CPU up in schedule().
LEMMA SwitchPlain ==
    ASSUME Inv, TreeInv, schedule, NEW l \in Labels,
           \/ pc[current] = "exit_sched" /\ l = "dead"
           \/ pc[current] = "wait_sched" /\ l = "wait_resume"
           \/ pc[current] = "init_sched" /\ l = "wait"
           \/ pc[current] = "idle" /\ l = "idle"
           \/ pc[current] = "ret" /\ l = "user",
           pc' = [pc EXCEPT ![current] = l],
           panic = "none",
           UNCHANGED <<treeVars, memVars, proc, wait_pid, exiting, panic>>
    PROVE  PlainStep
  <1> USE DEF treeVars, memVars
  <1>1. UNCHANGED state /\ current' \in Procs
    BY ScheduleLemma DEF Inv
  <1>2. /\ current \in Procs
        /\ \A q \in Procs : pc'[q] = IF q = current THEN l ELSE pc[q]
    BY DEF Inv, TypeOK
  <1>3. current = initproc => l # "user"
    BY DEF TreeInv, InitThread
  <1>4. InitThread'
    BY <1>3, InitKeeps
  <1>5. pc'[current'] \in OffCpuPcs \cup {"dead"}
    BY <1>1, <1>2 DEF Inv, OffCpu, OffCpuPcs
  <1>6. Own' /\ pc[current] \notin ForkPcs /\ pc'[current'] \notin ForkPcs
    BY <1>5 DEF Own, ForkPcs, OffCpuPcs
  <1>7. \A q \in Procs : pc'[q] = pc[q] \/ <<pc[q], pc'[q]>> \in Moves
    BY <1>2 DEF Moves
  <1>8. Alike /\ \A q \in Procs : state[q] = "SLEEPING" => Scanned(q) # {}
    BY <1>1 DEF Alike, TreeInv, SleepersWait
  <1> QED  BY <1>1, <1>4, <1>6, <1>7, <1>8 DEF PlainStep

\* wakeup_proc() of a sleeper, if there is one to wake.
LEMMA WakeupAlike ==
    ASSUME Inv, UNCHANGED schedVars \/ \E q \in Procs : state[q] = "SLEEPING" /\ wakeup_proc(q)
    PROVE  /\ Alike
           /\ UNCHANGED current
           /\ \A q \in Procs : state'[q] = "SLEEPING" => state[q] = "SLEEPING"
  <1>1. CASE UNCHANGED schedVars
    BY <1>1 DEF schedVars, Alike
  <1>2. ASSUME NEW q \in Procs, state[q] = "SLEEPING", wakeup_proc(q)
        PROVE  /\ Alike
               /\ UNCHANGED current
               /\ \A r \in Procs : state'[r] = "SLEEPING" => state[r] = "SLEEPING"
    <2>1. state' = [state EXCEPT ![q] = "RUNNABLE"] /\ UNCHANGED current
      BY <1>2 DEF wakeup_proc
    <2>2. \A r \in Procs : state'[r] = IF r = q THEN "RUNNABLE" ELSE state[r]
      BY <2>1 DEF Inv, TypeOK
    <2> QED  BY <1>2, <2>1, <2>2 DEF Alike
  <1> QED  BY <1>1, <1>2

\* A panic stops the kernel where it is.
LEMMA PanicPlain ==
    ASSUME Inv, TreeInv, NEW p \in Procs,
           \/ SysUndefined(p) \/ ExitOfInit(p)
           \/ \E g \in HeapGrowth : ForkOutOfMemory(p, g)
           \/ UserPageFault(p) /\ Panic("page fault")
           \/ KMonitor
    PROVE  PlainStep
  <1>1. /\ UNCHANGED <<schedVars, treeVars, memVars, localVars, exiting>>
        /\ panic' = "initproc exit" => panic = "initproc exit" \/ pc[initproc] = "exit"
    BY DEF SysUndefined, ExitOfInit, ForkOutOfMemory, UserPageFault, KMonitor, Panic, vars, At
  <1> QED  BY <1>1, StayPlain DEF schedVars, memVars

\* A do_fork that fails.
LEMMA ForkFailsPlain ==
    ASSUME Inv, TreeInv, NEW p \in Procs,
           ForkNoProc(p) \/ \E g \in HeapGrowth : ForkNoStack(p, g)
    PROVE  PlainStep
  <1>1. /\ p = current /\ panic = "none"
        /\ pc[p] \in {"user", "init_main"}
        /\ ForkReturnsError(p)
        /\ nr_free' + heap' = nr_free + heap
    <2>1. CASE ForkNoProc(p)
      BY <2>1 DEF ForkNoProc, ForkCall, At
    <2>2. ASSUME NEW g \in HeapGrowth, ForkNoStack(p, g)
          PROVE  /\ p = current /\ panic = "none"
                 /\ pc[p] \in {"user", "init_main"}
                 /\ ForkReturnsError(p)
                 /\ nr_free' + heap' = nr_free + heap
      <3>1. nr_free \in Nat /\ heap \in Nat /\ g \in {0, 1}
        BY DEF Inv, TypeOK, HeapGrowth
      <3> QED  BY <2>2, <3>1 DEF ForkNoStack, ForkCall, At
    <2> QED  BY <2>1, <2>2
  <1>2. CASE p = initproc
    <2>1. /\ UNCHANGED <<state, current, treeVars, kstack, mm, localVars, exiting>>
          /\ panic' # "initproc exit"
      BY <1>1, <1>2 DEF ForkReturnsError, Panic, schedVars, memVars
    <2> QED  BY <1>1, <2>1, StayPlain
  <1>3. CASE p # initproc
    <2>1. /\ pc' = [pc EXCEPT ![p] = "ret"]
          /\ UNCHANGED <<schedVars, treeVars, kstack, mm, proc, wait_pid, exiting, panic>>
      BY <1>1, <1>3 DEF ForkReturnsError, Goto
    <2>2. pc[p] = "user"
      BY <1>1, <1>3 DEF TreeInv, InitThread
    <2> QED  BY <1>1, <1>3, <2>1, <2>2, GotoPlain
                DEF schedVars, treeVars, Alike, Moves, Labels, TreeInv, SleepersWait
  <1> QED  BY <1>2, <1>3

\* The steps of kernel code that only lead on, to sleep or to a wake-up.
LEMMA WaitPlain ==
    ASSUME Inv, TreeInv, NEW p \in Procs,
           \/ \E z \in Procs : WaitFind(p, z)
           \/ WaitSleep(p) \/ WaitResume(p) \/ WaitNoChild(p)
           \/ \E pid \in (Procs \ {idleproc}) \cup {NULL} : p # initproc /\ SysWait(p, pid)
    PROVE  PlainStep
  <1> USE ProcsAssumption DEF Moves, Labels
  <1>1. /\ \A q \in Procs : state[q] = "SLEEPING" => Scanned(q) # {}
        /\ pc[initproc] \notin {"user", "ret", "kexec"}
        /\ wait_pid[initproc] = NULL
        /\ wait_pid \in [Procs -> Procs \cup {NULL}]
        /\ proc \in [Procs -> Procs \cup {NULL}]
        /\ state \in [Procs -> ProcStates]
    BY DEF TreeInv, SleepersWait, InitThread, Inv, TypeOK
  <1>2. p = current /\ panic = "none"
    BY DEF WaitFind, WaitSleep, WaitResume, WaitNoChild, SysWait, At
  <1>3. ASSUME NEW z \in Procs, WaitFind(p, z) PROVE PlainStep
    <2>1. /\ pc[p] = "wait"
          /\ pc' = [pc EXCEPT ![p] = "wait_found"]
          /\ proc' = [proc EXCEPT ![p] = z]
          /\ z \in Scanned(p)
          /\ UNCHANGED <<schedVars, treeVars, memVars, wait_pid, exiting, panic>>
      BY <1>3 DEF WaitFind, At, Goto
    <2>2. parent[proc'[p]] = p
      BY <1>1, <2>1 DEF Scanned, Children
    <2> QED  BY <1>1, <1>2, <2>1, <2>2, GotoPlain DEF schedVars, treeVars, memVars, Alike
  <1>4. CASE WaitSleep(p)
    <2>1. /\ pc[p] = "wait"
          /\ pc' = [pc EXCEPT ![p] = "wait_sched"]
          /\ Scanned(p) # {}
          /\ state' = [state EXCEPT ![p] = "SLEEPING"]
          /\ UNCHANGED <<current, treeVars, memVars, proc, wait_pid, exiting, panic>>
      BY <1>4 DEF WaitSleep, At, Goto
    <2>2. state[p] = "RUNNABLE"
      BY <1>2, <2>1 DEF Inv, OnCpu, ExitPcs
    <2>3. \A q \in Procs : state'[q] = IF q = p THEN "SLEEPING" ELSE state[q]
      BY <1>1, <2>1
    <2>4. Alike
      BY <2>2, <2>3 DEF Alike
    <2> QED  BY <1>1, <1>2, <2>1, <2>3, <2>4, GotoPlain DEF treeVars, memVars
  <1>5. CASE WaitResume(p)
    <2> DEFINE l == IF exiting[p] THEN "exit" ELSE "wait"
    <2>1. /\ pc[p] = "wait_resume"
          /\ pc' = [pc EXCEPT ![p] = l]
          /\ l \in Labels /\ <<pc[p], l>> \in Moves
          /\ l = "exit" => exiting[p]
          /\ \A q \in Procs \ {p} : wait_pid'[q] = wait_pid[q]
          /\ wait_pid'[p] \in {wait_pid[p], NULL}
          /\ UNCHANGED <<schedVars, treeVars, memVars, proc, exiting, panic>>
      BY <1>1, <1>5 DEF WaitResume, At, Goto
    <2>2. state[p] = "RUNNABLE"
      BY <1>2, <2>1 DEF Inv, OnCpu, ExitPcs
    <2>3. l \notin {"user", "ret", "kexec", "init_check", "wait_found"}
      OBVIOUS
    <2> HIDE DEF l
    <2> QED  BY <1>1, <1>2, <2>1, <2>2, <2>3, GotoPlain DEF schedVars, treeVars, memVars, Alike
  <1>6. CASE WaitNoChild(p)
    <2> DEFINE l == AfterNoChild(p)
    <2>1. /\ pc[p] = "wait"
          /\ pc' = [pc EXCEPT ![p] = l]
          /\ Scanned(p) = {}
          /\ \A q \in Procs \ {p} : wait_pid'[q] = wait_pid[q]
          /\ wait_pid'[p] = NULL
          /\ UNCHANGED <<schedVars, treeVars, memVars, proc, exiting, panic>>
      BY <1>1, <1>6 DEF WaitNoChild, At, Goto
    <2>2. state[p] = "RUNNABLE"
      BY <1>2, <2>1 DEF Inv, OnCpu, ExitPcs
    <2>3. /\ l \in {"init_check", "ret"}
          /\ p = initproc => l = "init_check"
      BY DEF AfterNoChild
    <2>4. p = initproc => Children(initproc) = {}
      BY <1>1, <2>1 DEF Scanned
    <2> HIDE DEF l
    <2> QED  BY <1>1, <1>2, <2>1, <2>2, <2>3, <2>4, GotoPlain DEF schedVars, treeVars, memVars, Alike
  <1>7. ASSUME NEW pid \in (Procs \ {idleproc}) \cup {NULL}, p # initproc, SysWait(p, pid)
        PROVE  PlainStep
    <2>1. /\ pc[p] = "user"
          /\ pc' = [pc EXCEPT ![p] = "wait"]
          /\ \A q \in Procs \ {p} : wait_pid'[q] = wait_pid[q]
          /\ UNCHANGED <<schedVars, treeVars, memVars, proc, exiting, panic>>
      BY <1>1, <1>7 DEF SysWait, At, Goto
    <2>2. state[p] = "RUNNABLE"
      BY <1>2, <2>1 DEF Inv, OnCpu, ExitPcs
    <2> QED  BY <1>1, <1>2, <1>7, <2>1, <2>2, GotoPlain DEF schedVars, treeVars, memVars, Alike
  <1> QED  BY <1>3, <1>4, <1>5, <1>6, <1>7

\* The other system calls, exceptions, and ticks in user mode.
LEMMA UserPlain ==
    ASSUME Inv, TreeInv, NEW p \in Procs,
           \/ SysExit(p) \/ SysYield(p) \/ SysOther(p) \/ UserException(p)
           \/ UserTick(p)
           \/ UserPageFault(p) /\ ~Panic("page fault")
           \/ InitReturn(p)
    PROVE  PlainStep
  <1>1. /\ p = current /\ panic = "none"
        /\ \/ pc[p] = "user" /\ \E l \in {"ret", "exit"} : pc' = [pc EXCEPT ![p] = l]
           \/ pc[p] = "init_check" /\ pc' = [pc EXCEPT ![p] = "exit"]
        /\ UNCHANGED <<state, current, treeVars, memVars, proc, wait_pid, exiting, panic>>
    BY DEF SysExit, SysYield, SysOther, UserException, UserTick, UserPageFault,
           InitReturn, At, Goto, schedVars
  <1>2. PICK l \in {"ret", "exit"} :
            /\ pc' = [pc EXCEPT ![p] = l]
            /\ <<pc[p], l>> \in Moves
            /\ p = initproc => l = "exit" /\ pc[p] = "init_check"
    BY <1>1 DEF Moves, TreeInv, InitThread
  <1> QED  BY <1>1, <1>2, GotoPlain
              DEF treeVars, memVars, Alike, Labels, TreeInv, SleepersWait

\* Wake-ups by a kill and by an exit.
LEMMA NotifyPlain ==
    ASSUME Inv, TreeInv, NEW p \in Procs,
           ExitNotify(p) \/ \E q \in Procs : SysKill(p, q)
    PROVE  PlainStep
  <1> USE DEF Moves, Labels
  <1>1. p = current /\ panic = "none"
    BY DEF ExitNotify, SysKill, At
  <1>2. /\ \A q \in Procs : state[q] = "SLEEPING" => Scanned(q) # {}
        /\ pc[initproc] # "user"
    BY DEF TreeInv, SleepersWait, InitThread
  <1>3. CASE ExitNotify(p)
    <2>1. /\ pc[p] = "exit_notify"
          /\ IF wait_state[parent[p]] = WT_CHILD THEN wakeup_proc(parent[p])
             ELSE UNCHANGED schedVars
          /\ pc' = [pc EXCEPT ![p] = "exit_reparent"]
          /\ UNCHANGED <<treeVars, memVars, proc, wait_pid, exiting, panic>>
      BY <1>3 DEF ExitNotify, At, Goto
    <2>2. parent[p] \in Procs
      BY <1>1, <2>1 DEF Inv, PcState, ExitPcs, KernelThreads, Parents
    <2>3. UNCHANGED schedVars \/ \E q \in Procs : state[q] = "SLEEPING" /\ wakeup_proc(q)
      BY <2>1, <2>2 DEF Inv, PcState
    <2> QED  BY <1>1, <1>2, <2>1, <2>3, WakeupAlike, GotoPlain DEF treeVars, memVars
  <1>4. ASSUME NEW q \in Procs, SysKill(p, q) PROVE PlainStep
    <2>1. /\ pc[p] = "user"
          /\ IF wait_state[q] = WT_CHILD THEN wakeup_proc(q) ELSE UNCHANGED schedVars
          /\ pc' = [pc EXCEPT ![p] = "ret"]
          /\ exiting' = [exiting EXCEPT ![q] = TRUE]
          /\ UNCHANGED <<treeVars, memVars, proc, wait_pid, panic>>
      BY <1>4 DEF SysKill, At, Goto
    <2>2. UNCHANGED schedVars \/ \E r \in Procs : state[r] = "SLEEPING" /\ wakeup_proc(r)
      BY <2>1 DEF Inv, PcState
    <2>3. exiting[initproc] => exiting'[initproc]
      BY <2>1, ProcsAssumption DEF Inv, TypeOK
    <2> QED  BY <1>1, <1>2, <2>1, <2>2, <2>3, WakeupAlike, GotoPlain DEF treeVars, memVars
  <1> QED  BY <1>3, <1>4

\* The calls of schedule(), and the tail of trap().
LEMMA SwitchesPlain ==
    ASSUME Inv, TreeInv, NEW p \in Procs,
           \/ ExitSchedule(p) \/ WaitSchedule(p) \/ InitSchedule(p)
           \/ IdleSchedule(p) \/ TrapReturn(p)
    PROVE  PlainStep
  <1> USE DEF Labels
  <1>1. p = current /\ panic = "none"
    BY DEF ExitSchedule, WaitSchedule, InitSchedule, IdleSchedule, TrapReturn, At
  <1>2. CASE ExitSchedule(p)
    BY <1>1, <1>2, SwitchPlain DEF ExitSchedule, At, Goto
  <1>3. CASE WaitSchedule(p)
    BY <1>1, <1>3, SwitchPlain DEF WaitSchedule, At, Goto
  <1>4. CASE InitSchedule(p)
    BY <1>1, <1>4, SwitchPlain DEF InitSchedule, At, Goto
  <1>5. CASE IdleSchedule(p)
    <2>1. pc' = [pc EXCEPT ![current] = "idle"]
      BY <1>1, <1>5 DEF IdleSchedule, At, localVars, Inv, TypeOK
    <2> QED  BY <1>1, <1>5, <2>1, SwitchPlain DEF IdleSchedule, At, localVars
  <1>6. CASE TrapReturn(p)
    <2>1. /\ pc[p] = "ret"
          /\ UNCHANGED <<treeVars, memVars, proc, wait_pid, exiting, panic>>
      BY <1>6 DEF TrapReturn, At
    <2>2. CASE schedule /\ pc' = [pc EXCEPT ![p] = "user"]
      BY <1>1, <2>1, <2>2, SwitchPlain
    <2>3. ASSUME NEW l \in {"exit", "user"}, UNCHANGED schedVars, pc' = [pc EXCEPT ![p] = l]
          PROVE  PlainStep
      <3>1. pc[initproc] # "ret"
        BY DEF TreeInv, InitThread
      <3> QED  BY <1>1, <2>1, <2>3, <3>1, GotoPlain
                  DEF schedVars, treeVars, memVars, Alike, Moves, TreeInv, SleepersWait
    <2> QED  BY <1>6, <2>2, <2>3 DEF TrapReturn, Goto
  <1> QED  BY <1>2, <1>3, <1>4, <1>5, <1>6

----------------------------------------------------------------------------
(* do_fork                                                                 *)

\* One thing more that takes k pages, or one less.
LEMMA Counting ==
    ASSUME NEW k \in Nat, NEW S, NEW x, IsFiniteSet(S)
    PROVE  /\ IsFiniteSet(S \cup {x}) /\ IsFiniteSet(S \ {x})
           /\ Cardinality(S) \in Nat
           /\ k * Cardinality(S) \in Nat
           /\ x \notin S => k * Cardinality(S \cup {x}) = k * Cardinality(S) + k
           /\ x \in S => k * Cardinality(S \ {x}) = k * Cardinality(S) - k
  <1>1. /\ IsFiniteSet(S \cup {x}) /\ IsFiniteSet(S \ {x})
        /\ x \notin S => Cardinality(S \cup {x}) = Cardinality(S) + 1
        /\ x \in S => Cardinality(S \ {x}) = Cardinality(S) - 1
    BY FS_AddElement, FS_RemoveElement
  <1>2. Cardinality(S) \in Nat
    BY FS_CardinalityType
  <1> DEFINE n == Cardinality(S)
  <1> HIDE DEF n
  <1>3. n \in Nat
    BY <1>2 DEF n
  <1>4. k * n \in Nat /\ k * (n + 1) = k * n + k /\ k * (n - 1) = k * n - k
    BY <1>3
  <1> QED  BY <1>1, <1>2, <1>4 DEF n

\* The new process is a child of the caller that nobody else knows of.
LEMMA ForkAllocTree ==
    ASSUME Inv, TreeInv, NEW p \in Procs, NEW c \in Procs, NEW g \in HeapGrowth,
           ForkAlloc(p, c, g)
    PROVE  TreeInv'
  <1> USE ProcsAssumption, PagesAssumption
  <1>1. /\ p = current /\ panic = "none"
        /\ pc[p] \in {"user", "init_main"}
        /\ state[p] = "RUNNABLE"
        /\ state[c] = "FREE"
        /\ c \notin {p, idleproc, initproc}
    BY DEF ForkAlloc, ForkCall, At, Inv, OnCpu, KernelThreads, ExitPcs
  <1>2. /\ UNCHANGED <<current, linked, wait_pid, panic>>
        /\ \A q \in Procs : state'[q] = IF q = c THEN "UNINIT" ELSE state[q]
        /\ \A q \in Procs : parent'[q] = IF q = c THEN p ELSE parent[q]
        /\ pc'[p] = "fork_link"
        /\ pc'[c] = IF p = initproc THEN "kexec" ELSE "user"
        /\ \A q \in Procs \ {p, c} : pc'[q] = pc[q]
        /\ proc'[p] = c
        /\ \A q \in Procs \ {c} : exiting'[q] = exiting[q]
    BY <1>1 DEF ForkAlloc, Inv, TypeOK
  <1>3. linked \subseteq Procs /\ c \notin linked /\ c \notin mm /\ c \notin kstack
    BY <1>1 DEF TreeInv, LinkedExact, PagesExact, Inv, TypeOK
  <1>4. LinkedExact'
    BY <1>1, <1>2 DEF TreeInv, LinkedExact
  <1>5. Hung'
    <2> SUFFICES ASSUME NEW q \in linked \ {initproc}
                 PROVE  /\ parent'[q] \in linked
                        /\ state'[parent'[q]] # "UNINIT"
                        /\ pc'[parent'[q]] \notin {"exit_sched", "dead"}
      BY <1>2 DEF Hung
    <2>1. /\ parent[q] \in linked
          /\ state[parent[q]] # "UNINIT"
          /\ pc[parent[q]] \notin {"exit_sched", "dead"}
      BY DEF TreeInv, Hung
    <2>2. parent'[q] = parent[q] /\ parent[q] # c /\ parent[q] \in Procs
      BY <1>2, <1>3, <2>1
    <2> QED  BY <1>2, <2>1, <2>2
  <1>6. Rooted' /\ HasLeaf'
    <2>1. \A q \in linked : parent'[q] = parent[q]
      BY <1>2, <1>3
    <2>2. Rooted'
      BY <1>2, <2>1 DEF TreeInv, Rooted
    <2>3. HasLeaf'
      BY <1>2, <2>1 DEF TreeInv, HasLeaf
    <2> QED  BY <2>2, <2>3
  <1>7. Own'
    BY <1>1, <1>2 DEF Own
  <1>8. InitThread'
    <2>1. pc'[initproc] \in {pc[initproc], "fork_link"}
      BY <1>1, <1>2
    <2> QED  BY <1>1, <1>2, <2>1 DEF TreeInv, InitThread
  <1>9. SleepersWait'
    <2> SUFFICES ASSUME NEW q \in Procs, state'[q] = "SLEEPING"
                 PROVE  Scanned(q)' # {}
      BY DEF SleepersWait
    <2>1. PICK z \in linked : z \in Scanned(q)
      BY <1>2 DEF TreeInv, SleepersWait, Scanned, Children, find_proc
    <2>2. z \in Scanned(q)'
      BY <1>2, <1>3, <2>1 DEF Scanned, Children, find_proc
    <2> QED  BY <2>2
  <1>10. Loading'
    <2>1. initproc \notin mm /\ (p = initproc => mm' = mm) /\ mm' \subseteq mm \cup {c}
      BY DEF TreeInv, PagesExact, ForkAlloc, Users
    <2> QED  BY <1>1, <1>2, <1>3, <2>1 DEF TreeInv, Loading, Users
  <1>11. PagesExact'
    <2>1. /\ nr_free \in Nat /\ heap \in Nat /\ g \in {0, 1}
          /\ IsFiniteSet(kstack) /\ IsFiniteSet(mm)
          /\ nr_free + heap + KSTACKPAGE * Cardinality(kstack) + MmPages * Cardinality(mm)
                = TotalPages
      BY DEF TreeInv, PagesExact, Inv, TypeOK, HeapGrowth
    <2>2. /\ kstack' = kstack \cup {c}
          /\ mm' = IF p \in mm THEN mm \cup {c} ELSE mm
          /\ heap' = heap + g
          /\ nr_free' = nr_free - g - KSTACKPAGE - CopyPages(p)
      BY DEF ForkAlloc
    <2>3. /\ IsFiniteSet(kstack') /\ KSTACKPAGE * Cardinality(kstack) \in Nat
          /\ KSTACKPAGE * Cardinality(kstack') = KSTACKPAGE * Cardinality(kstack) + KSTACKPAGE
      BY <1>3, <2>1, <2>2, Counting
    <2>4. /\ IsFiniteSet(mm') /\ MmPages * Cardinality(mm) \in Nat
          /\ MmPages * Cardinality(mm') = MmPages * Cardinality(mm) + CopyPages(p)
          /\ CopyPages(p) \in Nat
      <3>1. CASE p \in mm
        BY <1>3, <2>1, <2>2, <3>1, Counting DEF CopyPages
      <3>2. CASE p \notin mm
        <4>1. MmPages * Cardinality(mm) \in Nat
          BY <2>1, Counting
        <4> QED  BY <2>1, <2>2, <3>2, <4>1 DEF CopyPages
      <3> QED  BY <3>1, <3>2
    <2>5. nr_free' + heap' + KSTACKPAGE * Cardinality(kstack') + MmPages * Cardinality(mm')
            = TotalPages
      BY <2>1, <2>2, <2>3, <2>4
    <2>6. kstack' = {q \in Procs \ {idleproc} : state'[q] # "FREE"}
      BY <1>1, <1>2, <2>2 DEF TreeInv, PagesExact
    <2>7. mm' \subseteq {q \in Users : state'[q] \notin {"FREE", "ZOMBIE"}}
      BY <1>1, <1>2, <2>2 DEF TreeInv, PagesExact, Users
    <2> QED  BY <2>3, <2>4, <2>5, <2>6, <2>7 DEF PagesExact
  <1> QED  BY <1>4, <1>5, <1>6, <1>7, <1>8, <1>9, <1>10, <1>11 DEF TreeInv

\* set_links hangs the new process, which has no children yet, below the caller.
LEMMA ForkLinkTree ==
    ASSUME Inv, TreeInv, NEW p \in Procs, ForkLink(p)
    PROVE  TreeInv'
  <1> USE ProcsAssumption
  <1> DEFINE c == proc[p]
  <1>1. /\ p = current /\ panic = "none"
        /\ pc[p] = "fork_link"
        /\ linked' = linked \cup {c}
        /\ pc' = [pc EXCEPT ![current] = "fork_wake"]
        /\ UNCHANGED <<state, current, parent, memVars, proc, wait_pid, exiting, panic>>
    BY DEF ForkLink, At, Goto, schedVars
  <1>2. \A q \in Procs : pc'[q] = IF q = p THEN "fork_wake" ELSE pc[q]
    BY <1>1 DEF Inv, TypeOK
  <1>3. /\ c \in Procs
        /\ state[c] = "UNINIT"
        /\ state[p] = "RUNNABLE"
        /\ c \notin {p, idleproc, initproc}
        /\ parent[c] = p
        /\ c \notin linked
        /\ p \in linked
        /\ linked \subseteq Procs
    BY <1>1 DEF Inv, OnCpu, KernelThreads, Counted, ExitPcs, TypeOK, TreeInv, Own, LinkedExact
  <1>4. \A q \in linked : parent[q] # c
    BY <1>3 DEF TreeInv, Hung, InitThread
  <1> HIDE DEF c
  <1>5. LinkedExact'
    BY <1>1, <1>2, <1>3 DEF TreeInv, LinkedExact, c
  <1>6. Hung'
    BY <1>1, <1>2, <1>3 DEF TreeInv, Hung
  <1>7. Rooted'
    <2> SUFFICES ASSUME NEW S \in SUBSET (linked' \ {initproc}), S # {}
                 PROVE  \E q \in S : parent[q] \notin S
      BY <1>1 DEF Rooted
    <2>1. CASE S \subseteq {c}
      BY <1>3, <2>1
    <2>2. CASE S \ {c} # {}
      <3>1. S \ {c} \in SUBSET (linked \ {initproc})
        BY <1>1
      <3>2. PICK q \in S \ {c} : parent[q] \notin S \ {c}
        BY <2>2, <3>1 DEF TreeInv, Rooted
      <3> QED  BY <1>4, <3>1, <3>2
    <2> QED  BY <2>1, <2>2
  <1>8. HasLeaf'
    <2> SUFFICES ASSUME NEW S \in SUBSET linked', S # {}
                 PROVE  \E q \in S : \A r \in S : parent[r] # q
      BY <1>1 DEF HasLeaf
    <2>1. CASE c \in S
      BY <1>1, <1>3, <1>4, <2>1
    <2>2. CASE c \notin S
      BY <1>1, <2>2 DEF TreeInv, HasLeaf
    <2> QED  BY <2>1, <2>2
  <1>9. Own'
    BY <1>1 DEF TreeInv, Own
  <1>10. InitThread'
    BY <1>1, InitKeeps DEF Labels
  <1>11. SleepersWait'
    BY <1>1 DEF TreeInv, SleepersWait, Scanned, Children, find_proc
  <1>12. Loading' /\ PagesExact'
    BY <1>1, <1>2 DEF TreeInv, Loading, PagesExact, memVars
  <1> QED  BY <1>5, <1>6, <1>7, <1>8, <1>9, <1>10, <1>11, <1>12 DEF TreeInv

\* wakeup_proc makes it a process like any other.
LEMMA ForkWakeTree ==
    ASSUME Inv, TreeInv, NEW p \in Procs, ForkWake(p)
    PROVE  TreeInv'
  <1> USE ProcsAssumption
  <1> DEFINE c == proc[p]
             l == AfterFork(p)
  <1>1. /\ p = current /\ panic = "none"
        /\ pc[p] = "fork_wake"
        /\ wakeup_proc(c)
        /\ pc' = [pc EXCEPT ![current] = l]
        /\ UNCHANGED <<treeVars, memVars, wait_pid, exiting, panic>>
        /\ l \in {"wait", "ret"}
        /\ p = initproc => l = "wait"
    BY DEF ForkWake, At, Goto, AfterFork
  <1> HIDE DEF l
  <1>2. \A q \in Procs : pc'[q] = IF q = p THEN l ELSE pc[q]
    BY <1>1 DEF Inv, TypeOK
  <1>3. /\ c \in Procs
        /\ state[c] = "UNINIT"
        /\ c \notin {p, idleproc, initproc}
    BY <1>1 DEF Inv, OnCpu, KernelThreads, ExitPcs
  <1>4. /\ current' = current
        /\ \A q \in Procs : state'[q] = IF q = c THEN "RUNNABLE" ELSE state[q]
    BY <1>1, <1>3 DEF wakeup_proc, Inv, TypeOK
  <1>5. LinkedExact'
    BY <1>1, <1>2, <1>3, <1>4 DEF TreeInv, LinkedExact, treeVars
  <1>6. Hung'
    <2>1. linked \subseteq Procs
      BY DEF Inv, TypeOK
    <2> QED  BY <1>1, <1>2, <1>4, <2>1 DEF TreeInv, Hung, treeVars
  <1>7. Rooted' /\ HasLeaf'
    BY <1>1 DEF TreeInv, Rooted, HasLeaf, treeVars
  <1>8. Own'
    BY <1>1, <1>2, <1>4 DEF Own
  <1>9. InitThread'
    BY <1>1, InitKeeps DEF Labels, treeVars
  <1>10. SleepersWait'
    <2>1. \A q \in Procs : Scanned(q)' = Scanned(q)
      BY <1>1 DEF Scanned, Children, find_proc, treeVars
    <2> QED  BY <1>4, <2>1 DEF TreeInv, SleepersWait
  <1>11. Loading'
    BY <1>1, <1>2 DEF TreeInv, Loading, memVars
  <1>12. PagesExact'
    BY <1>1, <1>3, <1>4 DEF TreeInv, PagesExact, memVars, Users
  <1> QED  BY <1>5, <1>6, <1>7, <1>8, <1>9, <1>10, <1>11, <1>12 DEF TreeInv

----------------------------------------------------------------------------
(* do_wait                                                                 *)

\* Whom do_wait frees has no children: it handed them over before it died.
LEMMA WaitReapTree ==
    ASSUME Inv, TreeInv, NEW p \in Procs, WaitReap(p)
    PROVE  TreeInv'
  <1> USE ProcsAssumption, PagesAssumption
  <1> DEFINE z == proc[p]
  <1>1. /\ p = current /\ panic = "none"
        /\ pc[p] = "wait_found"
        /\ linked' = linked \ {z}
        /\ kstack' = kstack \ {z}
        /\ nr_free' = nr_free + KSTACKPAGE
        /\ UNCHANGED <<current, mm, heap, panic>>
    BY DEF WaitReap, At
  <1>2. /\ z \in linked /\ z \in Procs
        /\ state[z] = "ZOMBIE"
        /\ state[p] = "RUNNABLE"
        /\ z \notin {p, idleproc, initproc}
        /\ pc[z] = "dead"
        /\ parent[z] = p
        /\ linked \subseteq Procs
    <2>1. /\ z \in linked /\ state[z] = "ZOMBIE" /\ state[p] = "RUNNABLE"
          /\ linked \subseteq Procs /\ parent[z] = p
      BY <1>1 DEF Inv, OnCpu, ExitPcs, TypeOK, TreeInv, Own
    <2>2. pc[z] \in ExitPcs /\ z \notin {p, idleproc, initproc}
      BY <2>1 DEF Inv, PcState, KernelThreads
    <2>3. pc[z] = "dead"
      BY <1>1, <2>1, <2>2 DEF Inv, OffCpu, OffCpuPcs, ExitPcs
    <2> QED  BY <2>1, <2>2, <2>3
  <1>3. /\ \A q \in Procs : state'[q] = IF q = z THEN "FREE" ELSE state[q]
        /\ \A q \in Procs : parent'[q] = IF q = z THEN NULL ELSE parent[q]
        /\ \A q \in Procs : pc'[q] = IF q = z THEN "none"
                                     ELSE IF q = p THEN AfterReap(p) ELSE pc[q]
        /\ \A q \in Procs \ {z} : exiting'[q] = exiting[q]
        /\ \A q \in Procs : wait_pid'[q] = IF q = p THEN NULL ELSE wait_pid[q]
    BY <1>2 DEF WaitReap, Inv, TypeOK
  <1>4. AfterReap(p) \in {"init_sched", "ret"} /\ (p = initproc => AfterReap(p) = "init_sched")
    BY DEF AfterReap
  <1> HIDE DEF z
  <1>5. \A q \in linked \ {z} : parent'[q] = parent[q] /\ parent[q] # z
    <2> SUFFICES ASSUME NEW q \in linked \ {z}
                 PROVE  parent'[q] = parent[q] /\ parent[q] # z
      OBVIOUS
    <2>1. parent'[q] = parent[q]
      BY <1>2, <1>3
    <2>2. q = initproc => parent[q] = idleproc
      BY DEF TreeInv, InitThread
    <2>3. q # initproc => pc[parent[q]] # "dead"
      BY DEF TreeInv, Hung
    <2>4. parent[q] # z
      BY <1>2, <2>2, <2>3
    <2> QED  BY <2>1, <2>4
  <1>6. LinkedExact'
    BY <1>1, <1>2, <1>3, <1>4 DEF TreeInv, LinkedExact
  <1>7. Hung'
    BY <1>1, <1>2, <1>3, <1>4, <1>5 DEF TreeInv, Hung
  <1>8. Rooted' /\ HasLeaf'
    <2>1. Rooted'
      BY <1>1, <1>5 DEF TreeInv, Rooted
    <2>2. HasLeaf'
      BY <1>1, <1>5 DEF TreeInv, HasLeaf
    <2> QED  BY <2>1, <2>2
  <1>9. Own'
    BY <1>1, <1>2, <1>3, <1>4 DEF Own
  <1>10. InitThread'
    <2>1. pc[initproc] \notin {"init_check", "exit"}
      BY <1>1 DEF Inv, OffCpu, OffCpuPcs
    <2>2. pc'[initproc] \in {pc[initproc], "init_sched"}
      BY <1>2, <1>3, <1>4
    <2> QED  BY <1>1, <1>2, <1>3, <1>4, <2>1, <2>2 DEF TreeInv, InitThread
  <1>11. SleepersWait'
    <2> SUFFICES ASSUME NEW q \in Procs, state'[q] = "SLEEPING"
                 PROVE  Scanned(q)' # {}
      BY DEF SleepersWait
    <2>1. q # p /\ state[q] = "SLEEPING"
      BY <1>2, <1>3
    <2>2. PICK r \in linked : r \in Scanned(q)
      BY <2>1 DEF TreeInv, SleepersWait, Scanned, Children, find_proc
    <2>3. r # z
      BY <1>2, <2>1, <2>2 DEF Scanned, Children
    <2>4. r \in Scanned(q)'
      BY <1>1, <1>2, <1>3, <2>1, <2>2, <2>3 DEF Scanned, Children, find_proc
    <2> QED  BY <2>4
  <1>12. Loading'
    BY <1>1, <1>3, <1>4 DEF TreeInv, Loading
  <1>13. PagesExact'
    <2>1. /\ nr_free \in Nat /\ heap \in Nat /\ MmPages * Cardinality(mm) \in Nat
          /\ IsFiniteSet(kstack) /\ IsFiniteSet(mm)
          /\ nr_free + heap + KSTACKPAGE * Cardinality(kstack) + MmPages * Cardinality(mm)
                = TotalPages
      BY Counting DEF TreeInv, PagesExact, Inv, TypeOK
    <2>2. z \in kstack
      BY <1>2 DEF TreeInv, PagesExact
    <2>3. /\ IsFiniteSet(kstack') /\ KSTACKPAGE * Cardinality(kstack) \in Nat
          /\ KSTACKPAGE * Cardinality(kstack') = KSTACKPAGE * Cardinality(kstack) - KSTACKPAGE
      BY <1>1, <2>1, <2>2, Counting
    <2>4. nr_free' + heap' + KSTACKPAGE * Cardinality(kstack') + MmPages * Cardinality(mm')
            = TotalPages
      BY <1>1, <2>1, <2>3
    <2>5. kstack' = {q \in Procs \ {idleproc} : state'[q] # "FREE"}
      BY <1>1, <1>2, <1>3 DEF TreeInv, PagesExact
    <2>6. mm' \subseteq {q \in Users : state'[q] \notin {"FREE", "ZOMBIE"}}
      BY <1>1, <1>2, <1>3 DEF TreeInv, PagesExact, Users
    <2> QED  BY <1>1, <2>1, <2>3, <2>4, <2>5, <2>6 DEF PagesExact
  <1> QED  BY <1>6, <1>7, <1>8, <1>9, <1>10, <1>11, <1>12, <1>13 DEF TreeInv

----------------------------------------------------------------------------
(* do_exit and do_execve                                                   *)

\* A process that exits gives its address space back.
LEMMA ExitZombieTree ==
    ASSUME Inv, TreeInv, NEW p \in Procs, ExitZombie(p)
    PROVE  TreeInv'
  <1> USE ProcsAssumption, PagesAssumption
  <1>1. /\ p = current /\ panic = "none"
        /\ pc[p] = "exit"
        /\ p # initproc
        /\ mm' = mm \ {p}
        /\ nr_free' = nr_free + CopyPages(p)
        /\ pc' = [pc EXCEPT ![current] = "exit_notify"]
        /\ UNCHANGED <<current, treeVars, kstack, heap, proc, wait_pid, exiting, panic>>
    BY DEF ExitZombie, At, Goto
  <1>2. /\ \A q \in Procs : pc'[q] = IF q = p THEN "exit_notify" ELSE pc[q]
        /\ \A q \in Procs : state'[q] = IF q = p THEN "ZOMBIE" ELSE state[q]
    BY <1>1 DEF ExitZombie, Inv, TypeOK
  <1>3. state[p] = "RUNNABLE" /\ p # idleproc
    BY <1>1 DEF Inv, OnCpu, KernelThreads, ExitPcs
  <1>4. LinkedExact'
    BY <1>1, <1>2, <1>3 DEF TreeInv, LinkedExact, treeVars
  <1>5. Hung'
    <2>1. linked \subseteq Procs
      BY DEF Inv, TypeOK
    <2> QED  BY <1>1, <1>2, <2>1 DEF TreeInv, Hung, treeVars
  <1>6. Rooted' /\ HasLeaf'
    BY <1>1 DEF TreeInv, Rooted, HasLeaf, treeVars
  <1>7. Own' /\ Loading'
    BY <1>1, <1>2 DEF Own, TreeInv, Loading
  <1>8. InitThread'
    BY <1>1, InitKeeps DEF Labels, treeVars
  <1>9. SleepersWait'
    <2>1. \A q \in Procs : Scanned(q)' = Scanned(q)
      BY <1>1 DEF Scanned, Children, find_proc, treeVars
    <2> QED  BY <1>2, <2>1 DEF TreeInv, SleepersWait
  <1>10. PagesExact'
    <2>1. /\ nr_free \in Nat /\ heap \in Nat /\ KSTACKPAGE * Cardinality(kstack) \in Nat
          /\ IsFiniteSet(kstack) /\ IsFiniteSet(mm)
          /\ nr_free + heap + KSTACKPAGE * Cardinality(kstack) + MmPages * Cardinality(mm)
                = TotalPages
      BY Counting DEF TreeInv, PagesExact, Inv, TypeOK
    <2>2. /\ IsFiniteSet(mm') /\ MmPages * Cardinality(mm) \in Nat
          /\ MmPages * Cardinality(mm') = MmPages * Cardinality(mm) - CopyPages(p)
          /\ CopyPages(p) \in Nat
      <3>1. CASE p \in mm
        BY <1>1, <2>1, <3>1, Counting DEF CopyPages
      <3>2. CASE p \notin mm
        <4>1. MmPages * Cardinality(mm) \in Nat /\ mm' = mm
          BY <1>1, <2>1, <3>2, Counting
        <4> QED  BY <2>1, <3>2, <4>1 DEF CopyPages
      <3> QED  BY <3>1, <3>2
    <2>3. nr_free' + heap' + KSTACKPAGE * Cardinality(kstack') + MmPages * Cardinality(mm')
            = TotalPages
      BY <1>1, <2>1, <2>2
    <2>4. kstack' = {q \in Procs \ {idleproc} : state'[q] # "FREE"}
      BY <1>1, <1>2, <1>3 DEF TreeInv, PagesExact
    <2>5. mm' \subseteq {q \in Users : state'[q] \notin {"FREE", "ZOMBIE"}}
      BY <1>1, <1>2 DEF TreeInv, PagesExact, Users
    <2> QED  BY <1>1, <2>1, <2>2, <2>3, <2>4, <2>5 DEF PagesExact
  <1> QED  BY <1>4, <1>5, <1>6, <1>7, <1>8, <1>9, <1>10 DEF TreeInv

\* The children of an exiting process are hung below initproc, which hangs
\* below nobody: no cycle arises, and nobody is left below the dead.
LEMMA ExitReparentTree ==
    ASSUME Inv, TreeInv, NEW p \in Procs, ExitReparent(p)
    PROVE  TreeInv'
  <1> USE ProcsAssumption
  <1>1. /\ p = current /\ panic = "none"
        /\ pc[p] = "exit_reparent"
        /\ parent' = [q \in Procs |-> IF q \in Children(p) THEN initproc ELSE parent[q]]
        /\ \/ UNCHANGED schedVars
           \/ wait_state[initproc] = WT_CHILD /\ wakeup_proc(initproc)
        /\ pc' = [pc EXCEPT ![current] = "exit_sched"]
        /\ UNCHANGED <<linked, memVars, proc, wait_pid, exiting, panic>>
    BY DEF ExitReparent, At, Goto
  <1>2. \A q \in Procs : pc'[q] = IF q = p THEN "exit_sched" ELSE pc[q]
    BY <1>1 DEF Inv, TypeOK
  <1>3. /\ state[p] = "ZOMBIE"
        /\ p \notin {idleproc, initproc}
        /\ linked \subseteq Procs
        /\ initproc \in linked
        /\ state[initproc] # "UNINIT" /\ pc[initproc] \notin ExitPcs
    BY <1>1 DEF Inv, PcState, KernelThreads, ExitPcs, TypeOK, TreeInv, LinkedExact
  <1>4. /\ Alike /\ current' = current
        /\ \A q \in Procs : state'[q] = "SLEEPING" => state[q] = "SLEEPING"
    <2>1. UNCHANGED schedVars \/ \E q \in Procs : state[q] = "SLEEPING" /\ wakeup_proc(q)
      BY <1>1 DEF Inv, PcState
    <2> QED  BY <2>1, WakeupAlike
  <1>5. \A q \in linked : /\ parent[q] = p => parent'[q] = initproc
                          /\ parent[q] # p => parent'[q] = parent[q]
    BY <1>1, <1>3 DEF Children
  <1>6. parent'[initproc] = idleproc /\ parent[initproc] = idleproc
    BY <1>3, <1>5 DEF TreeInv, InitThread
  <1>7. LinkedExact'
    <2>1. \A q \in Procs : state'[q] \in {"FREE", "UNINIT"} <=> state[q] \in {"FREE", "UNINIT"}
      BY <1>4 DEF Alike
    <2> QED  BY <1>1, <1>2, <1>4, <2>1 DEF TreeInv, LinkedExact
  <1>8. Hung'
    <2> SUFFICES ASSUME NEW q \in linked \ {initproc}
                 PROVE  /\ parent'[q] \in linked
                        /\ state'[parent'[q]] # "UNINIT"
                        /\ pc'[parent'[q]] \notin {"exit_sched", "dead"}
      BY <1>1 DEF Hung
    <2>1. /\ parent[q] \in linked /\ parent[q] \in Procs
          /\ state[parent[q]] # "UNINIT"
          /\ pc[parent[q]] \notin {"exit_sched", "dead"}
      BY <1>3 DEF TreeInv, Hung
    <2>2. \A r \in Procs : state[r] # "UNINIT" => state'[r] # "UNINIT"
      BY <1>4 DEF Alike
    <2>3. CASE parent[q] = p
      BY <1>2, <1>3, <1>5, <2>2, <2>3 DEF ExitPcs
    <2>4. CASE parent[q] # p
      BY <1>2, <1>5, <2>1, <2>2, <2>4
    <2> QED  BY <2>3, <2>4
  <1>9. Rooted'
    <2> SUFFICES ASSUME NEW S \in SUBSET (linked \ {initproc}), S # {}
                 PROVE  \E q \in S : parent'[q] \notin S
      BY <1>1 DEF Rooted
    <2>1. PICK q \in S : parent[q] \notin S
      BY DEF TreeInv, Rooted
    <2> QED  BY <1>5, <2>1
  <1>10. HasLeaf'
    <2> SUFFICES ASSUME NEW S \in SUBSET linked, S # {}
                 PROVE  \E q \in S : \A r \in S : parent'[r] # q
      BY <1>1 DEF HasLeaf
    <2>1. CASE S \subseteq {initproc}
      BY <1>6, <2>1
    <2>2. CASE S \ {initproc} # {}
      <3>1. S \ {initproc} \in SUBSET linked
        OBVIOUS
      <3>2. PICK q \in S \ {initproc} : \A r \in S \ {initproc} : parent[r] # q
        BY <2>2, <3>1 DEF TreeInv, HasLeaf
      <3>3. q # idleproc
        BY <1>1, <3>2 DEF TreeInv, LinkedExact
      <3>4. \A r \in S \ {initproc} : parent'[r] # q
        BY <1>5, <3>2
      <3> QED  BY <1>6, <3>3, <3>4
    <2> QED  BY <2>1, <2>2
  <1>11. Own'
    BY <1>1, <1>2, <1>4 DEF Own
  <1>12. InitThread'
    <2>1. parent'[initproc] = parent[initproc]
      BY <1>6
    <2> QED  BY <1>1, <1>3, <2>1, InitKeeps DEF Labels
  <1>13. SleepersWait'
    <2> SUFFICES ASSUME NEW q \in Procs, state'[q] = "SLEEPING"
                 PROVE  Scanned(q)' # {}
      BY DEF SleepersWait
    <2>1. q # p /\ state[q] = "SLEEPING"
      BY <1>3, <1>4
    <2>2. PICK r \in linked : r \in Scanned(q)
      BY <2>1 DEF TreeInv, SleepersWait, Scanned, Children, find_proc
    <2>3. parent[r] = q
      BY <2>2 DEF Scanned, Children
    <2>4. parent'[r] = q
      BY <1>5, <2>1, <2>3
    <2>5. r \in Scanned(q)'
      BY <1>1, <2>2, <2>4 DEF Scanned, Children, find_proc
    <2> QED  BY <2>5
  <1>14. Loading'
    BY <1>1, <1>2 DEF TreeInv, Loading, memVars
  <1>15. PagesExact'
    <2>1. \A q \in Procs : /\ state'[q] = "FREE" <=> state[q] = "FREE"
                           /\ state'[q] = "ZOMBIE" <=> state[q] = "ZOMBIE"
      BY <1>4 DEF Alike
    <2> QED  BY <1>1, <2>1 DEF TreeInv, PagesExact, memVars, Users
  <1> QED  BY <1>7, <1>8, <1>9, <1>10, <1>11, <1>12, <1>13, <1>14, <1>15 DEF TreeInv

\* do_execve gives the process an address space, or fails.
LEMMA KernelExecTree ==
    ASSUME Inv, TreeInv, NEW p \in Procs, NEW g \in HeapGrowth, KernelExec(p, g)
    PROVE  PlainStep \/ TreeInv'
  <1> USE ProcsAssumption, PagesAssumption
  <1>1. /\ p = current /\ panic = "none"
        /\ pc[p] = "kexec"
        /\ p \in Users \ mm /\ p # initproc
        /\ nr_free \in Nat /\ heap \in Nat /\ g \in {0, 1}
        /\ state[p] = "RUNNABLE"
    BY DEF KernelExec, At, TreeInv, Loading, Users, Inv, TypeOK, HeapGrowth, OnCpu, ExitPcs
  <1>2. CASE Panic("out of memory")
    <2>1. /\ UNCHANGED <<state, current, treeVars, kstack, mm, localVars, exiting>>
          /\ nr_free' + heap' = nr_free + heap
          /\ panic' # "initproc exit"
      BY <1>2 DEF Panic, schedVars, memVars
    <2> QED  BY <2>1, StayPlain
  <1>3. CASE /\ heap' = heap + g /\ nr_free' = nr_free - g
             /\ pc' = [pc EXCEPT ![p] = "exit"]
             /\ UNCHANGED <<mm, schedVars, treeVars, kstack, proc, wait_pid,
                            exiting, fl_if, panic>>
    <2>1. nr_free' + heap' = nr_free + heap
      BY <1>1, <1>3
    <2> QED  BY <1>1, <1>3, <2>1, GotoPlain
                DEF schedVars, treeVars, Alike, Moves, Labels, TreeInv, SleepersWait, InitThread
  <1>4. CASE /\ heap' = heap + g /\ nr_free' = nr_free - g - MmPages
             /\ mm' = mm \cup {p}
             /\ pc' = [pc EXCEPT ![current] = "user"]
             /\ UNCHANGED <<schedVars, treeVars, kstack, proc, wait_pid,
                            exiting, fl_if, panic>>
    <2>1. \A q \in Procs : pc'[q] = IF q = p THEN "user" ELSE pc[q]
      BY <1>1, <1>4 DEF Inv, TypeOK
    <2>2. LinkedExact' /\ Own' /\ Rooted' /\ HasLeaf'
      BY <1>1, <1>4, <2>1 DEF TreeInv, LinkedExact, Own, Rooted, HasLeaf, schedVars, treeVars
    <2>3. Hung'
      <3>1. linked \subseteq Procs
        BY DEF Inv, TypeOK
      <3> QED  BY <1>4, <2>1, <3>1 DEF TreeInv, Hung, schedVars, treeVars
    <2>4. InitThread'
      BY <1>1, <1>4, InitKeeps DEF Labels, treeVars
    <2>5. SleepersWait'
      BY <1>4 DEF TreeInv, SleepersWait, Scanned, Children, find_proc, schedVars, treeVars
    <2>6. Loading'
      BY <1>1, <1>4, <2>1 DEF TreeInv, Loading
    <2>7. PagesExact'
      <3>1. /\ KSTACKPAGE * Cardinality(kstack) \in Nat
            /\ IsFiniteSet(kstack) /\ IsFiniteSet(mm)
            /\ nr_free + heap + KSTACKPAGE * Cardinality(kstack) + MmPages * Cardinality(mm)
                  = TotalPages
        BY Counting DEF TreeInv, PagesExact
      <3>2. /\ IsFiniteSet(mm') /\ MmPages * Cardinality(mm) \in Nat
            /\ MmPages * Cardinality(mm') = MmPages * Cardinality(mm) + MmPages
        BY <1>1, <1>4, <3>1, Counting
      <3>3. nr_free' + heap' + KSTACKPAGE * Cardinality(kstack') + MmPages * Cardinality(mm')
              = TotalPages
        BY <1>1, <1>4, <3>1, <3>2
      <3>4. /\ kstack' = {q \in Procs \ {idleproc} : state'[q] # "FREE"}
            /\ mm' \subseteq {q \in Users : state'[q] \notin {"FREE", "ZOMBIE"}}
        BY <1>1, <1>4 DEF TreeInv, PagesExact, schedVars
      <3> QED  BY <1>4, <3>1, <3>2, <3>3, <3>4 DEF PagesExact
    <2> QED  BY <2>2, <2>3, <2>4, <2>5, <2>6, <2>7 DEF TreeInv
  <1> QED  BY <1>1, <1>2, <1>3, <1>4 DEF KernelExec, Goto

----------------------------------------------------------------------------
(* Every step.                                                             *)

\* The steps that make or end a process, or change what it owns.
TreeStep(p) ==
    \/ \E c \in Procs, g \in HeapGrowth : ForkAlloc(p, c, g)
    \/ ForkLink(p) \/ ForkWake(p)
    \/ WaitReap(p)
    \/ ExitZombie(p) \/ ExitReparent(p)
    \/ \E g \in HeapGrowth : KernelExec(p, g)

\* The others leave the tree alone.
LEMMA OtherSteps ==
    ASSUME Inv, TreeInv, [Next]_vars
    PROVE  PlainStep \/ \E p \in Procs : TreeStep(p)
  <1>1. ASSUME NEW p \in Procs, Fork(p)
        PROVE  PlainStep \/ TreeStep(p)
    BY <1>1, ForkFailsPlain, PanicPlain DEF Fork, TreeStep
  <1>2. ASSUME NEW p \in Procs, KernelStep(p)
        PROVE  PlainStep \/ TreeStep(p)
    <2>1. CASE Fork(p)
      BY <1>1, <2>1
    <2>2. CASE \/ \E z \in Procs : WaitFind(p, z)
               \/ WaitSleep(p) \/ WaitResume(p) \/ WaitNoChild(p)
      BY <2>2, WaitPlain
    <2>3. CASE \/ ExitSchedule(p) \/ WaitSchedule(p) \/ InitSchedule(p)
               \/ IdleSchedule(p) \/ TrapReturn(p)
      BY <2>3, SwitchesPlain
    <2>4. CASE ExitOfInit(p)
      BY <2>4, PanicPlain
    <2>5. CASE ExitNotify(p)
      BY <2>5, NotifyPlain
    <2>6. CASE InitReturn(p)
      BY <2>6, UserPlain
    <2> QED  BY <1>2, <2>1, <2>2, <2>3, <2>4, <2>5, <2>6 DEF KernelStep, TreeStep
  <1>3. ASSUME NEW p \in Procs, UserStep(p)
        PROVE  PlainStep \/ TreeStep(p)
    <2>1. CASE p # initproc /\ Syscall(p)
      <3>1. CASE Fork(p)
        BY <1>1, <3>1
      <3>2. CASE \E pid \in (Procs \ {idleproc}) \cup {NULL} : SysWait(p, pid)
        BY <2>1, <3>2, WaitPlain
      <3>3. CASE \E q \in Procs : SysKill(p, q)
        BY <3>3, NotifyPlain
      <3>4. CASE SysExit(p) \/ SysYield(p) \/ SysOther(p)
        BY <3>4, UserPlain
      <3>5. CASE SysUndefined(p)
        BY <3>5, PanicPlain
      <3> QED  BY <2>1, <3>1, <3>2, <3>3, <3>4, <3>5 DEF Syscall
    <2>2. CASE UserException(p)
      BY <2>2, UserPlain
    <2>3. CASE UserPageFault(p)
      BY <2>3, UserPlain, PanicPlain
    <2> QED  BY <1>3, <2>1, <2>2, <2>3 DEF UserStep
  <1>4. ASSUME NEW p \in Procs, UserTick(p) \/ KernelTick(p)
        PROVE  PlainStep
    <2>1. CASE UserTick(p)
      BY <2>1, UserPlain
    <2>2. CASE KernelTick(p)
      BY <2>2, StayPlain DEF KernelTick, memVars, Inv, TypeOK
    <2> QED  BY <1>4, <2>1, <2>2
  <1>5. CASE KMonitor
    BY <1>5, PanicPlain, IdleAssumption
  <1>6. CASE UNCHANGED vars
    BY <1>6, StayPlain DEF vars, schedVars, memVars, Inv, TypeOK
  <1> QED  BY <1>2, <1>3, <1>4, <1>5, <1>6 DEF Next, Tick

LEMMA StepTree == Inv /\ TreeInv /\ [Next]_vars => TreeInv'
  <1> SUFFICES ASSUME Inv, TreeInv, [Next]_vars PROVE TreeInv'
    OBVIOUS
  <1>1. Inv'
    BY StepInv
  <1>2. CASE PlainStep
    BY <1>1, <1>2, PlainKeeps
  <1>3. ASSUME NEW p \in Procs, TreeStep(p) PROVE TreeInv'
    <2>1. CASE \E g \in HeapGrowth : KernelExec(p, g)
      BY <1>1, <2>1, KernelExecTree, PlainKeeps
    <2> QED  BY <1>3, <2>1, ForkAllocTree, ForkLinkTree, ForkWakeTree, WaitReapTree,
                ExitZombieTree, ExitReparentTree DEF TreeStep
  <1> QED  BY <1>2, <1>3, OtherSteps

\* The processes always form a tree below initproc, and own what they should.
THEOREM ForestInvariance == Spec => [](Inv /\ TreeInv)
  <1>1. Spec => []TreeInv
    BY InitTree, StepTree, Invariance, PTL DEF Spec
  <1> QED  BY <1>1, Invariance, PTL

----------------------------------------------------------------------------
(* What follows.                                                           *)

\* No page is lost, none is owned twice, and init_main's assertions hold
\* whatever has been forked, loaded, killed and reaped before.
THEOREM PagesNeverLost == Spec => []PagesConserved
  <1>1. ASSUME Inv, TreeInv PROVE PagesConserved
    <2> USE <1>1, ProcsAssumption, PagesAssumption
    <2>1. PagesExact
      BY DEF TreeInv
    <2>2. ASSUME pc[initproc] = "init_check"
          PROVE  /\ Children(initproc) = {}
                 /\ nr_process = 2
                 /\ linked = {initproc}
                 /\ \A p \in Users : state[p] = "FREE"
                 /\ nr_free + heap = nr_free_pages_store
      <3>1. linked = {initproc} /\ parent[initproc] = idleproc
        BY <2>2 DEF TreeInv, InitThread
      <3>2. current = initproc
        BY <2>2 DEF Inv, OffCpu, OffCpuPcs
      <3>3. Cardinality({initproc}) = 1 /\ Cardinality({}) = 0
        BY FS_Singleton, FS_EmptySet
      <3>4. nr_process = 2
        BY <3>1, <3>3 DEF Inv, Counted, CountExact
      <3>5. \A p \in Users : state[p] = "FREE"
        <4> SUFFICES ASSUME NEW p \in Users PROVE state[p] = "FREE"
          OBVIOUS
        <4>1. state[p] # "UNINIT"
          BY <2>2, <3>2 DEF Inv, PcState, Users
        <4>2. p \notin linked
          BY <3>1 DEF Users
        <4> QED  BY <4>1, <4>2 DEF TreeInv, LinkedExact, Users
      <3>6. kstack = {initproc} /\ mm = {}
        <4>1. state[initproc] # "FREE"
          BY DEF Inv, KernelThreads
        <4> QED  BY <2>1, <3>5, <4>1 DEF PagesExact, Users
      <3>7. nr_free + heap + KSTACKPAGE * 1 + MmPages * 0 = TotalPages
        BY <2>1, <3>3, <3>6 DEF PagesExact
      <3>8. nr_free \in Nat /\ heap \in Nat
        BY DEF Inv, TypeOK
      <3>9. nr_free + heap = TotalPages - KSTACKPAGE
        BY <3>7, <3>8
      <3> QED  BY <3>1, <3>4, <3>5, <3>9 DEF Children, nr_free_pages_store
    <2> QED  BY <2>1, <2>2 DEF PagesConserved, PagesExact, InitCheck
  <1> QED  BY <1>1, ForestInvariance, PTL

\* Somebody can always run, or is waited for from outside any set of sleepers:
\* one of them has no child in the set, and each waits for a child.
THEOREM NobodyEverHangs == Spec => []NobodyHangs
  <1>1. ASSUME Inv, TreeInv, current = idleproc PROVE run_list # <<>>
    <2> USE <1>1, ProcsAssumption, IdleAssumption
    <2> SUFFICES ASSUME run_list = <<>> PROVE FALSE
      OBVIOUS
    <2>1. pc[current] = "idle"
      BY DEF Inv, KernelThreads
    <2>2. \A p \in Procs \ {idleproc} : state[p] # "RUNNABLE"
      BY DEF Inv, RunQueueExact, Queued, Elems
    <2>3. \A p \in Procs : state[p] # "UNINIT"
      BY <2>1 DEF Inv, PcState
    <2> DEFINE S == {p \in linked : state[p] = "SLEEPING"}
    <2>4. initproc \in S
      BY <2>1, <2>2 DEF Inv, KernelThreads, TreeInv, LinkedExact
    <2>5. PICK p \in S : \A q \in S : parent[q] # p
      BY <2>4 DEF TreeInv, HasLeaf
    <2>6. p \in Procs /\ state[p] = "SLEEPING"
      BY DEF Inv, TypeOK
    <2>7. PICK q : q \in Scanned(p)
      BY <2>6 DEF TreeInv, SleepersWait
    <2>8. q \in linked /\ q \in Procs /\ parent[q] = p
      BY <2>7 DEF Scanned, Children, find_proc, Inv, TypeOK
    <2>9. state[q] # "ZOMBIE"
      BY <2>1, <2>6, <2>7 DEF Inv, NoLostWakeup
    <2>10. q # idleproc /\ state[q] # "FREE"
      BY <2>1, <2>8 DEF TreeInv, LinkedExact
    <2>11. state[q] \in {"FREE", "UNINIT", "SLEEPING", "RUNNABLE", "ZOMBIE"}
      BY <2>8 DEF Inv, TypeOK, ProcStates
    <2>12. q \in S
      BY <2>2, <2>3, <2>8, <2>9, <2>10, <2>11
    <2> QED  BY <2>5, <2>8, <2>12
  <1>2. ASSUME Inv, TreeInv,
               NEW S \in SUBSET {p \in Procs : state[p] = "SLEEPING"}, S # {}
        PROVE  \E p \in S : \E q \in Scanned(p) \ S : state[q] = "ZOMBIE" => current = q
    <2>1. S \subseteq linked
      BY <1>2, IdleAssumption DEF Inv, KernelThreads, TreeInv, LinkedExact
    <2>2. PICK p \in S : \A q \in S : parent[q] # p
      BY <1>2, <2>1 DEF TreeInv, HasLeaf
    <2>3. PICK q : q \in Scanned(p)
      BY <1>2 DEF TreeInv, SleepersWait
    <2>4. q \notin S
      BY <2>2, <2>3 DEF Scanned, Children, find_proc
    <2>5. state[q] = "ZOMBIE" => current = q
      BY <1>2, <2>3 DEF Inv, NoLostWakeup
    <2> QED  BY <2>3, <2>4, <2>5
  <1>3. ASSUME Inv, TreeInv PROVE NobodyHangs
    BY <1>1, <1>2, <1>3 DEF NobodyHangs
  <1> QED  BY <1>3, ForestInvariance, PTL

\* Nobody is left below a dead process, whatever the order of exits.
THEOREM ParentsLive == Spec => []LiveParents
  <1>1. ASSUME Inv, TreeInv PROVE LiveParents
    <2> USE <1>1, ProcsAssumption
    <2> SUFFICES ASSUME NEW p \in Procs \ {initproc},
                        p # idleproc, state[p] \notin {"FREE", "UNINIT"}
                 PROVE  /\ parent[p] \in Procs
                        /\ parent[p] # idleproc
                        /\ state[parent[p]] \notin {"FREE", "UNINIT"}
                        /\ pc[parent[p]] \notin {"exit_sched", "dead"}
      BY DEF LiveParents, Tree!LiveParents, TreeInv, InitThread
    <2>1. p \in linked
      BY DEF TreeInv, LinkedExact
    <2>2. /\ parent[p] \in linked
          /\ state[parent[p]] # "UNINIT"
          /\ pc[parent[p]] \notin {"exit_sched", "dead"}
      BY <2>1 DEF TreeInv, Hung
    <2>3. parent[p] \in Procs
      BY <2>2 DEF Inv, TypeOK
    <2>4. parent[p] # idleproc /\ state[parent[p]] # "FREE"
      BY <2>2, <2>3 DEF TreeInv, LinkedExact, Inv, OnCpu
    <2> QED  BY <2>2, <2>3, <2>4
  <1> QED  BY <1>1, ForestInvariance, PTL

----------------------------------------------------------------------------
(* Process management implements ProcTree.                                 *)

\* What a process is in the tree, and whose child.
LifeOf(p) ==
    IF p = idleproc \/ state[p] \in {"FREE", "UNINIT"} THEN "none"
    ELSE IF pc[p] \in {"exit_sched", "dead"} THEN "zombie" ELSE "live"

ParOf(p) ==
    IF p \in {idleproc, initproc} \/ state[p] \in {"FREE", "UNINIT"}
    THEN NULL ELSE parent[p]

\* A step that leaves the tree alone.
LEMMA TreeStutters ==
    ASSUME UNCHANGED parent,
           \A q \in Procs : /\ state'[q] \in {"FREE", "UNINIT"} <=> state[q] \in {"FREE", "UNINIT"}
                            /\ state[q] \notin {"FREE", "UNINIT"} =>
                                (pc'[q] \in {"exit_sched", "dead"} <=> pc[q] \in {"exit_sched", "dead"})
    PROVE  UNCHANGED Tree!treeVars
  <1>1. \A q \in Procs : LifeOf(q)' = LifeOf(q) /\ ParOf(q)' = ParOf(q)
    BY DEF LifeOf, ParOf
  <1> QED  BY <1>1 DEF Tree!treeVars, LifeOf, ParOf

\* wakeup_proc in do_fork puts a child into the tree.
LEMMA ForkWakeMaps ==
    ASSUME Inv, TreeInv, NEW p \in Procs, NEW c \in Procs, c = proc[p], ForkWake(p)
    PROVE  Tree!Fork(p, c)
  <1> USE ProcsAssumption
  <1>1. /\ p = current /\ pc[p] = "fork_wake"
        /\ pc' = [pc EXCEPT ![p] = AfterFork(p)]
        /\ wakeup_proc(c)
        /\ UNCHANGED parent
    BY DEF ForkWake, At, Goto, treeVars
  <1>2. /\ c \in Procs /\ state[c] = "UNINIT" /\ state[p] = "RUNNABLE"
        /\ c \notin {p, idleproc, initproc}
        /\ p # idleproc
        /\ parent[c] = p
    BY <1>1 DEF Inv, OnCpu, KernelThreads, ExitPcs, TreeInv, Own
  <1>3. /\ \A q \in Procs : state'[q] = IF q = c THEN "RUNNABLE" ELSE state[q]
        /\ \A q \in Procs : pc'[q] = IF q = p THEN AfterFork(p) ELSE pc[q]
    BY <1>1, <1>2 DEF wakeup_proc, Inv, TypeOK
  <1>4. pc[c] \notin {"exit_sched", "dead"}
    BY <1>2 DEF Inv, PcState, ExitPcs
  <1>5. \A q \in Procs : LifeOf(q)' = IF q = c THEN "live" ELSE LifeOf(q)
    BY <1>1, <1>2, <1>3, <1>4 DEF LifeOf, AfterFork
  <1>6. \A q \in Procs : ParOf(q)' = IF q = c THEN p ELSE ParOf(q)
    BY <1>1, <1>2, <1>3 DEF ParOf
  <1>7. LifeOf(p) = "live" /\ LifeOf(c) = "none"
    BY <1>1, <1>2 DEF LifeOf
  <1> QED  BY <1>2, <1>5, <1>6, <1>7 DEF Tree!Fork, LifeOf, ParOf

\* The children are handed over in the step after which the process is dead.
LEMMA ExitReparentMaps ==
    ASSUME Inv, TreeInv, NEW p \in Procs, ExitReparent(p)
    PROVE  Tree!Exit(p)
  <1> USE ProcsAssumption
  <1>1. /\ p = current /\ pc[p] = "exit_reparent"
        /\ parent' = [q \in Procs |-> IF q \in Children(p) THEN initproc ELSE parent[q]]
        /\ \/ UNCHANGED schedVars
           \/ wait_state[initproc] = WT_CHILD /\ wakeup_proc(initproc)
        /\ pc' = [pc EXCEPT ![p] = "exit_sched"]
    BY DEF ExitReparent, At, Goto
  <1>2. /\ state[p] = "ZOMBIE"
        /\ p \notin {idleproc, initproc}
        /\ parent[initproc] # p
    BY <1>1 DEF Inv, PcState, KernelThreads, ExitPcs, TreeInv, InitThread
  <1>3. \A q \in Procs : pc'[q] = IF q = p THEN "exit_sched" ELSE pc[q]
    BY <1>1 DEF Inv, TypeOK
  <1>4. \A q \in Procs : state'[q] \in {"FREE", "UNINIT"} <=> state[q] \in {"FREE", "UNINIT"}
    <2>1. UNCHANGED schedVars \/ \E q \in Procs : state[q] = "SLEEPING" /\ wakeup_proc(q)
      BY <1>1 DEF Inv, PcState
    <2> QED  BY <2>1, WakeupAlike DEF Alike
  <1>5. \A q \in Procs : q \in Children(p) <=> ParOf(q) = p
    <2> SUFFICES ASSUME NEW q \in Procs PROVE q \in Children(p) <=> ParOf(q) = p
      OBVIOUS
    <2>1. q \in linked <=> q # idleproc /\ state[q] \notin {"FREE", "UNINIT"}
      BY <1>1 DEF TreeInv, LinkedExact
    <2> QED  BY <1>2, <2>1 DEF Children, ParOf
  <1>6. \A q \in Procs : LifeOf(q)' = IF q = p THEN "zombie" ELSE LifeOf(q)
    BY <1>2, <1>3, <1>4 DEF LifeOf
  <1>7. \A q \in Procs : ParOf(q)' = IF ParOf(q) = p THEN initproc ELSE ParOf(q)
    BY <1>1, <1>2, <1>4, <1>5 DEF ParOf
  <1>8. LifeOf(p) = "live"
    BY <1>1, <1>2 DEF LifeOf
  <1>9. \A q \in Procs : q \in Tree!Kids(p) <=> ParOf(q) = p
    BY DEF Tree!Kids, ParOf
  <1>10. [q \in Procs |-> ParOf(q)'] =
            [q \in Procs |-> IF q \in Tree!Kids(p) THEN initproc ELSE ParOf(q)]
    BY <1>7, <1>9
  <1> QED  BY <1>2, <1>6, <1>8, <1>10 DEF Tree!Exit, LifeOf, ParOf

\* do_wait takes a zombie out of the tree, and only the parent's does.
LEMMA WaitReapMaps ==
    ASSUME Inv, TreeInv, NEW p \in Procs, NEW z \in Procs, z = proc[p], WaitReap(p)
    PROVE  Tree!Reap(p, z)
  <1> USE ProcsAssumption
  <1>1. p = current /\ pc[p] = "wait_found"
    BY DEF WaitReap, At
  <1>2. /\ z \in Procs /\ state[z] = "ZOMBIE" /\ state[p] = "RUNNABLE"
        /\ z \notin {p, idleproc, initproc}
        /\ p # idleproc
        /\ pc[z] = "dead"
        /\ parent[z] = p
    <2>1. z \in linked /\ state[z] = "ZOMBIE" /\ state[p] = "RUNNABLE" /\ parent[z] = p
      BY <1>1 DEF Inv, OnCpu, ExitPcs, TreeInv, Own
    <2>2. z \in Procs /\ pc[z] \in ExitPcs /\ z \notin {p, idleproc, initproc}
      BY <2>1 DEF Inv, TypeOK, PcState, KernelThreads
    <2>3. pc[z] = "dead" /\ p # idleproc
      BY <1>1, <2>2 DEF Inv, OffCpu, OffCpuPcs, ExitPcs, KernelThreads
    <2> QED  BY <2>1, <2>2, <2>3
  <1>3. /\ \A q \in Procs : state'[q] = IF q = z THEN "FREE" ELSE state[q]
        /\ \A q \in Procs : parent'[q] = IF q = z THEN NULL ELSE parent[q]
        /\ \A q \in Procs \ {z} : pc'[q] = IF q = p THEN AfterReap(p) ELSE pc[q]
    BY <1>2 DEF WaitReap, Inv, TypeOK
  <1>4. \A q \in Procs : LifeOf(q)' = IF q = z THEN "none" ELSE LifeOf(q)
    BY <1>1, <1>2, <1>3 DEF LifeOf, AfterReap
  <1>5. \A q \in Procs : ParOf(q)' = IF q = z THEN NULL ELSE ParOf(q)
    BY <1>2, <1>3 DEF ParOf
  <1>6. LifeOf(p) = "live" /\ LifeOf(z) = "zombie" /\ ParOf(z) = p
    BY <1>1, <1>2 DEF LifeOf, ParOf
  <1> QED  BY <1>2, <1>4, <1>5, <1>6 DEF Tree!Reap, Tree!Kids, LifeOf, ParOf

\* The other steps that change what a process owns.
LEMMA OwnStutters ==
    ASSUME Inv, TreeInv, NEW p \in Procs,
           \/ \E c \in Procs, g \in HeapGrowth : ForkAlloc(p, c, g)
           \/ ForkLink(p) \/ ExitZombie(p)
           \/ \E g \in HeapGrowth : KernelExec(p, g)
    PROVE  UNCHANGED Tree!treeVars
  <1> USE ProcsAssumption
  <1>1. ASSUME NEW c \in Procs, NEW g \in HeapGrowth, ForkAlloc(p, c, g)
        PROVE  UNCHANGED Tree!treeVars
    <2>1. p = current /\ pc[p] \in {"user", "init_main"} /\ state[c] = "FREE"
      BY <1>1 DEF ForkAlloc, ForkCall, At
    <2>2. /\ \A q \in Procs : state'[q] = IF q = c THEN "UNINIT" ELSE state[q]
          /\ \A q \in Procs \ {c} : parent'[q] = parent[q]
          /\ \A q \in Procs \ {c} : pc'[q] = IF q = p THEN "fork_link" ELSE pc[q]
      BY <1>1 DEF ForkAlloc, Inv, TypeOK
    <2>3. \A q \in Procs : LifeOf(q)' = LifeOf(q) /\ ParOf(q)' = ParOf(q)
      BY <2>1, <2>2 DEF LifeOf, ParOf
    <2> QED  BY <2>3 DEF Tree!treeVars, LifeOf, ParOf
  <1>2. CASE ForkLink(p)
    <2>1. /\ UNCHANGED <<state, parent>>
          /\ pc[p] = "fork_link"
          /\ pc' = [pc EXCEPT ![p] = "fork_wake"]
      BY <1>2 DEF ForkLink, At, Goto, schedVars
    <2>2. \A q \in Procs : pc'[q] = IF q = p THEN "fork_wake" ELSE pc[q]
      BY <2>1 DEF Inv, TypeOK
    <2> QED  BY <2>1, <2>2, TreeStutters
  <1>3. CASE ExitZombie(p)
    <2>1. /\ UNCHANGED parent
          /\ pc[p] = "exit" /\ p = current
          /\ \A q \in Procs : pc'[q] = IF q = p THEN "exit_notify" ELSE pc[q]
          /\ \A q \in Procs : state'[q] = IF q = p THEN "ZOMBIE" ELSE state[q]
      BY <1>3 DEF ExitZombie, At, Goto, treeVars, Inv, TypeOK
    <2>2. state[p] = "RUNNABLE"
      BY <2>1 DEF Inv, OnCpu, ExitPcs
    <2> QED  BY <2>1, <2>2, TreeStutters
  <1>4. ASSUME NEW g \in HeapGrowth, KernelExec(p, g)
        PROVE  UNCHANGED Tree!treeVars
    <2>1. /\ UNCHANGED <<state, parent>>
          /\ pc[p] = "kexec"
          /\ \/ pc' = pc
             \/ pc' = [pc EXCEPT ![p] = "user"]
             \/ pc' = [pc EXCEPT ![p] = "exit"]
      BY <1>4 DEF KernelExec, At, Goto, Panic, schedVars, treeVars, localVars
    <2>2. /\ \A q \in Procs \ {p} : pc'[q] = pc[q]
          /\ pc'[p] \in {"kexec", "user", "exit"}
      BY <2>1 DEF Inv, TypeOK
    <2> QED  BY <2>1, <2>2, TreeStutters
  <1> QED  BY <1>1, <1>2, <1>3, <1>4

\* Fork, exit, reparent and reap do together what ProcTree promises: every
\* behaviour of the kernel, seen as a tree, is one of ProcTree's.
THEOREM TreeRefinement == Spec => ImplementsTree
  <1>1. Init => Tree!Init
    BY ProcsAssumption, IdleAssumption DEF Init, Tree!Init
  <1>2. Inv /\ TreeInv /\ [Next]_vars => [Tree!Next]_Tree!treeVars
    <2> SUFFICES ASSUME Inv, TreeInv, [Next]_vars
                 PROVE  [Tree!Next]_Tree!treeVars
      OBVIOUS
    <2>1. CASE PlainStep
      <3>1. /\ UNCHANGED parent
            /\ \A q \in Procs : state'[q] \in {"FREE", "UNINIT"} <=> state[q] \in {"FREE", "UNINIT"}
            /\ \A q \in Procs : pc'[q] = pc[q] \/ <<pc[q], pc'[q]>> \in Moves
        BY <2>1 DEF PlainStep, Alike
      <3> QED  BY <3>1, TreeStutters DEF Moves
    <2>2. ASSUME NEW p \in Procs, TreeStep(p)
          PROVE  [Tree!Next]_Tree!treeVars
      <3>1. CASE ForkWake(p)
        <4>1. PICK c \in Procs : c = proc[p]
          BY <3>1 DEF ForkWake, At, Inv, OnCpu
        <4> QED  BY <3>1, <4>1, ForkWakeMaps DEF Tree!Next
      <3>2. CASE WaitReap(p)
        <4>1. PICK z \in Procs : z = proc[p]
          BY <3>2 DEF WaitReap, At, Inv, OnCpu, TypeOK
        <4> QED  BY <3>2, <4>1, WaitReapMaps DEF Tree!Next
      <3>3. CASE ExitReparent(p)
        BY <3>3, ExitReparentMaps DEF Tree!Next
      <3>4. CASE \/ \E c \in Procs, g \in HeapGrowth : ForkAlloc(p, c, g)
                 \/ ForkLink(p) \/ ExitZombie(p)
                 \/ \E g \in HeapGrowth : KernelExec(p, g)
        BY <3>4, OwnStutters
      <3> QED  BY <2>2, <3>1, <3>2, <3>3, <3>4 DEF TreeStep
    <2> QED  BY <2>1, <2>2, OtherSteps
  <1> QED  BY <1>1, <1>2, ForestInvariance, PTL DEF Spec, ImplementsTree, Tree!Spec
============================================================================
