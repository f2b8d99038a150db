------------------------------ MODULE PidSpec ------------------------------
(***************************************************************************)
(* What get_pid promises: some pid that no process in proc_list has.       *)
(***************************************************************************)
EXTENDS Naturals

CONSTANT MAX_PID

VARIABLES
    pids,       \* the pids in use
    count       \* the number of processes that have them

vars == <<pids, count>>

Init == pids = {1} /\ count = 1

Alloc(pid) ==
    /\ pid \in (1 .. MAX_PID - 1) \ pids
    /\ pids' = pids \cup {pid}
    /\ count' = count + 1

Free(pid) ==
    /\ pid \in pids \ {1}
    /\ pids' = pids \ {pid}
    /\ count' = count - 1

Next == \E pid \in 1 .. MAX_PID - 1 : Alloc(pid) \/ Free(pid)

Spec == Init /\ [][Next]_vars

============================================================================
