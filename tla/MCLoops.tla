------------------------------ MODULE MCLoops ------------------------------
(***************************************************************************)
(* The two loops of the kernel that go back to their start: the scan of    *)
(* get_pid, which restarts when a pid turns out to be taken, and that of   *)
(* alloc_pages, which swaps out until it has a frame.  They share nothing; *)
(* part says which of them works, the other stays as it starts.            *)
(***************************************************************************)
EXTENDS Swap, PidAlloc

VARIABLE part

MCInit == part \in {"pids", "swapping"} /\ Init /\ GetPidInit

MCNext ==
    \/ part = "swapping" /\ Next /\ UNCHANGED <<part, GetPidVars>>
    \/ part = "pids" /\ GetPidNext /\ UNCHANGED <<part, vars>>

\* The fairness of each of the two.
MCSpec == MCInit /\ [][MCNext]_<<part, vars, GetPidVars>> /\ Fairness /\ GetPidFairness

============================================================================
