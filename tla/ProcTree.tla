------------------------------ MODULE ProcTree ------------------------------
(***************************************************************************)
(* What process management promises to its users, without scheduler,       *)
(* sleeping, signals or memory: processes form a tree, an exit hands every *)
(* child to initproc in the same step that makes the process a zombie, and *)
(* only the parent of a zombie takes it out of the tree, once.             *)
(***************************************************************************)
CONSTANTS Procs, initproc, NoProc

VARIABLES
    life,   \* "none", "live" or "zombie"
    par     \* the parent of a process in the tree, NoProc outside it

treeVars == <<life, par>>

Kids(p) == {q \in Procs : par[q] = p}

TypeOK ==
    /\ life \in [Procs -> {"none", "live", "zombie"}]
    /\ par \in [Procs -> Procs \cup {NoProc}]

Init ==
    /\ life = [p \in Procs |-> IF p = initproc THEN "live" ELSE "none"]
    /\ par = [p \in Procs |-> NoProc]

Fork(p, c) ==
    /\ life[p] = "live"
    /\ life[c] = "none"
    /\ life' = [life EXCEPT ![c] = "live"]
    /\ par' = [par EXCEPT ![c] = p]

Exit(p) ==
    /\ p # initproc
    /\ life[p] = "live"
    /\ life' = [life EXCEPT ![p] = "zombie"]
    /\ par' = [q \in Procs |-> IF q \in Kids(p) THEN initproc ELSE par[q]]

Reap(p, z) ==
    /\ life[p] = "live"
    /\ z \in Kids(p)
    /\ life[z] = "zombie"
    /\ life' = [life EXCEPT ![z] = "none"]
    /\ par' = [par EXCEPT ![z] = NoProc]

Next ==
    \/ \E p, c \in Procs : Fork(p, c)
    \/ \E p \in Procs : Exit(p)
    \/ \E p, z \in Procs : Reap(p, z)

Spec == Init /\ [][Next]_treeVars

----------------------------------------------------------------------------
\* Every process in the tree except initproc hangs below a live process: no
\* child is left behind by a parent that has gone, so each zombie has someone
\* who may reap it.
LiveParents ==
    \A p \in Procs \ {initproc} :
        life[p] # "none" => /\ par[p] \in Procs
                            /\ life[par[p]] = "live"

============================================================================
