------------------------------- MODULE Family -------------------------------
(***************************************************************************)
(* The family pointers of kern/process/proc.c: set_links and remove_links, *)
(* and the loop of do_exit that hands the children to initproc, one        *)
(* iteration a step.  The loop runs with interrupts off, so nothing else   *)
(* happens between two of its iterations.                                  *)
(*                                                                         *)
(* Proc uses these pointers through two facts that are checked here: the   *)
(* list of p holds exactly the linked processes whose parent is p, and     *)
(* init_main finds the lists it asserts once everyone has gone.            *)
(***************************************************************************)
EXTENDS Naturals, FiniteSets, Sequences, SequencesExt

CONSTANTS
    Procs,      \* proc_structs other than idleproc
    initproc,
    idleproc,
    NULL

ASSUME FamilyAssumption ==
    /\ initproc \in Procs
    /\ idleproc \notin Procs
    /\ NULL \notin Procs \cup {idleproc}
    /\ IsFiniteSet(Procs)

VARIABLES
    proc_list,          \* the list of all processes, the latest first
    parent,             \* proc->parent
    cptr, optr, yptr,   \* youngest child, older sibling, younger sibling
    nr_process,
    live,               \* processes that have not entered do_exit
    current             \* the process in the loop of do_exit, NULL if none is

pointers == <<parent, cptr, optr, yptr>>
vars == <<proc_list, pointers, nr_process, live, current>>

All == Procs \cup {idleproc}
Linked == {proc_list[i] : i \in DOMAIN proc_list}

\* proc_init has created initproc as the child of idleproc.
Init ==
    /\ proc_list = <<initproc>>
    /\ parent = [p \in Procs |-> IF p = initproc THEN idleproc ELSE NULL]
    /\ cptr = [p \in All |-> IF p = idleproc THEN initproc ELSE NULL]
    /\ optr = [p \in Procs |-> NULL]
    /\ yptr = [p \in Procs |-> NULL]
    /\ nr_process = 2
    /\ live = {initproc}
    /\ current = NULL

\* do_fork in p: alloc_proc clears the pointers of c, set_links links it.
SetLinks(p, c) ==
    /\ current = NULL
    /\ p \in live
    /\ c \notin Linked
    /\ proc_list' = <<c>> \o proc_list
    /\ parent' = [parent EXCEPT ![c] = p]
    /\ optr' = [optr EXCEPT ![c] = cptr[p]]
    /\ yptr' = [q \in Procs |-> CASE q = c -> NULL
                                  [] q = cptr[p] -> c
                                  [] OTHER -> yptr[q]]
    /\ cptr' = [cptr EXCEPT ![p] = c, ![c] = NULL]
    /\ nr_process' = nr_process + 1
    /\ live' = live \cup {c}
    /\ UNCHANGED current

\* list_del(&(proc->list_link)).
Unlist(z) ==
    \E i \in DOMAIN proc_list :
        /\ proc_list[i] = z
        /\ proc_list' = RemoveAt(proc_list, i)

\* Fault: the parent's pointer moves although z has a younger sibling.
RemoveLinks_AlwaysHead(z) ==
    /\ Unlist(z)
    /\ yptr' = [q \in Procs |-> IF q = optr[z] THEN yptr[z] ELSE yptr[q]]
    /\ optr' = [q \in Procs |-> IF q = yptr[z] THEN optr[z] ELSE optr[q]]
    /\ cptr' = [cptr EXCEPT ![parent[z]] = optr[z]]
    /\ nr_process' = nr_process - 1
    /\ UNCHANGED parent

\* The pointers without z, between its siblings and below its parent.
RemoveLinks(z) ==
    /\ Unlist(z)
    /\ yptr' = [q \in Procs |-> IF q = optr[z] THEN yptr[z] ELSE yptr[q]]
    /\ optr' = [q \in Procs |-> IF q = yptr[z] THEN optr[z] ELSE optr[q]]
    /\ cptr' = IF yptr[z] = NULL THEN [cptr EXCEPT ![parent[z]] = optr[z]] ELSE cptr
    /\ nr_process' = nr_process - 1
    /\ UNCHANGED parent

\* do_wait in the parent of z, which has left do_exit's loop for good.
Reap(z) ==
    /\ current = NULL
    /\ z \in Linked \ live
    /\ parent[z] \in live
    /\ RemoveLinks(z)
    /\ UNCHANGED <<live, current>>

\* do_exit reaches the loop.
ExitBegin(p) ==
    /\ current = NULL
    /\ p \in live \ {initproc}
    /\ current' = p
    /\ live' = live \ {p}
    /\ UNCHANGED <<proc_list, pointers, nr_process>>

\* Fault: the adopted child keeps its older sibling.
ExitAdopt_StaleOptr ==
    LET p == cptr[current] IN
    /\ current # NULL
    /\ p # NULL
    /\ cptr' = [cptr EXCEPT ![current] = optr[p], ![initproc] = p]
    /\ yptr' = [q \in Procs |-> CASE q = p -> NULL
                                  [] q = cptr[initproc] -> p
                                  [] OTHER -> yptr[q]]
    /\ parent' = [parent EXCEPT ![p] = initproc]
    /\ UNCHANGED <<proc_list, optr, nr_process, live, current>>

\* One iteration: the youngest child left goes to the front of initproc's list.
ExitAdopt ==
    LET p == cptr[current] IN
    /\ current # NULL
    /\ p # NULL
    /\ cptr' = [cptr EXCEPT ![current] = optr[p], ![initproc] = p]
    /\ optr' = [optr EXCEPT ![p] = cptr[initproc]]
    /\ yptr' = [q \in Procs |-> CASE q = p -> NULL
                                  [] q = cptr[initproc] -> p
                                  [] OTHER -> yptr[q]]
    /\ parent' = [parent EXCEPT ![p] = initproc]
    /\ UNCHANGED <<proc_list, nr_process, live, current>>

\* The list is empty: do_exit goes on to schedule().
ExitEnd ==
    /\ current # NULL
    /\ cptr[current] = NULL
    /\ current' = NULL
    /\ UNCHANGED <<proc_list, pointers, nr_process, live>>

Next ==
    \/ \E p, c \in Procs : SetLinks(p, c)
    \/ \E p \in Procs : Reap(p) \/ ExitBegin(p)
    \/ ExitAdopt
    \/ ExitEnd

Spec == Init /\ [][Next]_vars

----------------------------------------------------------------------------
(* Properties.                                                             *)

\* The yptr of the next child to hand over still names the one before it.
\* do_exit clears it when its turn comes.
StaleYptr(p) == current # NULL /\ p = cptr[current]

\* The sibling lists are doubly linked and hang below the parent: optr and
\* yptr are inverses, siblings have one parent, the youngest is the child that
\* the parent names, and no pointer leads to a freed proc_struct.
SiblingsLinked ==
    /\ \A p \in Linked :
        /\ optr[p] # NULL =>
            /\ optr[p] \in Linked \ {p}
            /\ yptr[optr[p]] = p
            /\ parent[optr[p]] = parent[p]
        /\ ~StaleYptr(p) =>
            IF yptr[p] = NULL
            THEN cptr[parent[p]] = p
            ELSE /\ yptr[p] \in Linked
                 /\ optr[yptr[p]] = p
    /\ \A p \in Linked \cup {idleproc} : cptr[p] # NULL =>
            /\ cptr[p] \in Linked
            /\ parent[cptr[p]] = p
            /\ p # current => yptr[cptr[p]] = NULL

\* Where a walk along optr from cptr is after i steps, as do_wait makes it; n
\* is longer than any list without a cycle.
Steps(p) ==
    LET n == Cardinality(Procs)
        w[i \in 1 .. n + 1] == IF i = 1 THEN cptr[p]
                               ELSE IF w[i-1] = NULL THEN NULL ELSE optr[w[i-1]]
    IN  w

\* What the walk sees before it comes to NULL.
Walk(p) ==
    LET w    == Steps(p)
        ends == {i \in DOMAIN w : w[i] = NULL}
    IN  [i \in 1 .. (IF ends = {} THEN Cardinality(Procs) + 1 ELSE Min(ends) - 1) |-> w[i]]

\* do_wait on pid 0 sees every child once and nobody else, and ends: the walk
\* over p's list meets exactly the linked processes whose parent is p.
WalkFindsChildren ==
    \A p \in Linked \cup {idleproc} :
        /\ IsInjective(Walk(p))
        /\ ToSet(Walk(p)) = {q \in Linked : parent[q] = p}

\* A process that has finished do_exit has no child left, and nobody but
\* initproc hangs below idleproc.
NoChildOfTheDead ==
    \A p \in Linked \ {initproc} :
        parent[p] \in live \/ parent[p] = current

\* What init_main asserts about the lists once its own is empty
\* (proc.c:847-850): then nobody else is left anywhere.
InitAssertions ==
    cptr[initproc] = NULL /\ current = NULL =>
        /\ yptr[initproc] = NULL
        /\ optr[initproc] = NULL
        /\ nr_process = 2
        /\ proc_list = <<initproc>>

\* After any order of forks, exits and reaps, and between two turns of the
\* hand-over loop of do_exit, the sibling lists are well linked, do_wait meets
\* every child in them, nobody hangs below the dead, and the assertions of
\* init_main hold.
WellLinked ==
    SiblingsLinked /\ WalkFindsChildren /\ NoChildOfTheDead /\ InitAssertions

\* The children of each process that is linked.
Kids == [p \in Procs |-> IF p \in Linked THEN Walk(p) ELSE <<>>]

\* The pointers implement lists of children, youngest first.
Lists == INSTANCE FamilyTree WITH kids <- Kids

ImplementsLists == Lists!Spec

\* For TLC: user processes are interchangeable.
UserSymmetry == Permutations(Procs \ {initproc})

============================================================================
