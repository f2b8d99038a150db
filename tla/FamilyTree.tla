----------------------------- MODULE FamilyTree -----------------------------
(***************************************************************************)
(* What the family pointers of proc_structs stand for: each process has a  *)
(* list of children, youngest first.  fork puts a child in front, reaping  *)
(* takes one out, and an exiting process hands its children, youngest      *)
(* first, to the front of initproc's list, one after the other.            *)
(***************************************************************************)
EXTENDS SequencesExt, Naturals

CONSTANTS Procs, initproc

VARIABLE kids

ListedIn(p, c) == \E i \in DOMAIN kids[p] : kids[p][i] = c

Listed(c) == \E p \in Procs : ListedIn(p, c)

Init == kids = [p \in Procs |-> <<>>]

Bear(p, c) ==
    /\ ~Listed(c)
    /\ kids' = [kids EXCEPT ![p] = <<c>> \o @]

Bury(p, c) ==
    \E i \in DOMAIN kids[p] :
        /\ kids[p][i] = c
        /\ kids' = [kids EXCEPT ![p] = RemoveAt(@, i)]

Adopt(p) ==
    /\ p # initproc
    /\ kids[p] # <<>>
    /\ kids' = [kids EXCEPT ![p] = Tail(@),
                            ![initproc] = <<Head(kids[p])>> \o @]

Next ==
    \/ \E p, c \in Procs : Bear(p, c) \/ Bury(p, c)
    \/ \E p \in Procs : Adopt(p)

Spec == Init /\ [][Next]_kids

============================================================================
