------------------------------ MODULE PagePool ------------------------------
(***************************************************************************)
(* What a physical page manager promises: it hands out runs of free pages, *)
(* refuses only when no run is long enough, and gets back what was handed  *)
(* out.                                                                    *)
(***************************************************************************)
EXTENDS Integers

CONSTANT NPages

VARIABLES
    given,      \* the pages that the manager has
    free,       \* the free pages
    answer      \* the latest request, of n pages, and what it got: a first
                \* page, or NoPage

vars == <<given, free, answer>>

Pages == 0 .. NPages - 1
NoPage == -1

Run(base, n) == base .. base + n - 1
Answer(n, page) == [n |-> n, page |-> page]

Init == given \subseteq Pages /\ free = given /\ answer = Answer(0, NoPage)

Alloc(n) ==
    \/ \E base \in Pages :
        /\ Run(base, n) \subseteq free
        /\ free' = free \ Run(base, n)
        /\ answer' = Answer(n, base)
    \/ /\ \A base \in Pages : ~(Run(base, n) \subseteq free)
       /\ answer' = Answer(n, NoPage)
       /\ UNCHANGED free

Free(base, n) ==
    /\ Run(base, n) \subseteq given \ free
    /\ free' = free \cup Run(base, n)
    /\ UNCHANGED answer

Next ==
    /\ \E n \in 1 .. NPages : Alloc(n) \/ \E base \in Pages : Free(base, n)
    /\ UNCHANGED given

Step == [Next]_vars

Spec == Init /\ [][Next]_vars

============================================================================
