------------------------------ MODULE Backing ------------------------------
(***************************************************************************)
(* What paging to a disk promises: a page holds what the program stored    *)
(* last, as if the disk were not there, unless the disk fails to read it   *)
(* back.  While a page fault is handled nobody stores.                     *)
(***************************************************************************)
EXTENDS Naturals

CONSTANTS Pages, StoresTo(_), Vals, Fresh

VARIABLES
    mem,        \* what each page holds, Fresh before it is first touched
    busy,       \* a page fault is being handled
    errors      \* the reads that have failed

vars == <<mem, busy, errors>>

Init == mem = [a \in Pages |-> Fresh] /\ busy = FALSE /\ errors = 0

Holds(a, values) == \E v \in values : mem' = [mem EXCEPT ![a] = v]

Store(a) == ~busy /\ mem[a] # Fresh /\ Holds(a, StoresTo(a)) /\ UNCHANGED <<busy, errors>>

Fault == ~busy /\ busy' = TRUE /\ UNCHANGED <<mem, errors>>

\* The fault ends: nothing has changed, or the page is new, or it is lost.
Return == UNCHANGED <<mem, errors>>
Touch(a) == mem[a] = Fresh /\ Holds(a, Vals) /\ UNCHANGED errors
Lose(a) == mem[a] # Fresh /\ Holds(a, Vals) /\ errors' = errors + 1

FaultEnd == busy /\ busy' = FALSE /\ (Return \/ \E a \in Pages : Touch(a) \/ Lose(a))

Next == Fault \/ FaultEnd \/ \E a \in Pages : Store(a)

Spec == Init /\ [][Next]_vars

============================================================================
