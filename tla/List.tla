-------------------------------- MODULE List --------------------------------
(***************************************************************************)
(* The doubly linked lists of libs/list.h, on which the free list, the     *)
(* process lists, the run queue, the areas and the swappable pages rest.   *)
(* An entry that list_del has taken out keeps its pointers.                *)
(***************************************************************************)
EXTENDS Naturals, FiniteSets, FiniteSetsExt

CONSTANTS Heads, Entries

ASSUME ListAssumption ==
    /\ Heads \cap Entries = {}
    /\ IsFiniteSet(Heads \cup Entries)

Elements == Heads \cup Entries

VARIABLES
    next, prev,
    linked          \* history: the entries that are in a list

vars == <<next, prev, linked>>

\* list_init of the heads; an entry starts with any pointers, say its own.
Init ==
    /\ next = [x \in Elements |-> x]
    /\ prev = [x \in Elements |-> x]
    /\ linked = {}

\* Fault: the way back of the successor is left as it was.
list_insert_OneWay(elm, p, n) ==
    /\ next' = [next EXCEPT ![p] = elm, ![elm] = n]
    /\ prev' = [prev EXCEPT ![elm] = p]

\* __list_add.
list_insert(elm, p, n) ==
    /\ next' = [next EXCEPT ![p] = elm, ![elm] = n]
    /\ prev' = [prev EXCEPT ![n] = elm, ![elm] = p]

InList(x) == x \in Heads \cup linked

list_add_before(x, elm) ==
    /\ InList(x) /\ elm \notin linked
    /\ list_insert(elm, prev[x], x)
    /\ linked' = linked \cup {elm}

list_add_after(x, elm) ==
    /\ InList(x) /\ elm \notin linked
    /\ list_insert(elm, x, next[x])
    /\ linked' = linked \cup {elm}

list_del(elm) ==
    /\ elm \in linked
    /\ next' = [next EXCEPT ![prev[elm]] = next[elm]]
    /\ prev' = [prev EXCEPT ![next[elm]] = prev[elm]]
    /\ linked' = linked \ {elm}

list_del_init(elm) ==
    /\ elm \in linked
    /\ next' = [next EXCEPT ![prev[elm]] = next[elm], ![elm] = elm]
    /\ prev' = [prev EXCEPT ![next[elm]] = prev[elm], ![elm] = elm]
    /\ linked' = linked \ {elm}

Next ==
    \E elm \in Entries :
        \/ \E x \in Elements : list_add_before(x, elm) \/ list_add_after(x, elm)
        \/ list_del(elm) \/ list_del_init(elm)

Spec == Init /\ [][Next]_vars

----------------------------------------------------------------------------
(* Properties                                                              *)

\* Whatever is in a list is well linked: each of its elements is the next of
\* its prev and the prev of its next, and these are in a list as well, never
\* an entry that has been taken out.
DoublyLinked ==
    \A x \in Heads \cup linked :
        /\ InList(next[x]) /\ InList(prev[x])
        /\ prev[next[x]] = x /\ next[prev[x]] = x

\* The i-th element behind x.
Behind(x, i) ==
    LET at[n \in 0 .. i] == IF n = 0 THEN x ELSE next[at[n - 1]] IN at[i]

\* The entries behind a head; a ring that does not close is cut.
Walk(h) ==
    LET back == {i \in 1 .. Cardinality(Elements) : Behind(h, i) = h}
    IN  [i \in 1 .. (IF back = {} THEN 0 ELSE Min(back) - 1) |-> Behind(h, i)]

\* The pointers as the sequences of Rings.
lists == [h \in Heads |-> Walk(h)]

Seqs == INSTANCE Rings

\* A step that changes the pointers is one of the sequences, or of none of them.
StepOfRings == UNCHANGED vars \/ [Seqs!Next]_lists

\* list.h: users of the lists may think of sequences.  Adding and deleting
\* entries, in any order and in several lists at once, never loses, repeats or
\* reorders an entry, as many times as an entry comes and goes.  (lists is a
\* function of vars, so this says no less than Seqs!Spec.)
ImplementsRings == Seqs!Init /\ [][StepOfRings]_vars

=============================================================================
