------------------------------- MODULE Rings -------------------------------
(***************************************************************************)
(* What the users of libs/list.h rely on: a list head stands for a         *)
(* sequence, an entry is put next to another or taken out, and the other   *)
(* entries keep their order.                                               *)
(***************************************************************************)
EXTENDS Sequences, SequencesExt

CONSTANTS Heads, Entries

VARIABLE lists      \* the entries behind each head

Init == lists = [h \in Heads |-> <<>>]

Free(e) == \A h \in Heads : e \notin ToSet(lists[h])

Insert(h, e) ==
    \E i \in 1 .. Len(lists[h]) + 1 :
        lists' = [lists EXCEPT ![h] = InsertAt(@, i, e)]

Delete(h, e) ==
    \E i \in DOMAIN lists[h] :
        /\ lists[h][i] = e
        /\ lists' = [lists EXCEPT ![h] = RemoveAt(@, i)]

Next == \E h \in Heads, e \in Entries : (Free(e) /\ Insert(h, e)) \/ Delete(h, e)

Spec == Init /\ [][Next]_lists

============================================================================
