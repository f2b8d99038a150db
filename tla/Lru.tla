-------------------------------- MODULE Lru --------------------------------
(***************************************************************************)
(* A set-associative cache that evicts the line used least recently: the   *)
(* reference for the cache simulator.                                      *)
(***************************************************************************)
EXTENDS Naturals, Sequences, SequencesExt

CONSTANTS
    Sets,
    E,              \* lines of a set
    SetOf(_), TagOf(_)

VARIABLES
    lru,            \* the tags in each set, the least recently used first
    hits, misses, evictions

Init == lru = [s \in Sets |-> <<>>] /\ hits = 0 /\ misses = 0 /\ evictions = 0

\* Access a, and n more times at once.
Access(a, n) ==
    LET set  == lru[SetOf(a)]
        tag  == TagOf(a)
        hit  == tag \in ToSet(set)
        full == ~hit /\ Len(set) = E
        rest == IF full THEN Tail(set) ELSE Remove(set, tag)
    IN  /\ lru' = [lru EXCEPT ![SetOf(a)] = Append(rest, tag)]
        /\ hits' = hits + n + (IF hit THEN 1 ELSE 0)
        /\ misses' = misses + (IF hit THEN 0 ELSE 1)
        /\ evictions' = evictions + (IF full THEN 1 ELSE 0)

============================================================================
