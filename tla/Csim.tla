-------------------------------- MODULE Csim --------------------------------
(***************************************************************************)
(* The cache simulator csim.c of the cache lab: one line of the trace a    *)
(* step.  Instruction loads leave everything alone but the count.          *)
(***************************************************************************)
EXTENDS Integers, Sequences, SequencesExt, FiniteSetsExt

CONSTANTS
    s, E, b,        \* bits of the set, lines of a set, bits of the block
    Addresses,      \* the addresses in the trace
    MaxCount        \* bound of the lines of the trace

VARIABLES
    cache,          \* [vaild, tag, count] of each line of each set
    count, hit_count, miss_count, eviction_count

counters == <<hit_count, miss_count, eviction_count>>
vars == <<cache, count, counters>>

Lines == 0 .. E - 1

Init ==
    /\ cache = [k \in 0 .. 2 ^ s - 1 |->
                  [i \in Lines |-> [vaild |-> FALSE, tag |-> 0, count |-> 0]]]
    /\ count = 0
    /\ hit_count = 0 /\ miss_count = 0 /\ eviction_count = 0

\* The loops of main take the bits from the address lowest first, and the
\* number of the set comes out reversed.
RECURSIVE Reversed(_, _)
Reversed(a, n) ==
    IF n = 0 THEN 0 ELSE (a % 2) * 2 ^ (n - 1) + Reversed(a \div 2, n - 1)

setindex(a) == Reversed(a \div 2 ^ b, s)
tag(a) == a \div 2 ^ (b + s)

Holding(k, t) == {i \in Lines : cache[k][i].vaild /\ cache[k][i].tag = t}
Invalid(k) == {i \in Lines : ~cache[k][i].vaild}

Put(k, i, t) ==
    cache' = [cache EXCEPT ![k][i] = [vaild |-> TRUE, tag |-> t, count |-> count + 1]]

\* Fault: a hit does not renew the line.
LoadHit_NotRenewed(k, t, more) ==
    /\ Holding(k, t) # {}
    /\ hit_count' = hit_count + 1 + more
    /\ UNCHANGED <<cache, miss_count, eviction_count>>

LoadHit(k, t, more) ==
    /\ Holding(k, t) # {}
    /\ Put(k, Min(Holding(k, t)), t)
    /\ hit_count' = hit_count + 1 + more
    /\ UNCHANGED <<miss_count, eviction_count>>

LoadFree(k, t, more) ==
    /\ Holding(k, t) = {} /\ Invalid(k) # {}
    /\ Put(k, Min(Invalid(k)), t)
    /\ miss_count' = miss_count + 1
    /\ hit_count' = hit_count + more
    /\ UNCHANGED eviction_count

\* The line with the least count, the first of them.
Oldest(k) ==
    Min({i \in Lines : \A j \in Lines : cache[k][i].count <= cache[k][j].count})

LoadEvict(k, t, more) ==
    /\ Holding(k, t) = {} /\ Invalid(k) = {}
    /\ Put(k, Oldest(k), t)
    /\ miss_count' = miss_count + 1
    /\ eviction_count' = eviction_count + 1
    /\ hit_count' = hit_count + more

\* L and S load once; M loads and counts another hit.
Access(a, more) ==
    /\ count < MaxCount
    /\ count' = count + 1
    /\ LET k == setindex(a) t == tag(a)
       IN  LoadHit(k, t, more) \/ LoadFree(k, t, more) \/ LoadEvict(k, t, more)

Instruction ==
    /\ count < MaxCount
    /\ count' = count + 1
    /\ UNCHANGED <<cache, counters>>

Next == Instruction \/ \E a \in Addresses, more \in {0, 1} : Access(a, more)

Spec == Init /\ [][Next]_vars

----------------------------------------------------------------------------
(* Properties                                                              *)

SetOf(a) == (a \div 2 ^ b) % 2 ^ s

ByCount(k) ==
    SetToSortSeq(Lines \ Invalid(k), LAMBDA i, j : cache[k][i].count < cache[k][j].count)

Reference == INSTANCE Lru WITH
    Sets <- 0 .. 2 ^ s - 1,
    TagOf <- tag,
    lru <- [k \in 0 .. 2 ^ s - 1 |->
              LET set == Reversed(k, s)
              IN  [n \in DOMAIN ByCount(set) |-> cache[set][ByCount(set)[n]].tag]],
    hits <- hit_count, misses <- miss_count, evictions <- eviction_count

\* The simulator counts what a cache with exact LRU replacement would count
\* for the same trace: the counts of the lines order them by their last use,
\* and sets under reversed numbers are never mixed up.
CountsAsLru ==
    \A a \in Addresses, more \in {0, 1} :
        Access(a, more) => Reference!Access(a, more)

SimulatesLru == Reference!Init /\ [][CountsAsLru]_vars

=============================================================================
