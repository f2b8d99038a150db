--------------------------- MODULE AddressSpaces ---------------------------
(***************************************************************************)
(* What virtual memory promises to user programs: every process has an     *)
(* address space of its own, which only its own stores change and of which *)
(* fork gives the child a copy.  A page that was never touched has no      *)
(* value yet; the first touch fixes one, which may be anything.            *)
(***************************************************************************)
CONSTANTS Procs, Pages, Vals, Unmapped, Fresh,
    Images      \* the programs: records of a memory and its writable pages

VARIABLES
    mem,        \* mem[p][a]: a value, Fresh, or Unmapped
    writable    \* writable[p]: the pages that p may store to

vars == <<mem, writable>>

Empty == [a \in Pages |-> Unmapped]

Init ==
    /\ mem = [p \in Procs |-> Empty]
    /\ writable = [p \in Procs |-> {}]

Load(p) ==
    /\ mem[p] = Empty
    /\ \E image \in Images :
        /\ mem' = [mem EXCEPT ![p] = image.mem]
        /\ writable' = [writable EXCEPT ![p] = image.writable]

Fork(p, c) ==
    /\ mem[c] = Empty
    /\ mem' = [mem EXCEPT ![c] = mem[p]]
    /\ writable' = [writable EXCEPT ![c] = writable[p]]

Exit(p) ==
    /\ mem' = [mem EXCEPT ![p] = Empty]
    /\ writable' = [writable EXCEPT ![p] = {}]

Touch(p, a) ==
    /\ mem[p][a] = Fresh
    /\ mem'[p][a] \in Vals
    /\ mem' = [mem EXCEPT ![p][a] = mem'[p][a]]
    /\ UNCHANGED writable

\* A store may cover several pages.
Write(p) ==
    /\ \A q \in Procs \ {p} : mem'[q] = mem[q]
    /\ \A a \in Pages :
        mem'[p][a] # mem[p][a] => /\ a \in writable[p]
                                  /\ {mem[p][a], mem'[p][a]} \subseteq Vals
    /\ UNCHANGED writable

Next ==
    \/ \E p \in Procs : Write(p) \/ Load(p) \/ Exit(p)
    \/ \E p, c \in Procs : Fork(p, c)
    \/ \E p \in Procs, a \in Pages : Touch(p, a)

Spec == Init /\ [][Next]_vars

============================================================================
