----------------------------- MODULE SwapCheck ------------------------------
(***************************************************************************)
(* check_swap (kern/mm/swap.c) and _fifo_check_swap (swap_fifo.c): five    *)
(* pages in four frames, on the model of the swapping.  The free list      *)
(* gives the frames out in the order of check_rp, and the device works.    *)
(***************************************************************************)
EXTENDS Swap

CONSTANT check_rp   \* the frames, a sequence

VARIABLES
    next_access,    \* the place in the script
    pgfault_num,    \* the page faults so far
    ok              \* the assertions held so far

check_vars == <<vars, next_access, pgfault_num, ok>>

\* A write to a page, and the pgfault_num asserted after it.
Write(a, faults) == [a |-> a, op |-> "write", faults |-> faults]
Read(a, faults) == [a |-> a, op |-> "read", faults |-> faults]

\* Each page gets its own letter, twice in a row.
check_content_set ==
    <<Write(1, 1), Write(1, 1), Write(2, 2), Write(2, 2),
      Write(3, 3), Write(3, 3), Write(4, 4), Write(4, 4)>>

_fifo_check_swap ==
    <<Write(3, 4), Write(1, 4), Write(4, 4), Write(2, 4), Write(5, 5), Write(2, 5),
      Write(1, 6), Write(2, 7), Write(3, 8), Write(4, 9), Write(5, 10),
      Read(1, 11), Write(1, 11)>>

Script == check_content_set \o _fifo_check_swap

StoredTo(a) == {<<a>>}

CheckInit == Init /\ next_access = 1 /\ pgfault_num = 0 /\ ok = TRUE

Fault ==
    /\ next_access <= Len(Script)
    /\ PageFault(Script[next_access].a)
    /\ pgfault_num' = pgfault_num + 1
    /\ UNCHANGED <<next_access, ok>>

DoAccess ==
    /\ next_access <= Len(Script)
    /\ LET c == Script[next_access]
       IN  /\ Access(c.a)
           /\ page'[Translation(c.a)] \in StoredTo(c.a)
           /\ ok' = /\ ok /\ pgfault_num = c.faults
                    /\ c.op = "read" => page' = page
    /\ next_access' = next_access + 1
    /\ UNCHANGED pgfault_num

\* alloc_page takes the first free frame.
FirstFrame ==
    \A i, j \in DOMAIN check_rp :
        check_rp[i] \in free \ free' /\ check_rp[j] \in free => i <= j

Resolve ==
    /\ SwapOut \/ AllocPage \/ SwapIn
    /\ FirstFrame
    /\ UNCHANGED <<next_access, pgfault_num, ok>>

CheckNext == Fault \/ DoAccess \/ Resolve

----------------------------------------------------------------------------
(* Properties                                                              *)

\* The assertions hold: after each access there have been as many page faults
\* as a FIFO queue of four pages has, what was written to page a is still there
\* when it comes back from the disk, and the first four pages lie in the four
\* frames in order.
SwapCheckPasses ==
    /\ ok
    /\ next_access = Len(check_content_set) + 1 =>
        free = {} /\ \A a \in DOMAIN check_rp : pte[a] = check_rp[a]

=============================================================================
