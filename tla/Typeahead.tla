----------------------------- MODULE Typeahead -----------------------------
(***************************************************************************)
(* What the console input promises its readers: the characters of a device *)
(* come out in the order they came in, each once, and a reader that finds  *)
(* none gets None.  When Size of them wait, the oldest Size are lost.      *)
(***************************************************************************)
EXTENDS Naturals, Sequences, SequencesExt

CONSTANTS Size, None

VARIABLES
    serial, typed,  \* characters in the devices
    waiting,        \* characters in the buffer
    got             \* what cons_getc returned last

Init == serial = <<>> /\ typed = <<>> /\ waiting = <<>> /\ got = None

Arrive ==
    /\ IsPrefix(serial, serial') /\ IsPrefix(typed, typed')
    /\ UNCHANGED <<waiting, got>>

Get ==
    LET all  == waiting \o serial \o typed
        kept == SubSeq(all, Len(all) - (Len(all) % Size) + 1, Len(all))
    IN  /\ serial' = <<>> /\ typed' = <<>>
        /\ IF kept = <<>> THEN got' = None /\ waiting' = <<>>
           ELSE got' = Head(kept) /\ waiting' = Tail(kept)

Next == Arrive \/ Get

Step == [Next]_<<serial, typed, waiting, got>>

Spec == Init /\ [][Next]_<<serial, typed, waiting, got>>

============================================================================
