-------------------------------- MODULE Disk --------------------------------
(***************************************************************************)
(* The disks and the swap file: ide_init, ide_read_secs and ide_write_secs *)
(* (kern/driver/ide.c) and swapfs_init, swapfs_read and swapfs_write       *)
(* (kern/fs/swapfs.c).  The driver polls, so only the device is beside it: *)
(* a sector is one step, and the device may fail on any of them.  The two  *)
(* drives of a channel share its registers.                                *)
(***************************************************************************)
EXTENDS Integers, Sequences

CONSTANTS
    Machines,       \* the sets of drives that a machine may have
    Vals,           \* what a page may hold
    PAGE_NSECT,     \* the sectors of a page
    DiskSectors,    \* the sectors of each drive
    Offsets,        \* the swap entries in use
    None

VARIABLES
    present,        \* the drives of this machine
    ideno,          \* the drive that ide_init is at
    valid,          \* the drives that it has found
    swap_ready,     \* swapfs_init is through
    channel,        \* the registers of the two channels
    sectors,        \* what each drive holds
    request,        \* what the driver is at, or None
    got,            \* what the request has read, if it was a read that returned 0
    latest          \* the page that an entry was last written with

vars == <<present, ideno, valid, swap_ready, channel, sectors, request, got, latest>>

MAX_IDE == 4
SWAP_DEV_NO == 1
Drives == 0 .. MAX_IDE - 1

\* Two drives to a channel.
IO_BASE(n) == n \div 2

\* Fault: the bit that selects the drive is not set.
Selected_Master(n) == 0

\* The drive bit written to ISA_SDH.
Selected(n) == n % 2

Idle == [unit |-> 0, next |-> 0, error |-> FALSE]
Blank == <<None, 0>>
Pages == [v \in Vals |-> [i \in 1 .. PAGE_NSECT |-> <<v, i>>]]

Nothing == [entry |-> None, data |-> <<>>]

Init ==
    /\ present \in Machines
    /\ ideno = 0 /\ valid = {} /\ swap_ready = FALSE
    /\ channel = [c \in 0 .. 1 |-> Idle]
    /\ sectors = [d \in Drives |-> [s \in 0 .. DiskSectors - 1 |-> Blank]]
    /\ request = None
    /\ got = Nothing
    /\ latest = [e \in Offsets |-> None]

\* The drive that answers on a channel.
Unit(c) == 2 * c + channel[c].unit

----------------------------------------------------------------------------
(* Initialisation                                                          *)

\* One turn of the loop of ide_init: select, IDENTIFY, and the status, which
\* is 0 if there is nothing.
Identify ==
    /\ ideno < MAX_IDE
    /\ LET c == IO_BASE(ideno)
       IN  /\ channel' = [channel EXCEPT ![c].unit = Selected(ideno)]
           /\ valid' = IF 2 * c + Selected(ideno) \in present
                       THEN valid \cup {ideno} ELSE valid
    /\ ideno' = ideno + 1
    /\ UNCHANGED <<present, swap_ready, sectors, request, got, latest>>

\* Without the swap disk the kernel stops.
swapfs_init ==
    /\ ideno = MAX_IDE /\ ~swap_ready
    /\ SWAP_DEV_NO \in valid
    /\ swap_ready' = TRUE
    /\ UNCHANGED <<present, ideno, valid, channel, sectors, request, got, latest>>

----------------------------------------------------------------------------
(* Reading and writing                                                     *)

\* The registers and the command; the error of the command before is gone.
Command(n, secno) ==
    channel' = [channel EXCEPT ![IO_BASE(n)] =
                    [unit |-> Selected(n), next |-> secno, error |-> FALSE]]

swapfs_read(entry) ==
    /\ swap_ready /\ request = None
    /\ Command(SWAP_DEV_NO, entry * PAGE_NSECT)
    /\ request' = [op |-> "read", entry |-> entry, left |-> PAGE_NSECT, data |-> <<>>]
    /\ got' = Nothing
    /\ UNCHANGED <<present, ideno, valid, swap_ready, sectors, latest>>

swapfs_write(entry, v) ==
    /\ swap_ready /\ request = None
    /\ Command(SWAP_DEV_NO, entry * PAGE_NSECT)
    /\ request' = [op |-> "write", entry |-> entry, left |-> PAGE_NSECT, data |-> Pages[v]]
    /\ latest' = [latest EXCEPT ![entry] = v]
    /\ got' = Nothing
    /\ UNCHANGED <<present, ideno, valid, swap_ready, sectors>>

\* The channel that the driver polls.
C == IO_BASE(SWAP_DEV_NO)

\* The device fails before the next sector of a read.
DeviceFails ==
    /\ request # None /\ request.op = "read" /\ request.left > 0
    /\ ~channel[C].error
    /\ channel' = [channel EXCEPT ![C].error = TRUE]
    /\ UNCHANGED <<present, ideno, valid, swap_ready, sectors, request, got, latest>>

\* insl: one sector from the device.
ReadSector ==
    /\ request # None /\ request.op = "read" /\ request.left > 0
    /\ ~channel[C].error
    /\ channel' = [channel EXCEPT ![C].next = @ + 1]
    /\ request' = [request EXCEPT !.left = @ - 1,
                       !.data = Append(@, sectors[Unit(C)][channel[C].next])]
    /\ UNCHANGED <<present, ideno, valid, swap_ready, sectors, got, latest>>

\* outsl: one sector to the device, which may be spoilt there.
WriteSector ==
    /\ request # None /\ request.op = "write" /\ request.left > 0
    /\ ~channel[C].error
    /\ \E fails \in BOOLEAN :
        /\ channel' = [channel EXCEPT ![C].next = @ + 1, ![C].error = fails]
        /\ sectors' = [sectors EXCEPT ![Unit(C)][channel[C].next] =
                IF fails THEN Blank ELSE Head(request.data)]
    /\ request' = [request EXCEPT !.left = @ - 1, !.data = Tail(@)]
    /\ UNCHANGED <<present, ideno, valid, swap_ready, got, latest>>

\* The status shows an error before the next sector: the call returns -1.
Fails ==
    /\ request # None /\ request.left > 0 /\ channel[C].error
    /\ request' = None
    /\ latest' = IF request.op = "read" THEN latest
                 ELSE [latest EXCEPT ![request.entry] = None]
    /\ UNCHANGED <<present, ideno, valid, swap_ready, channel, sectors, got>>

\* All sectors are through: 0, though nobody looks at the status of the last.
Succeeds ==
    /\ request # None /\ request.left = 0
    /\ request' = None
    /\ got' = IF request.op = "write" THEN got
              ELSE [entry |-> request.entry, data |-> request.data]
    /\ UNCHANGED <<present, ideno, valid, swap_ready, channel, sectors, latest>>

Next ==
    \/ Identify \/ swapfs_init
    \/ \E entry \in Offsets :
        swapfs_read(entry) \/ \E v \in Vals : swapfs_write(entry, v)
    \/ ReadSector \/ WriteSector \/ DeviceFails \/ Fails \/ Succeeds

Spec == Init /\ [][Next]_vars

----------------------------------------------------------------------------
(* Properties                                                              *)

\* What a write that returned 0 has left: its sectors in order, except that the
\* last one may be spoilt.
Written(entry, data) ==
    latest[entry] # None =>
        \A i \in 1 .. PAGE_NSECT :
            \/ data[i] = Pages[latest[entry]][i]
            \/ i = PAGE_NSECT /\ data[i] = Blank

\* Only the swap disk is ever written, though the boot disk shares its
\* registers; a page whose write returned 0 is on the disk, under its own
\* entry, but for its last sector, and a read returns it.
DiskSound ==
    /\ valid \subseteq present
    /\ \A d \in Drives \ {SWAP_DEV_NO}, s \in 0 .. DiskSectors - 1 : sectors[d][s] = Blank
    /\ request = None =>
        \A e \in Offsets :
            Written(e, [i \in 1 .. PAGE_NSECT |->
                            sectors[SWAP_DEV_NO][e * PAGE_NSECT + i - 1]])
    /\ got # Nothing => Written(got.entry, got.data)

=============================================================================
