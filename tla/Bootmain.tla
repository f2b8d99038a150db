------------------------------ MODULE Bootmain ------------------------------
(***************************************************************************)
(* boot/bootmain.c: the boot loader copies the kernel from the disk to its *)
(* place, one sector after the other, and calls it; kern_init (init.c)     *)
(* then clears what lies behind the initialised data.  A disk is a         *)
(* sequence of words from 0; the file of the kernel follows the sector of  *)
(* the boot loader.                                                        *)
(***************************************************************************)
EXTENDS Integers, Sequences, FiniteSets

CONSTANTS
    SECTSIZE,       \* words in a sector
    Images,         \* kernels: [valid, phdr], phdr of [p_offset, p_va, p_filesz,
                    \* p_memsz], see Linked
    MEMSIZE         \* words of memory that a kernel may be loaded to

VARIABLES
    image,          \* the kernel on the disk
    memory,         \* what each word of memory holds
    ph,             \* the segment that is loaded, or the next one
    reading,        \* what readseg has left: [va, end_va, secno]
    stage           \* "off", "header", "segments", "kern_entry", "running" or "bad"

vars == <<image, memory, ph, reading, stage>>

\* What the disk holds at a word: that word of the file of the kernel.
Stale == [word |-> -1]
Zero == [word |-> -2]
FileWord(i) == [word |-> i]
Disk(i) == IF i < SECTSIZE THEN Stale ELSE FileWord(i - SECTSIZE)

Idle == [va |-> 0, end_va |-> 0, secno |-> 0]

Init ==
    /\ image = [valid |-> FALSE, phdr |-> <<>>]
    /\ memory = [a \in 0 .. MEMSIZE - 1 |-> Stale]
    /\ ph = 1 /\ reading = Idle /\ stage = "off"

\* Fault: the start is not rounded down with the offset.
readseg_NotRounded(va, count, offset) ==
    [va |-> va, end_va |-> va + count, secno |-> offset \div SECTSIZE + 1]

\* Round down to the boundary of a sector; the kernel starts at sector 1.
readseg(va, count, offset) ==
    [va |-> va - (offset % SECTSIZE), end_va |-> va + count,
     secno |-> offset \div SECTSIZE + 1]

readsect(dst, secno) ==
    memory' = [a \in DOMAIN memory |->
        IF a \in dst .. dst + SECTSIZE - 1 THEN Disk(secno * SECTSIZE + a - dst)
        ELSE memory[a]]

\* What the linker promises (tools/kernel.ld): the segments come in the order
\* of their addresses, do not overlap, are at the same place of a sector in
\* memory and in the file, those that meet in a sector of memory follow each
\* other in the file in the same way, and only the last one has memory behind
\* its words in the file.
Linked(phdr) ==
    /\ \A i \in DOMAIN phdr :
        /\ phdr[i].p_va % SECTSIZE = phdr[i].p_offset % SECTSIZE
        /\ phdr[i].p_filesz <= phdr[i].p_memsz
        /\ i < Len(phdr) => phdr[i].p_filesz = phdr[i].p_memsz
    /\ \A i, j \in DOMAIN phdr : i < j =>
        /\ phdr[i].p_va + phdr[i].p_memsz <= phdr[j].p_va
        /\ phdr[i].p_offset + phdr[i].p_filesz <= phdr[j].p_offset
        /\ (phdr[i].p_va + phdr[i].p_memsz - 1) \div SECTSIZE = phdr[j].p_va \div SECTSIZE
            => phdr[j].p_va - phdr[i].p_va = phdr[j].p_offset - phdr[i].p_offset

\* The BIOS starts the loader, whatever kernel is on the disk.
PowerOn ==
    /\ stage = "off"
    /\ image' \in {i \in Images : Linked(i.phdr)}
    /\ stage' = "header"
    /\ UNCHANGED <<memory, ph, reading>>

\* The headers go to scratch memory, which no segment reaches.
ReadHeader ==
    /\ stage = "header"
    /\ stage' = IF image.valid THEN "segments" ELSE "bad"
    /\ UNCHANGED <<image, memory, ph, reading>>

Pending == reading.va < reading.end_va

NextSegment ==
    /\ stage = "segments" /\ ~Pending /\ ph <= Len(image.phdr)
    /\ LET h == image.phdr[ph] IN reading' = readseg(h.p_va, h.p_memsz, h.p_offset)
    /\ ph' = ph + 1
    /\ UNCHANGED <<image, memory, stage>>

ReadSector ==
    /\ stage = "segments" /\ Pending
    /\ readsect(reading.va, reading.secno)
    /\ reading' = [reading EXCEPT !.va = @ + SECTSIZE, !.secno = @ + 1]
    /\ UNCHANGED <<image, ph, stage>>

Enter ==
    /\ stage = "segments" /\ ~Pending /\ ph > Len(image.phdr)
    /\ stage' = "kern_entry"
    /\ UNCHANGED <<image, memory, ph, reading>>

Last == image.phdr[Len(image.phdr)]
edata == Last.p_va + Last.p_filesz
end == Last.p_va + Last.p_memsz

\* memset(edata, 0, end - edata)
kern_init ==
    /\ stage = "kern_entry"
    /\ memory' = [a \in DOMAIN memory |-> IF a \in edata .. end - 1 THEN Zero ELSE memory[a]]
    /\ stage' = "running"
    /\ UNCHANGED <<image, ph, reading>>

Next == PowerOn \/ ReadHeader \/ NextSegment \/ ReadSector \/ Enter \/ kern_init

Spec == Init /\ [][Next]_vars

----------------------------------------------------------------------------

\* When the kernel runs, each segment is as it is in the file, though the
\* sectors at its ends were written over the ones of its neighbours, and what
\* lies behind is clear, though the loader has read the file past its end.
KernelLoaded ==
    stage = "running" =>
        \A i \in DOMAIN image.phdr :
            LET h == image.phdr[i]
            IN  \A k \in 0 .. h.p_memsz - 1 :
                    memory[h.p_va + k] =
                        IF k < h.p_filesz THEN FileWord(h.p_offset + k) ELSE Zero

=============================================================================
