----------------------------- MODULE Interrupts -----------------------------
(***************************************************************************)
(* How the interrupts come up: the calls of kern_init (kern/init/init.c)   *)
(* that concern them, in its order, on the two 8259A of picirq.c, the      *)
(* clock, the serial port, the keyboard and the disks.  A device may raise *)
(* its line at any time.  The controllers start as the BIOS leaves them:   *)
(* lines open, other vectors, interrupts ended by hand.                    *)
(***************************************************************************)
EXTENDS Integers, Sequences, FiniteSets, SequencesExt

VARIABLES
    called,         \* the calls that kern_init has made
    serial_exists,
    irq_mask,       \* the lines that are not masked, as picirq.c has them
    did_init,
    pic,            \* the controllers, master first
    idt,            \* the vectors that have a gate
    FL_IF,
    raised,         \* the lines that devices hold up
    handled,        \* the vector that the CPU has taken, or None
    tick_source     \* what paces IRQ 0, or None

CONSTANT None

vars == <<called, serial_exists, irq_mask, did_init, pic, idt, FL_IF, raised,
          handled, tick_source>>

IRQ_OFFSET == 32
IRQ_TIMER == 0
IRQ_KBD == 1
IRQ_SLAVE == 2
IRQ_COM1 == 4
IRQ_IDE1 == 14
IRQ_IDE2 == 15

kern_init ==
    <<"cons_init", "pic_init", "idt_init", "ide_init", "clock_init", "intr_enable">>

----------------------------------------------------------------------------
(* The 8259A: after an ICW1 the next three writes to the data port are the *)
(* ICW2, ICW3 and ICW4; any other write there is the mask.                 *)

Command(p, value) ==
    IF value = 17 THEN [p EXCEPT !.icw = 2, !.open = 0 .. 7] ELSE p

Data(p, value) ==
    CASE p.icw = 0 -> [p EXCEPT !.open = value]
      [] p.icw = 2 -> [p EXCEPT !.icw = 3, !.offset = value]
      [] p.icw = 3 -> [p EXCEPT !.icw = 4, !.cascade = value]
      [] p.icw = 4 -> [p EXCEPT !.icw = 0, !.auto_eoi = (value = 3)]

\* What the BIOS uses: the lines open, other vectors, end of interrupt by hand.
BIOS(offset) ==
    [icw |-> 0, open |-> 0 .. 7, offset |-> offset, cascade |-> None,
     auto_eoi |-> FALSE]

----------------------------------------------------------------------------
(* picirq.c                                                                *)

\* The two halves of the mask.
Halves(open) ==
    <<open \cap 0 .. 7, {irq - 8 : irq \in open \cap 8 .. 15}>>

pic_setmask(p, open, initialised) ==
    IF initialised THEN [i \in 1 .. 2 |-> Data(p[i], Halves(open)[i])] ELSE p

\* Fault: the lines that were enabled before are masked again.
pic_enable_Only(irqs) ==
    /\ irq_mask' = irqs
    /\ pic' = pic_setmask(pic, irq_mask', did_init)

pic_enable(irqs) ==
    /\ irq_mask' = irq_mask \cup irqs
    /\ pic' = pic_setmask(pic, irq_mask', did_init)

\* The four ICWs of a controller, after its lines are masked.
Setup(p, offset, cascade) ==
    Data(Data(Data(Command(Data(p, {}), 17), offset), cascade), 3)

pic_init ==
    /\ did_init' = TRUE
    /\ pic' = LET set == <<Setup(pic[1], IRQ_OFFSET, {IRQ_SLAVE}),
                           Setup(pic[2], IRQ_OFFSET + 8, IRQ_SLAVE)>>
              IN  pic_setmask(set, irq_mask, TRUE)
    /\ UNCHANGED irq_mask

----------------------------------------------------------------------------
(* kern_init                                                               *)

Init ==
    /\ called = 0
    /\ serial_exists \in BOOLEAN
    /\ irq_mask = {IRQ_SLAVE}
    /\ did_init = FALSE
    /\ pic = <<BIOS(8), BIOS(112)>>
    /\ idt = {} /\ FL_IF = FALSE
    /\ raised = {} /\ handled = None /\ tick_source = None

Call(name) ==
    /\ called < Len(kern_init)
    /\ kern_init[called + 1] = name
    /\ called' = called + 1
    /\ UNCHANGED <<serial_exists, raised, handled>>

\* serial_init and kbd_init.
cons_init ==
    /\ Call("cons_init")
    /\ pic_enable({IRQ_KBD} \cup IF serial_exists THEN {IRQ_COM1} ELSE {})
    /\ UNCHANGED <<did_init, idt, FL_IF, tick_source>>

PicInit == Call("pic_init") /\ pic_init /\ UNCHANGED <<idt, FL_IF, tick_source>>

idt_init ==
    /\ Call("idt_init")
    /\ idt' = 0 .. 255
    /\ UNCHANGED <<irq_mask, did_init, pic, FL_IF, tick_source>>

ide_init ==
    /\ Call("ide_init")
    /\ pic_enable({IRQ_IDE1, IRQ_IDE2})
    /\ UNCHANGED <<did_init, idt, FL_IF, tick_source>>

clock_init ==
    /\ Call("clock_init")
    /\ tick_source' = "100 Hz"
    /\ pic_enable({IRQ_TIMER})
    /\ UNCHANGED <<did_init, idt, FL_IF>>

intr_enable ==
    /\ Call("intr_enable")
    /\ FL_IF' = TRUE
    /\ UNCHANGED <<irq_mask, did_init, pic, idt, tick_source>>

----------------------------------------------------------------------------
(* The devices and the CPU                                                 *)

Lines == {IRQ_TIMER, IRQ_KBD, IRQ_COM1, IRQ_IDE1, IRQ_IDE2}

Raise(irq) ==
    /\ irq = IRQ_COM1 => serial_exists
    /\ irq \notin raised
    /\ raised' = raised \cup {irq}
    /\ UNCHANGED <<called, serial_exists, irq_mask, did_init, pic, idt, FL_IF, handled,
                   tick_source>>

\* The slave speaks through line 2 of the master.
Passes(irq) ==
    IF irq < 8 THEN irq \in pic[1].open
    ELSE /\ irq - 8 \in pic[2].open /\ IRQ_SLAVE \in pic[1].open
         /\ pic[1].cascade = {IRQ_SLAVE} /\ pic[2].cascade = IRQ_SLAVE

Vector(irq) ==
    IF irq < 8 THEN pic[1].offset + irq ELSE pic[2].offset + irq - 8

\* The CPU takes an interrupt; trap() has done with it when the next comes.
Interrupt(irq) ==
    /\ FL_IF /\ irq \in raised /\ Passes(irq)
    /\ raised' = raised \ {irq}
    /\ handled' = Vector(irq)
    /\ UNCHANGED <<called, serial_exists, irq_mask, did_init, pic, idt, FL_IF, tick_source>>

Next ==
    \/ cons_init \/ PicInit \/ idt_init \/ ide_init \/ clock_init \/ intr_enable
    \/ \E irq \in Lines : Raise(irq) \/ Interrupt(irq)

Spec == Init /\ [][Next]_vars

----------------------------------------------------------------------------
(* Properties                                                              *)

\* The cases of trap_dispatch for devices.
Dispatched == {IRQ_OFFSET + irq : irq \in Lines}

\* Once the kernel waits for interrupts, those of every device that there is
\* reach the CPU, whether the device was enabled before the controllers were
\* set up or after; each comes under a vector that has a gate and a case in
\* trap_dispatch (any other kills the process), acknowledged by the controller
\* itself, and the ticks come from a clock that is set.
InterruptsSound ==
    /\ handled # None => handled \in Dispatched \cap idt
    /\ FL_IF => /\ \A irq \in Lines \ (IF serial_exists THEN {} ELSE {IRQ_COM1}) :
                    Passes(irq) /\ Vector(irq) = IRQ_OFFSET + irq
                /\ \A i \in 1 .. 2 : pic[i].icw = 0 /\ pic[i].auto_eoi
                /\ tick_source # None

=============================================================================
