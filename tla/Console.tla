------------------------------ MODULE Console ------------------------------
(***************************************************************************)
(* The input side of kern/driver/console.c: the serial port and the        *)
(* keyboard, polled by cons_getc into a ring of CONSBUFSIZE characters.    *)
(* cons_getc is called by the interrupt handlers of trap.c, once an        *)
(* interrupt, and by getchar for the kernel monitor; interrupts are off    *)
(* while it runs.                                                          *)
(***************************************************************************)
EXTENDS Integers, Sequences, SequencesExt, FiniteSetsExt

CONSTANTS
    CONSBUFSIZE,
    Received,       \* what the serial port receives
    Keys,           \* the keys: [code, e0]
    NO,             \* 0, no character
    MaxPending      \* bound of what the devices hold at a time

VARIABLES
    serial,         \* bytes in the serial port
    keyboard,       \* bytes in the keyboard controller
    shift,
    buf, rpos, wpos,
    got,            \* what cons_getc has returned last
    held            \* the keys that are held down

vars == <<serial, keyboard, shift, buf, rpos, wpos, got, held>>

Init ==
    /\ serial = <<>> /\ keyboard = <<>>
    /\ shift = {}
    /\ buf = [i \in 0 .. CONSBUFSIZE - 1 |-> NO] /\ rpos = 0 /\ wpos = 0
    /\ got = NO
    /\ held = {}

----------------------------------------------------------------------------
(* The devices                                                             *)

E0 == 224

\* A key sends E0 first if it is one of the later ones, and 128 more when it
\* is released.
Codes(key, released) ==
    (IF key.e0 THEN <<E0>> ELSE <<>>) \o <<key.code + (IF released THEN 128 ELSE 0)>>

Room(n) == Len(serial) + Len(keyboard) + n <= MaxPending

Receive(c) ==
    /\ Room(1)
    /\ serial' = Append(serial, c)
    /\ UNCHANGED <<keyboard, shift, buf, rpos, wpos, got, held>>

\* A key that is held is sent again.
Press(key) ==
    /\ Room(Len(Codes(key, FALSE)))
    /\ keyboard' = keyboard \o Codes(key, FALSE)
    /\ held' = held \cup {key}
    /\ UNCHANGED <<serial, shift, buf, rpos, wpos, got>>

Release(key) ==
    /\ key \in held
    /\ Room(Len(Codes(key, TRUE)))
    /\ keyboard' = keyboard \o Codes(key, TRUE)
    /\ held' = held \ {key}
    /\ UNCHANGED <<serial, shift, buf, rpos, wpos, got>>

----------------------------------------------------------------------------
(* console.c                                                               *)

\* serial_proc_data.
FromSerial(c) == IF c = "DEL" THEN "BS" ELSE c

\* shiftcode and togglecode.
Modifier(data) ==
    CASE data \in {29, 157} -> {"CTL"}
    []   data \in {42, 54}  -> {"SHIFT"}
    []   data \in {56, 184} -> {"ALT"}
    []   OTHER -> {}

Toggle(data) == IF data = 58 THEN {"CAPSLOCK"} ELSE {}

\* normalmap, shiftmap and ctlmap, and the capitals lock: key 30 stands for
\* the letters and key 2 for what has a second character of its own.
Char(data, on) ==
    CASE data = 30 -> IF "CTL" \in on THEN "^A"
                      ELSE IF ("SHIFT" \in on) # ("CAPSLOCK" \in on) THEN "A" ELSE "a"
    []   data = 2  -> IF "CTL" \in on THEN NO ELSE IF "SHIFT" \in on THEN "!" ELSE "1"
    []   OTHER -> NO

\* Fault: the E0 before a released key is kept.
kbd_proc_data_KeepsE0(k, data) ==
    IF data = E0 THEN [k EXCEPT !.shift = @ \cup {"E0ESC"}]
    ELSE IF data >= 128
    THEN LET code == IF "E0ESC" \in k.shift THEN data ELSE data - 128
         IN  [k EXCEPT !.shift = @ \ Modifier(code)]
    ELSE LET code == IF "E0ESC" \in k.shift THEN data + 128 ELSE data
             on   == SymDiff((k.shift \ {"E0ESC"}) \cup Modifier(code), Toggle(code))
         IN  [shift |-> on, chars |-> Append(k.chars, Char(code, on))]

\* kbd_proc_data for one byte; k is [shift, chars].
kbd_proc_data(k, data) ==
    IF data = E0 THEN [k EXCEPT !.shift = @ \cup {"E0ESC"}]
    ELSE IF data >= 128
    THEN LET code == IF "E0ESC" \in k.shift THEN data ELSE data - 128
         IN  [k EXCEPT !.shift = @ \ (Modifier(code) \cup {"E0ESC"})]
    ELSE LET code == IF "E0ESC" \in k.shift THEN data + 128 ELSE data
             on   == SymDiff((k.shift \ {"E0ESC"}) \cup Modifier(code), Toggle(code))
         IN  [shift |-> on, chars |-> Append(k.chars, Char(code, on))]

Typed == FoldLeft(kbd_proc_data, [shift |-> shift, chars |-> <<>>], keyboard)

After(pos) == IF pos + 1 = CONSBUFSIZE THEN 0 ELSE pos + 1

\* Fault: what is no character is stored, too.
store_Any(ring, c) ==
    [ring EXCEPT !.buf[ring.wpos] = c, !.wpos = After(@)]

\* The body of the loop of cons_intr.
store(ring, c) ==
    IF c = NO THEN ring
    ELSE [ring EXCEPT !.buf[ring.wpos] = c, !.wpos = After(@)]

cons_intr(ring, chars) == FoldLeft(store, ring, chars)

FromSerialPort == [i \in DOMAIN serial |-> FromSerial(serial[i])]

\* serial_intr, kbd_intr and the next character.
cons_getc ==
    LET ring == cons_intr([buf |-> buf, wpos |-> wpos],
                          FromSerialPort \o Typed.chars)
    IN  /\ buf' = ring.buf /\ wpos' = ring.wpos
        /\ shift' = Typed.shift
        /\ serial' = <<>> /\ keyboard' = <<>>
        /\ IF rpos = ring.wpos THEN got' = NO /\ UNCHANGED rpos
           ELSE got' = ring.buf[rpos] /\ rpos' = After(rpos)
        /\ UNCHANGED held

Next ==
    \/ \E c \in Received : Receive(c)
    \/ \E key \in Keys : Press(key) \/ Release(key)
    \/ cons_getc

Spec == Init /\ [][Next]_vars

----------------------------------------------------------------------------
(* Properties                                                              *)

ModifiersOf(key) == Modifier(key.code + (IF key.e0 THEN 128 ELSE 0))

\* No modifier sticks: once the bytes that the keyboard has sent are read, a
\* modifier is on only if a key for it is held, whatever was pressed, repeated
\* and released in between, and no E0 waits for a byte that has gone.
NoStuckModifier ==
    /\ "E0ESC" \notin Typed.shift
    /\ Typed.shift \ {"CAPSLOCK"} \subseteq UNION {ModifiersOf(key) : key \in held}

IsChar(c) == c # NO

Buffer == INSTANCE Typeahead WITH
    Size <- CONSBUFSIZE,
    None <- NO,
    serial <- FromSerialPort,
    typed <- SelectSeq(Typed.chars, IsChar),
    waiting <- [i \in 1 .. (wpos - rpos) % CONSBUFSIZE |->
                    buf[(rpos + i - 1) % CONSBUFSIZE]]

=============================================================================
