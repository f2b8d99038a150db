------------------------------ MODULE Terminal ------------------------------
(***************************************************************************)
(* The dialogue of the kernel monitor: kmonitor and runcmd                 *)
(* (kern/debug/kmonitor.c), readline (kern/libs/readline.c) and the screen *)
(* that cga_putc of kern/driver/console.c writes.  The characters come     *)
(* from cons_getc (module Console).  Printing is a fold of cga_putc; what  *)
(* a command prints is Reply.                                              *)
(***************************************************************************)
EXTENDS Integers, Sequences, FiniteSetsExt, SequencesExt

CONSTANTS
    CRT_ROWS, CRT_COLS,
    BUFSIZE,
    Letters,        \* printable characters but the blank
    Commands,       \* the names in commands[], as words
    Prompt, Reply

CRT_SIZE == CRT_ROWS * CRT_COLS

VARIABLES
    crt_buf, crt_pos,       \* cells of the screen, from 0, and the cursor
    line,                   \* buf[0 .. i - 1] of readline
    argv                    \* what runcmd made of the latest line

vars == <<crt_buf, crt_pos, line, argv>>

Blank == " "
Keys == Letters \cup {Blank, "BS", "LF", "CR", "TAB"}

----------------------------------------------------------------------------
(* The screen                                                              *)

Screen(buf, pos) == [buf |-> buf, pos |-> pos]

\* The rows move up by one, and the last one is blank.
Scroll(s) ==
    IF s.pos < CRT_SIZE THEN s
    ELSE Screen([a \in DOMAIN s.buf |->
                    IF a < CRT_SIZE - CRT_COLS THEN s.buf[a + CRT_COLS] ELSE Blank],
                s.pos - CRT_COLS)

\* Fault: the cursor does not leave its row backwards.
Erase_InRow(s) ==
    IF s.pos % CRT_COLS > 0
    THEN Screen([s.buf EXCEPT ![s.pos - 1] = Blank], s.pos - 1) ELSE s

Erase(s) ==
    IF s.pos > 0 THEN Screen([s.buf EXCEPT ![s.pos - 1] = Blank], s.pos - 1) ELSE s

\* A newline goes to the start of the next row.
cga_putc(s, c) ==
    Scroll(CASE c = "BS" -> Erase(s)
             [] c = "LF" -> Screen(s.buf, s.pos + CRT_COLS - (s.pos % CRT_COLS))
             [] c = "CR" -> Screen(s.buf, s.pos - (s.pos % CRT_COLS))
             [] OTHER    -> Screen([s.buf EXCEPT ![s.pos] = c], s.pos + 1))

Printed(str) == FoldLeft(cga_putc, Screen(crt_buf, crt_pos), str)

Show(s) == crt_buf' = s.buf /\ crt_pos' = s.pos

----------------------------------------------------------------------------
(* The monitor                                                             *)

\* The first turn of kmonitor has printed the prompt.
Init ==
    /\ LET s == FoldLeft(cga_putc, Screen([a \in 0 .. CRT_SIZE - 1 |-> Blank], 0), Prompt)
       IN  crt_buf = s.buf /\ crt_pos = s.pos
    /\ line = <<>>
    /\ argv = <<>>

Insert(c) ==
    /\ c \in Letters \cup {Blank}
    /\ Len(line) < BUFSIZE - 1
    /\ line' = Append(line, c)
    /\ Show(Printed(<<c>>))
    /\ UNCHANGED argv

Backspace(c) ==
    /\ c = "BS" /\ line # <<>>
    /\ line' = Front(line)
    /\ Show(Printed(<<c>>))
    /\ UNCHANGED argv

\* Other characters, and those that there is no room for, are not echoed.
Ignore(c) ==
    /\ \/ c = "TAB"
       \/ c = "BS" /\ line = <<>>
       \/ c \in Letters \cup {Blank} /\ Len(line) >= BUFSIZE - 1
    /\ UNCHANGED vars

\* Fault: a blank does not end a word that has one letter.
parse_Short(str) ==
    LET Begins(i) == str[i] # Blank /\ (i = 1 \/ str[i - 1] = Blank)
        start == SetToSortSeq({i \in DOMAIN str : Begins(i)}, LAMBDA i, j : i < j)
        End(i) == Min({j \in i + 1 .. Len(str) : str[j] = Blank} \cup {Len(str) + 1})
    IN  [k \in DOMAIN start |-> SubSeq(str, start[k], Min({End(start[k]), Len(str)}))]

\* Words go from a character behind a blank up to the next blank.
parse(str) ==
    LET Begins(i) == str[i] # Blank /\ (i = 1 \/ str[i - 1] = Blank)
        start == SetToSortSeq({i \in DOMAIN str : Begins(i)}, LAMBDA i, j : i < j)
        End(i) == Min({j \in i .. Len(str) : str[j] = Blank} \cup {Len(str) + 1})
    IN  [k \in DOMAIN start |-> SubSeq(str, start[k], End(start[k]) - 1)]

\* What runcmd prints: nothing for an empty line, else the reply of the
\* command or that there is none.
runcmd(args) ==
    IF args = <<>> THEN <<>>
    ELSE IF args[1] \in Commands THEN Reply ELSE <<"?">> \o args[1] \o <<"LF">>

\* The end of a line is echoed as it came; kmonitor runs the command and asks
\* for the next one.
Enter(c) ==
    /\ c \in {"LF", "CR"}
    /\ argv' = parse(line)
    /\ line' = <<>>
    /\ Show(Printed(<<c>> \o runcmd(argv') \o Prompt))

Next == \E c \in Keys : Insert(c) \/ Backspace(c) \/ Ignore(c) \/ Enter(c)

Spec == Init /\ [][Next]_vars

----------------------------------------------------------------------------
\* In front of the cursor are the prompt and the characters that readline will
\* return, no more and no less, whatever was typed, erased and printed before,
\* wherever the line wraps and the screen scrolls.  The words of the latest
\* command have no blanks.
ShowsLine ==
    LET typed == Prompt \o line
        from  == crt_pos - Len(typed)
    IN  /\ 0 <= from /\ crt_pos < CRT_SIZE
        /\ \A i \in DOMAIN typed : crt_buf[from + i - 1] = typed[i]
        /\ \A k \in DOMAIN argv : argv[k] # <<>> /\ Blank \notin ToSet(argv[k])

=============================================================================
