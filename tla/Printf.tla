------------------------------- MODULE Printf -------------------------------
(***************************************************************************)
(* vprintfmt and vsnprintf of libs/printfmt.c, on an int of W bits.  A     *)
(* format is a sequence of characters; vprintfmt is a fold over it.  The   *)
(* k-th argument is Numbers[k], Texts[k] or Glyphs[k], as the conversion   *)
(* takes it.                                                               *)
(***************************************************************************)
EXTENDS Integers, Sequences, FiniteSetsExt, SequencesExt

CONSTANTS
    W,
    Numbers,        \* arguments that are numbers, negative or not
    Texts,          \* arguments that are strings
    Glyphs,         \* arguments that are characters
    MAXERROR,
    error_string,   \* of the errors from 1 on
    Characters,     \* of the formats
    MaxFormat

VARIABLE format

Init == format = <<>>

Next == Len(format) < MaxFormat /\ \E c \in Characters : format' = Append(format, c)

Spec == Init /\ [][Next]_format

----------------------------------------------------------------------------
(* Numbers                                                                 *)

DigitChars == <<"0", "1", "2", "3", "4", "5", "6", "7", "8", "9",
                "a", "b", "c", "d", "e", "f">>

Decimal == [c \in {DigitChars[d + 1] : d \in 0 .. 9} |->
                CHOOSE d \in 0 .. 9 : DigitChars[d + 1] = c]

\* The digits of a number, the most significant first.
Digits(num, base) ==
    LET more[n \in 0 .. 2 * W] ==
            IF n = 0 THEN [left |-> num \div base, digits |-> <<DigitChars[(num % base) + 1]>>]
            ELSE LET s == more[n - 1] IN
                 IF s.left = 0 THEN s
                 ELSE [left |-> s.left \div base,
                       digits |-> <<DigitChars[(s.left % base) + 1]>> \o s.digits]
    IN  more[2 * W].digits

Row(n, c) == [i \in 1 .. Max({n, 0}) |-> c]

\* The padding goes in front of the first digit.
printnum(num, base, width, padc) ==
    LET digits == Digits(num, base)
    IN  Row(width - Len(digits), padc) \o digits

\* What is read from the arguments, as a number without a sign.
getuint(i, lflag) == i % 2 ^ (IF lflag >= 2 THEN 2 * W ELSE W)

----------------------------------------------------------------------------
(* vprintfmt                                                               *)

\* Outside of escapes.  since is what came after the last %.
Plain == [mode |-> "plain", padc |-> " ", width |-> -1, precision |-> -1,
          lflag |-> 0, alt |-> FALSE, since |-> <<>>]

Number(s) == Numbers[s.arg]
Text(s) == Texts[s.arg]

\* An escape ends with out printed, and n arguments taken.
Done(s, out, n) == Plain @@ [out |-> s.out \o out, arg |-> s.arg + n]

\* process_precision
Process(s) ==
    IF s.width < 0 THEN [s EXCEPT !.width = s.precision, !.precision = -1, !.mode = "escape"]
    ELSE [s EXCEPT !.mode = "escape"]

\* Fault: the precision is passed over.
PrintString_Whole(s, str) ==
    IF s.padc # "-" THEN Row(s.width - Len(str), s.padc) \o str
    ELSE str \o Row(s.width - Len(str), " ")

\* At most precision characters, padded in front, or behind after a -; with
\* a # what cannot be printed is a question mark.
PrintString(s, str) ==
    LET shown  == IF s.precision < 0 THEN str
                  ELSE SubSeq(str, 1, Min({s.precision, Len(str)}))
        masked == [i \in DOMAIN shown |-> IF s.alt /\ shown[i] = "DEL" THEN "?" ELSE shown[i]]
        pad    == s.width - Len(shown)
    IN  IF s.padc # "-" THEN Row(pad, s.padc) \o masked ELSE masked \o Row(pad, " ")

\* A negative number gets its sign before the padding.
PrintSigned(s, i) ==
    IF i < 0 THEN <<"-">> \o printnum(-i, 10, s.width, s.padc)
    ELSE printnum(i, 10, s.width, s.padc)

\* The least int is its own negative, and then error_string is read in front of
\* its first entry: what is printed depends on what lies there.
Anything == <<"anything">>

Negated(i) == IF i = -2 ^ (W - 1) THEN i ELSE -i

PrintError(e) ==
    LET err == IF e < 0 THEN Negated(e) ELSE e
    IN  IF err < 0 THEN Anything
        ELSE IF err \in 1 .. MAXERROR THEN error_string[err]
        ELSE <<"error", " ">> \o PrintSigned(Plain, err)

\* One character of an escape, not a digit of a number begun.
Escape(s, ch) ==
    CASE ch \in {"-", "0"} -> [s EXCEPT !.padc = ch]
      [] ch \in DOMAIN Decimal \ {"0"} ->
            [s EXCEPT !.mode = "number", !.precision = Decimal[ch]]
      [] ch = "*" -> Process([s EXCEPT !.precision = Number(s), !.arg = @ + 1])
      [] ch = "." -> [s EXCEPT !.width = Max({@, 0})]
      [] ch = "#" -> [s EXCEPT !.alt = TRUE]
      [] ch = "l" -> [s EXCEPT !.lflag = @ + 1]
      [] ch = "c" -> Done(s, <<Glyphs[s.arg]>>, 1)
      [] ch = "e" -> Done(s, PrintError(Number(s)), 1)
      [] ch = "s" -> Done(s, PrintString(s, Text(s)), 1)
      [] ch = "d" -> Done(s, PrintSigned(s, Number(s)), 1)
      [] ch = "u" -> Done(s, printnum(getuint(Number(s), s.lflag), 10, s.width, s.padc), 1)
      [] ch = "o" -> Done(s, printnum(getuint(Number(s), s.lflag), 8, s.width, s.padc), 1)
      [] ch = "p" -> Done(s, <<"0", "x">> \o printnum(getuint(Number(s), 0), 16, s.width, s.padc), 1)
      [] ch = "x" -> Done(s, printnum(getuint(Number(s), s.lflag), 16, s.width, s.padc), 1)
      [] ch = "%" -> Done(s, <<"%">>, 0)
      [] OTHER -> Done(s, <<"%">> \o s.since \o <<ch>>, 0)

\* One character of the format, s not in the middle of a number that it ends.
Take(s, ch) ==
    CASE s.mode = "number" ->
            [s EXCEPT !.precision = 10 * @ + Decimal[ch], !.since = Append(@, ch)]
      [] s.mode = "escape" ->
            LET Continued(next) == IF next.mode = "plain" THEN next
                                   ELSE [next EXCEPT !.since = Append(@, ch)]
            IN  Continued(Escape(s, ch))
      [] s.mode = "plain" /\ ch = "%" -> [s EXCEPT !.mode = "escape"]
      [] OTHER -> [s EXCEPT !.out = Append(@, ch)]

Step(s, ch) ==
    IF s.mode = "number" /\ ch \notin DOMAIN Decimal THEN Take(Process(s), ch)
    ELSE Take(s, ch)

\* An escape that the end of the format cuts off is printed as it stands.
Ended(s) == IF s.mode = "plain" THEN s.out ELSE s.out \o <<"%">> \o s.since

vprintfmt(fmt) == Ended(FoldLeft(Step, Plain @@ [out |-> <<>>, arg |-> 1], fmt))

E_INVAL == 3

\* sprintputch drops what does not fit, but counts it.  A buffer without room for
\* the NUL is refused.
vsnprintf(size, fmt) ==
    LET Cut(out) == [buf |-> SubSeq(out, 1, Min({size - 1, Len(out)})) \o <<"NUL">>,
                     cnt |-> Len(out)]
    IN  IF size = 0 THEN [buf |-> <<>>, cnt |-> -E_INVAL] ELSE Cut(vprintfmt(fmt))

----------------------------------------------------------------------------
(* Properties                                                              *)

\* The escapes of one conversion: flags, width, precision and length.
Fields == [flag : {<<>>, <<"0">>, <<"-">>}, width : {0, 3, 10},
           precision : {-1, 2}, length : 0 .. 2, conv : {"d", "u", "o", "x", "p", "s"}]

Written(n) == IF n >= 0 THEN Digits(n, 10) ELSE <<>>

Format(f) ==
    <<"%">> \o f.flag
        \o (IF f.width > 0 THEN Written(f.width) ELSE <<>>)
        \o (IF f.precision >= 0 THEN <<".">> \o Written(f.precision) ELSE <<>>)
        \o Row(f.length, "l") \o <<f.conv>>

\* The number that digits stand for.
ValueOf(digits, base) ==
    LET digit(c) == (CHOOSE d \in 1 .. 16 : DigitChars[d] = c) - 1
    IN  FoldLeft(LAMBDA v, c : v * base + digit(c), 0, digits)

\* own is what the k-th conversion printed.
StringRight(f, str, own) ==
    /\ Len(own) = Max({f.width, Len(str)})
    /\ IF f.flag = <<"-">> THEN IsPrefix(str, own) ELSE IsSuffix(str, own)

\* body is padding, and digits that stand for number.
DigitsRight(f, number, base, body) ==
    LET pads == Max({i \in 0 .. Len(body) - 1 :
                        \A j \in 1 .. i : body[j] \in {" ", "-", "0"}})
    IN  /\ ValueOf(SubSeq(body, pads + 1, Len(body)), base) = number
        /\ Len(body) > f.width => pads = 0 \/ number = 0
        /\ Len(body) >= f.width

ConversionRight(f, k, own) ==
    CASE f.conv = "s" ->
            StringRight(f, SubSeq(Texts[k], 1, IF f.precision < 0 THEN Len(Texts[k])
                                 ELSE Min({f.precision, Len(Texts[k])})), own)
      [] f.conv = "d" /\ Numbers[k] < 0 ->
            own[1] = "-" /\ DigitsRight(f, -Numbers[k], 10, Tail(own))
      [] f.conv = "p" ->
            /\ IsPrefix(<<"0", "x">>, own)
            /\ DigitsRight(f, getuint(Numbers[k], 0), 16, SubSeq(own, 3, Len(own)))
      [] OTHER ->
            DigitsRight(f, getuint(Numbers[k], f.length),
                        CASE f.conv = "x" -> 16 [] f.conv = "o" -> 8 [] OTHER -> 10,
                        own)

\* What takes the arguments before the k-th.
Before(k) == FlattenSeq(Row(k - 1, <<"%", "d">>))

\* Whatever the fields, the k-th conversion of a number prints some padding,
\* and the digits of the k-th argument, in all as many as the width asks for
\* and no more than the number needs; a string loses what is behind the
\* precision, and is padded on the side that the flag says.
ConversionsRight ==
    LET Printed(f, k, head, out) ==
            /\ IsPrefix(head, out)
            /\ ConversionRight(f, k, SubSeq(out, Len(head) + 1, Len(out)))
    IN  \A f \in Fields : \A k \in DOMAIN Numbers :
            Printed(f, k, vprintfmt(Before(k)), vprintfmt(Before(k) \o Format(f)))

\* An error code and its negative print the same, the string of the error or its
\* number; the least int, which has no negative, is left out.
ErrorsRight ==
    LET Printed(k) == vprintfmt(Before(k) \o <<"%", "e">>)
        Own(k) == SubSeq(Printed(k), Len(vprintfmt(Before(k))) + 1, Len(Printed(k)))
        Size(i) == IF i < 0 THEN -i ELSE i
    IN  \A k \in DOMAIN Numbers :
            Numbers[k] # -2 ^ (W - 1) =>
                IF Size(Numbers[k]) \in DOMAIN error_string
                THEN Own(k) = error_string[Size(Numbers[k])]
                ELSE ValueOf(SubSeq(Own(k), 3, Len(Own(k))), 10) = Size(Numbers[k])

\* Any format at all: what is not an escape comes out as it is, and a buffer
\* gets the front of it, as much as it has room for, with the whole length as
\* the result; of no room at all nothing is written, and the result is an error.
FormatsRight ==
    LET Fits(size, out, r) ==
            /\ Len(r.buf) <= size
            /\ r.cnt = Len(out) \/ (size = 0 /\ r.cnt < 0)
            /\ size > 0 =>
                /\ Last(r.buf) = "NUL" /\ IsPrefix(Front(r.buf), out)
                /\ size > Len(out) => Front(r.buf) = out
        Right(out) ==
            /\ "%" \notin ToSet(format) => out = format
            /\ \A size \in 0 .. Len(out) + 2 : Fits(size, out, vsnprintf(size, format))
    IN  Right(vprintfmt(format))

\* The first two are about the code alone, and are looked at once.
PrintingRight == (format = <<>> => ConversionsRight /\ ErrorsRight) /\ FormatsRight

=============================================================================
