------------------------------- MODULE Strings -------------------------------
(***************************************************************************)
(* The string functions of libs/string.c, of which libs/x86.h replaces     *)
(* five by string instructions, on the bytes of one small memory.  An      *)
(* address is an index; a result NULL is -1.                               *)
(***************************************************************************)
EXTENDS Integers, Sequences, FiniteSetsExt, SequencesExt

CONSTANTS
    Bytes,          \* of the text, 0 among them
    MaxText,
    Bases           \* the third argument of strtol

VARIABLE text

Init == text = <<>>

Next == Len(text) < MaxText /\ \E c \in Bytes : text' = Append(text, c)

Spec == Init /\ [][Next]_text

\* The text with a NUL behind it: a C string begins at each address.
Memory == [a \in 0 .. Len(text) |-> IF a < Len(text) THEN text[a + 1] ELSE 0]

NULL == -1

----------------------------------------------------------------------------
(* Moving bytes                                                            *)

\* One movs of w bytes: all are read before the first is written.
Movs(m, dst, src, w) ==
    [a \in DOMAIN m |-> IF a \in dst .. dst + w - 1 THEN m[a - dst + src] ELSE m[a]]

\* One movs at each of the offsets, in their order.
Moves(m, dst, src, w, offsets) ==
    FoldLeft(LAMBDA n, i : Movs(n, dst + i, src + i, w), m, offsets)

Upwards(from, n) == [k \in 1 .. n |-> from + k - 1]

\* Four bytes at a time, then the rest.
memcpy(m, dst, src, n) ==
    LET words == [k \in 1 .. n \div 4 |-> 4 * (k - 1)]
    IN  Moves(Moves(m, dst, src, 4, words),
              dst, src, 1, Upwards(4 * (n \div 4), n % 4))

\* Fault: whatever the direction, from the front.
memmove_Forwards(m, dst, src, n) == memcpy(m, dst, src, n)

\* From the back if the destination does not lie below the source.
memmove(m, dst, src, n) ==
    IF dst < src THEN memcpy(m, dst, src, n)
    ELSE Moves(m, dst, src, 1, Reverse(Upwards(0, n)))

memset(m, s, c, n) == [a \in DOMAIN m |-> IF a \in s .. s + n - 1 THEN c ELSE m[a]]

----------------------------------------------------------------------------
(* Strings                                                                 *)

strlen(m, s) == Min({i \in 0 .. Len(text) - s : m[s + i] = 0})

strnlen(m, s, len) == Min({len} \cup {i \in 0 .. Len(text) - s : m[s + i] = 0})

\* The bytes go one by one, and the NUL too.
strcpy(m, dst, src) == Moves(m, dst, src, 1, Upwards(0, strlen(m, src) + 1))

\* The source pointer stops at the NUL, which is then written again and again.
strncpy(m, dst, src, len) ==
    LET end == strlen(m, src) IN
    FoldLeft(LAMBDA n, i : Movs(n, dst + i, src + Min({i, end}), 1), m, Upwards(0, len))

\* Where two strings differ or both end.
Differ(m, s1, s2) ==
    Min({i \in 0 .. Len(text) - Max({s1, s2}) :
            m[s1 + i] # m[s2 + i] \/ m[s1 + i] = 0})

\* The borrow of the comparison, and 1 or-ed to it.
strcmp(m, s1, s2) ==
    LET i == Differ(m, s1, s2)
    IN  IF m[s1 + i] = m[s2 + i] THEN 0
        ELSE IF m[s1 + i] < m[s2 + i] THEN -1 ELSE 1

strncmp(m, s1, s2, n) ==
    LET i == Differ(m, s1, s2)
    IN  IF i >= n THEN 0 ELSE m[s1 + i] - m[s2 + i]

strfind(m, s, c) ==
    s + Min({i \in 0 .. strlen(m, s) : m[s + i] = c \/ m[s + i] = 0})

strchr(m, s, c) ==
    LET at == strfind(m, s, c) IN IF m[at] = 0 THEN NULL ELSE at

memcmp(m, v1, v2, n) ==
    LET differ == {i \in 0 .. n - 1 : m[v1 + i] # m[v2 + i]}
    IN  IF differ = {} THEN 0 ELSE m[v1 + Min(differ)] - m[v2 + Min(differ)]

----------------------------------------------------------------------------
(* strtol.  Each step moves the pointer s on.                              *)

Is(c, first, last) == first <= c /\ c <= last

\* The value of a digit, of whatever base.
Digit(c) ==
    IF Is(c, 48, 57) THEN c - 48
    ELSE IF Is(c, 97, 122) THEN c - 97 + 10
    ELSE IF Is(c, 65, 90) THEN c - 65 + 10 ELSE 99

SkipBlanks(m, s) == s + Min({i \in 0 .. Len(text) - s : m[s + i] \notin {32, 9}})

SkipSign(m, s) == IF m[s] \in {43, 45} THEN s + 1 ELSE s

\* Fault: a prefix 0 alone is not seen.
Prefix_HexOnly(m, s, base) ==
    IF base \in {0, 16} /\ m[s] = 48 /\ m[s + 1] = 120 THEN [at |-> s + 2, base |-> 16]
    ELSE [at |-> s, base |-> IF base = 0 THEN 10 ELSE base]

\* 0x, or 0, and the base that it says.
Prefix(m, s, base) ==
    IF base \in {0, 16} /\ m[s] = 48 /\ m[s + 1] = 120 THEN [at |-> s + 2, base |-> 16]
    ELSE IF base = 0 /\ m[s] = 48 THEN [at |-> s + 1, base |-> 8]
    ELSE [at |-> s, base |-> IF base = 0 THEN 10 ELSE base]

\* The result, and where endptr points.
strtol(m, s, base) ==
    LET sign == SkipBlanks(m, s)
        p    == Prefix(m, SkipSign(m, sign), base)
        end  == p.at + Min({i \in 0 .. Len(text) - p.at : Digit(m[p.at + i]) >= p.base})
        val  == FoldLeft(LAMBDA v, a : v * p.base + Digit(m[a]), 0, Upwards(p.at, end - p.at))
    IN  [val |-> IF m[sign] = 45 THEN -val ELSE val, end |-> end]

----------------------------------------------------------------------------
(* Properties                                                              *)

StringAt(m, s) == [i \in 1 .. strlen(m, s) |-> m[s + i - 1]]

\* Lexicographic order of bytes.
Below(u, v) ==
    \E k \in 0 .. Min({Len(u), Len(v)}) :
        /\ SubSeq(u, 1, k) = SubSeq(v, 1, k)
        /\ Len(v) > k /\ (Len(u) = k \/ u[k + 1] < v[k + 1])

\* The bytes from dst on are what the bytes from src on were, and no other
\* byte is touched.
Copied(m, new, dst, src, n) ==
    \A a \in DOMAIN m :
        new[a] = IF a \in dst .. dst + n - 1 THEN m[a - dst + src] ELSE m[a]

\* memmove copies right however the two areas overlap, and memcpy if they do
\* not or if dst is below src, on which memmove relies.  The bytes do not
\* matter, so they are all different.
CopiesRight ==
    LET m == [a \in 0 .. 11 |-> a] IN
    \A dst, src \in 0 .. 11 : \A n \in 0 .. 12 - Max({dst, src}) :
        /\ Copied(m, memmove(m, dst, src, n), dst, src, n)
        /\ dst < src \/ dst >= src + n => Copied(m, memcpy(m, dst, src, n), dst, src, n)

\* At every pair of strings: order as unsigned bytes whichever function says
\* it, memory compared by its first different byte, copies that end with their
\* NUL and are padded, and the first place of a character.
StringsRight ==
    LET m == Memory IN
    \A s1, s2 \in DOMAIN m :
        LET u == StringAt(m, s1) v == StringAt(m, s2) n == Len(u) + 1 IN
        /\ strcmp(m, s1, s2) = (IF u = v THEN 0 ELSE IF Below(u, v) THEN -1 ELSE 1)
        /\ \A k \in 0 .. MaxText :
            LET first == SubSeq(u, 1, Min({k, Len(u)}))
                other == SubSeq(v, 1, Min({k, Len(v)}))
                diff  == strncmp(m, s1, s2, k)
            IN  /\ strnlen(m, s1, k) = Len(first)
                /\ (diff = 0 <=> first = other) /\ (diff < 0 <=> Below(first, other))
                /\ s1 >= s2 + k /\ s1 + k \in DOMAIN m /\ s1 > s2 + Len(v) =>
                    LET new == strncpy(m, s1, s2, k) IN
                    \A i \in 0 .. k - 1 :
                        new[s1 + i] = IF i < Len(v) THEN v[i + 1] ELSE 0
        /\ \A k \in 0 .. Len(text) + 1 - Max({s1, s2}) :
            LET first == SubSeq(Append(text, 0), s1 + 1, s1 + k)
                other == SubSeq(Append(text, 0), s2 + 1, s2 + k)
                diff  == memcmp(m, s1, s2, k)
            IN  (diff = 0 <=> first = other) /\ (diff < 0 <=> Below(first, other))
        /\ s2 > s1 + n /\ s2 + n \in DOMAIN m
            => StringAt(strcpy(m, s2, s1), s2) = u
        /\ \A c \in Bytes \ {0} :
            LET at == {i \in DOMAIN u : u[i] = c} IN
            /\ strchr(m, s1, c) = (IF at = {} THEN NULL ELSE s1 + Min(at) - 1)
            /\ strfind(m, s1, c) = s1 + (IF at = {} THEN Len(u) ELSE Min(at) - 1)

\* The value that digits have in a base.
Value(digits, base) ==
    LET f[i \in 0 .. Len(digits)] ==
            IF i = 0 THEN 0 ELSE base * f[i - 1] + Digit(digits[i])
    IN  f[Len(digits)]

\* What the comment of strtol says of the prefix: 0 or 0x if the base is 0, and
\* 0x or 0X if it is 16 (string.c:191-199).
LowerHex == <<48, 120>>
UpperHex == <<48, 88>>

PrefixesOf(base) == CASE base = 0  -> {LowerHex, <<48>>}
                    [] base = 16 -> {LowerHex, UpperHex}
                    [] OTHER     -> {}

BaseOf(prefix, base) ==
    IF base # 0 THEN base
    ELSE CASE prefix = LowerHex -> 16 [] prefix = <<48>> -> 8 [] OTHER -> 10

\* One of the prefixes is at place i of the text.
Begins(prefixes, i) == \E p \in prefixes : IsPrefix(p, SubSeq(text, i + 1, Len(text)))

\* The number is that of some blanks, a sign, the longest prefix that is there,
\* and digits from the start of the text to endptr, which no digit follows.
NumberRight(base) ==
    LET r == strtol(Memory, 0, base) IN
    \E i \in 0 .. r.end : \E j \in i .. Min({i + 1, r.end}) : \E k \in j .. Min({j + 2, r.end}) :
        LET prefix == SubSeq(text, j + 1, k)
            digits == SubSeq(text, k + 1, r.end)
            actual == BaseOf(prefix, base)
        IN  /\ \A a \in 1 .. i : text[a] \in {32, 9}
            /\ i = Len(text) \/ text[i + 1] \notin {32, 9}
            /\ j = i + 1 <=> i < Len(text) /\ text[i + 1] \in {43, 45}
            /\ prefix \in PrefixesOf(base) \cup {<<>>}
            /\ ~Begins({p \in PrefixesOf(base) : Len(p) > Len(prefix)}, j)
            /\ \A d \in ToSet(digits) : Digit(d) < actual
            /\ r.end = Len(text) \/ Digit(text[r.end + 1]) >= actual
            /\ r.val = (IF i < j /\ text[j] = 45 THEN -1 ELSE 1) * Value(digits, actual)

\* strtol finds the numbers that its comment describes.  It does not find those
\* with 0X in front, which the comment allows in base 16: string.c:222 looks for
\* 0x alone.
NumbersRight == \A base \in Bases : NumberRight(base)

\* The text, after its blanks and sign, has 0X in front.
UpperHexAhead == Begins({UpperHex}, SkipSign(Memory, SkipBlanks(Memory, 0)))

\* All numbers but these come out right, and of these the 0 alone is read.
NumbersRightButUpperHex ==
    \A base \in Bases :
        IF base = 16 /\ UpperHexAhead
        THEN LET r == strtol(Memory, 0, base) IN r.val = 0 /\ text[r.end + 1] = 88
        ELSE NumberRight(base)

\* The functions of string.h do what their comments say, but for what
\* NumbersRight refutes.  The first part is not about the text, and is looked at
\* once.
StringFunctionsRight ==
    (text = <<>> => CopiesRight) /\ StringsRight /\ NumbersRightButUpperHex

=============================================================================
