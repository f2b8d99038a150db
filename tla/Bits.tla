-------------------------------- MODULE Bits --------------------------------
(***************************************************************************)
(* The integer and floating point puzzles of the data lab (bits.c), on     *)
(* words of W bits, of which a float uses X for its exponent and F for its *)
(* fraction.  The code has W = 32, X = 8 and F = 23; its constants are     *)
(* written by what they are made of.  A word is the natural number that    *)
(* its bits are.                                                           *)
(***************************************************************************)
EXTENDS Integers, FiniteSets, FiniteSetsExt, Bitwise

CONSTANTS X, F

W == 1 + X + F
Ones == 2 ^ W - 1
Words == 0 .. Ones

VARIABLE word

Init == word = 0

Next == word' = (word + 1) % 2 ^ W

Spec == Init /\ [][Next]_word

----------------------------------------------------------------------------
(* The operators of C on int                                               *)

Compl(x) == Ones - x
Plus(x, y) == (x + y) % 2 ^ W
Shl(x, n) == (x * 2 ^ n) % 2 ^ W
Negative(x) == x >= 2 ^ (W - 1)
Signed(x) == IF Negative(x) THEN x - 2 ^ W ELSE x
Word(i) == i % 2 ^ W
Shr(x, n) == Word(Signed(x) \div 2 ^ n)
Bool(b) == IF b THEN 1 ELSE 0

\* !x
Nought(x) == Bool(x = 0)

----------------------------------------------------------------------------
(* bits.c                                                                  *)

bitAnd(x, y) == Compl(Compl(x) | Compl(y))

\* A byte is W / 4 bits.
getByte(x, n) == Shr(x, n * (W \div 4)) & (2 ^ (W \div 4) - 1)

logicalShift(x, n) ==
    LET top == Shl(1, (W + Compl(n)) % 2 ^ W)
    IN  Shr(x, n) & (Plus(top, Ones) | top)

\* Groups of n bits, every other one set.
Mask(n) == Ones \div (2 ^ n + 1)

\* The counts of neighbouring groups are added, from bits up to half words.
bitCount(x) ==
    LET sum[n \in {1} \cup {2 ^ k : k \in 1 .. W}] ==
            IF n = 1 THEN x
            ELSE LET s == sum[n \div 2] m == Mask(n \div 2)
                 IN  Plus(s & m, Shr(s, n \div 2) & m)
    IN  sum[W]

\* The highest bit that is set reaches all the bits below it.
bang(x) ==
    LET f[n \in {1} \cup {2 ^ k : k \in 1 .. W}] ==
            IF n = W THEN x ELSE Shr(f[2 * n], n) | f[2 * n]
    IN  Compl(f[1]) & 1

tmin == Shl(1, W - 1)

fitsBits(x, n) ==
    LET c == Word(W + 1 + Compl(n)) IN Nought(x ^^ Shr(Shl(x, c), c))

divpwr2(x, n) ==
    LET bias == Shr(x, W - 1) & Plus(Shl(1, n), Ones) IN Shr(Plus(x, bias), n)

negate(x) == Plus(Compl(x), 1)

isPositive(x) == Nought(Nought(x)) & Nought(Shr(x, W - 1) & 1)

isLessOrEqual(x, y) ==
    LET val == Nought(Nought(Shr(Plus(x, Compl(y)), W - 1)))
        sx  == Shr(x, W - 1)
        sy  == Shr(y, W - 1)
    IN  (Nought(Nought(sx)) | Nought(sy)) & ((Nought(Nought(sx)) & Nought(sy)) | val)

\* A binary search for the highest bit.
ilog2(x) ==
    LET ans[n \in {1} \cup {2 ^ k : k \in 1 .. W}] ==
            IF n = W THEN 0
            ELSE ans[2 * n] + n * (Nought(Nought(Shr(x, n + ans[2 * n]))))
    IN  ans[1]

Sign(uf) == uf & tmin
Exp(uf) == (uf \div 2 ^ F) % 2 ^ X
Frac(uf) == uf % 2 ^ F
Infinite == 2 ^ X - 1

float_neg(uf) ==
    IF (Shl(uf, 1) ^^ Ones) < 2 ^ (F + 1) - 1 THEN uf ELSE uf ^^ tmin

\* Fault: a tie is rounded up.
Rounded_TiesUp(x, n) ==
    LET half == 2 ^ (n - F - 1)
    IN  x \div 2 ^ (n - F) + Bool(x % (2 * half) >= half)

\* The fraction below the highest bit n, rounded to F bits, a tie to even.
Rounded(x, n) ==
    LET kept == x \div 2 ^ (n - F)
        half == 2 ^ (n - F - 1)
        lost == x % (2 * half)
    IN  IF lost < half THEN kept
        ELSE IF lost = half THEN kept + (kept % 2) ELSE kept + 1

float_i2f(x) ==
    LET abs == IF Negative(x) THEN negate(x) ELSE x
        n   == Max({i \in 0 .. W - 1 : 2 ^ i <= abs})
        low == abs - 2 ^ n
        f   == IF n < F + 1 THEN low * 2 ^ (F - n) ELSE Rounded(low, n)
        \* A fraction that rounds to 1 goes to the exponent.
        e   == 2 ^ (X - 1) - 1 + n + Bool(f = 2 ^ F)
    IN  IF x = tmin THEN tmin | (2 ^ (X - 1) + W - 2) * 2 ^ F
        ELSE IF x = 0 THEN 0
        ELSE Sign(x) | (e * 2 ^ F) | (f % 2 ^ F)

float_twice(uf) ==
    IF Exp(uf) = 0 THEN Shl(uf % tmin, 1) | Sign(uf)
    ELSE IF Exp(uf) = Infinite THEN uf
    ELSE IF Exp(uf) + 1 = Infinite THEN Sign(uf) | (Infinite * 2 ^ F)
    ELSE Sign(uf) | ((Exp(uf) + 1) * 2 ^ F) | Frac(uf)

----------------------------------------------------------------------------
(* Properties                                                              *)

Quotient(i, n) == IF i < 0 THEN -((-i) \div 2 ^ n) ELSE i \div 2 ^ n

\* The value of a finite float, in units of the least one.
Value(uf) ==
    (IF Sign(uf) # 0 THEN -1 ELSE 1)
        * (IF Exp(uf) = 0 THEN Frac(uf) ELSE (2 ^ F + Frac(uf)) * 2 ^ (Exp(uf) - 1))
One == 2 ^ (2 ^ (X - 1) - 2 + F)
Finite(uf) == Exp(uf) # Infinite
Distance(uf, i) == IF Value(uf) > i * One THEN Value(uf) - i * One
                                          ELSE i * One - Value(uf)

IntegersRight(x) ==
    /\ bitCount(x) = Cardinality({i \in 0 .. W - 1 : (x \div 2 ^ i) % 2 = 1})
    /\ bang(x) = Bool(x = 0) /\ Signed(tmin) = -(2 ^ (W - 1))
    /\ negate(x) = Word(-Signed(x))
    /\ isPositive(x) = Bool(Signed(x) > 0)
    /\ Signed(x) > 0 => 2 ^ ilog2(x) <= x /\ x < 2 * 2 ^ ilog2(x)
    /\ \A y \in Words : /\ bitAnd(x, y) = x & y
                        /\ isLessOrEqual(x, y) = Bool(Signed(x) <= Signed(y))
    /\ \A n \in 0 .. 3 : getByte(x, n) = (x \div 2 ^ (n * (W \div 4))) % 2 ^ (W \div 4)
    /\ \A n \in 0 .. W - 1 : logicalShift(x, n) = x \div 2 ^ n
    /\ \A n \in 0 .. W - 2 : Signed(divpwr2(x, n)) = Quotient(Signed(x), n)
    /\ \A n \in 1 .. W :
        fitsBits(x, n) = Bool(-(2 ^ (n - 1)) <= Signed(x) /\ Signed(x) < 2 ^ (n - 1))

FloatsRight(x) ==
    LET neg == float_neg(x) twice == float_twice(x) near == float_i2f(x)
    IN  /\ Finite(x) => Finite(neg) /\ Value(neg) = -Value(x) /\ (neg # x)
        /\ ~Finite(x) /\ Frac(x) # 0 => neg = x /\ twice = x
        /\ ~Finite(x) /\ Frac(x) = 0 => neg = (x ^^ tmin) /\ twice = x
        /\ Finite(x) => IF Finite(twice) THEN Value(twice) = 2 * Value(x)
                        ELSE Exp(x) = Infinite - 1 /\ Frac(twice) = 0
        /\ Finite(near)
        /\ \A uf \in {u \in Words : Finite(u)} :
            \/ Distance(near, Signed(x)) < Distance(uf, Signed(x))
            \/ /\ Distance(near, Signed(x)) = Distance(uf, Signed(x))
               /\ uf = near \/ near % 2 = 0

\* Every puzzle computes what its comment asks for, at every word: at the
\* least and the greatest number, where a difference overflows, where a
\* quotient is negative, and for NaN, infinities, denormal numbers and ties.
PuzzlesRight == IntegersRight(word) /\ FloatsRight(word)

=============================================================================
