------------------------------ MODULE Pmm_proofs ------------------------------
(***************************************************************************)
(* The free list of the page manager stays sound, and the manager is a     *)
(* PagePool, for any memory and any memory map.                            *)
(***************************************************************************)
EXTENDS Pmm, FiniteSetTheorems, SequenceTheorems, WellFoundedInduction, TLAPS

\* The list is in address order.
Increasing(list) == \A i, j \in 1 .. Len(list) : i < j => list[i] < list[j]

\* The pages of the blocks with these heads.
PagesOf(heads, size) == UNION {Run(p, size[p]) : p \in heads}

\* Blocks lie in the memory; they neither overlap nor touch.
BlocksFit(heads, size) ==
    \A p \in heads : size[p] >= 1 /\ p + size[p] <= NPages

Apart(heads, size) ==
    \A p, q \in heads : p < q => p + size[p] < q

\* What the manager keeps.
Managers ==
    [list : Seq(Pages), nr_free : Int, flags : SUBSET Pages, property : [Pages -> Nat],
     page : Int]

Sound(m) ==
    /\ Increasing(m.list)
    /\ BlocksFit(ToSet(m.list), m.property)
    /\ Apart(ToSet(m.list), m.property)
    /\ m.flags = ToSet(m.list)

FreeIn(m) == PagesOf(ToSet(m.list), m.property)

TypeOK ==
    /\ memmap \in MemMaps
    /\ Manager \in Managers
    /\ used \subseteq Pages
    /\ answer \in [n : Nat, page : Int]

Inv ==
    /\ TypeOK
    /\ Sound(Manager)
    /\ NoPageLost

----------------------------------------------------------------------------
(* Sequences and induction.                                                *)

LEMMA LeastNat ==
    ASSUME NEW S \in SUBSET Nat, S # {}
    PROVE  \E n \in S : \A m \in S : n <= m
  <1> DEFINE R == {ss \in Nat \X Nat : ss[1] < ss[2]}
  <1>1. IsWellFoundedOn(R, Nat)
    BY NatLessThanWellFounded DEF OpToRel
  <1> HIDE DEF R
  <1>2. PICK n \in S : \A m \in S : <<m, n>> \notin R
    BY <1>1, WFMin
  <1>3. \A m \in S : ~(m < n)
    BY <1>2 DEF R
  <1> QED  BY <1>3

\* Induction, as a fact about sets.
LEMMA SetInduction ==
    ASSUME NEW S, 0 \in S, \A n \in Nat : n \in S => n + 1 \in S
    PROVE  \A n \in Nat : n \in S
  <1> DEFINE T == {n \in Nat : n \notin S}
  <1>1. SUFFICES ASSUME T # {} PROVE FALSE
    OBVIOUS
  <1>2. PICK n \in T : \A m \in T : n <= m
    BY <1>1, LeastNat
  <1>3. n - 1 \in Nat /\ n - 1 \notin T
    BY <1>2
  <1> QED  BY <1>2, <1>3

LEMMA MemorySize == NPages \in Nat /\ Pages = 0 .. NPages - 1
  BY PagesAssumption DEF NPages, Pages

LEMMA RemoveAtLemma ==
    ASSUME NEW S, NEW s \in Seq(S), NEW k \in 1 .. Len(s)
    PROVE  /\ RemoveAt(s, k) \in Seq(S)
           /\ Len(RemoveAt(s, k)) = Len(s) - 1
           /\ \A i \in 1 .. Len(s) - 1 :
                RemoveAt(s, k)[i] = IF i < k THEN s[i] ELSE s[i + 1]
  <1> DEFINE a == SubSeq(s, 1, k - 1)
             b == SubSeq(s, k + 1, Len(s))
  <1>1. Len(s) \in Nat /\ \A i \in 1 .. Len(s) : s[i] \in S
    BY LenProperties, ElementOfSeq
  <1>2. /\ a \in Seq(S) /\ Len(a) = k - 1
        /\ \A i \in 1 .. k - 1 : a[i] = s[i]
    BY <1>1, SubSeqProperties
  <1>3. /\ b \in Seq(S) /\ Len(b) = Len(s) - k
        /\ \A i \in 1 .. Len(s) - k : b[i] = s[k + i]
    BY <1>1, SubSeqProperties
  <1>4. RemoveAt(s, k) = a \o b
    BY DEF RemoveAt
  <1> HIDE DEF a, b
  <1>5. /\ a \o b \in Seq(S) /\ Len(a \o b) = Len(s) - 1
        /\ \A i \in 1 .. Len(s) - 1 : (a \o b)[i] = IF i <= k - 1 THEN a[i] ELSE b[i - (k - 1)]
    BY <1>1, <1>2, <1>3, ConcatProperties
  <1>6. ASSUME NEW i \in 1 .. Len(s) - 1
        PROVE  (a \o b)[i] = IF i < k THEN s[i] ELSE s[i + 1]
    <2>1. CASE i < k
      BY <1>1, <1>2, <1>5, <2>1
    <2>2. CASE ~(i < k)
      <3>1. (a \o b)[i] = b[i - (k - 1)] /\ i - (k - 1) \in 1 .. Len(s) - k
        BY <1>1, <1>5, <2>2
      <3> QED  BY <1>1, <1>3, <2>2, <3>1
    <2> QED  BY <2>1, <2>2
  <1> QED  BY <1>4, <1>5, <1>6

LEMMA InsertAtLemma ==
    ASSUME NEW S, NEW s \in Seq(S), NEW k \in 1 .. Len(s) + 1, NEW e \in S
    PROVE  /\ InsertAt(s, k, e) \in Seq(S)
           /\ Len(InsertAt(s, k, e)) = Len(s) + 1
           /\ \A i \in 1 .. Len(s) + 1 :
                InsertAt(s, k, e)[i] =
                    IF i < k THEN s[i] ELSE IF i = k THEN e ELSE s[i - 1]
  <1> DEFINE a == SubSeq(s, 1, k - 1)
             c == a \o <<e>>
             b == SubSeq(s, k, Len(s))
  <1>1. Len(s) \in Nat /\ \A i \in 1 .. Len(s) : s[i] \in S
    BY LenProperties, ElementOfSeq
  <1>2. /\ a \in Seq(S) /\ Len(a) = k - 1
        /\ \A i \in 1 .. k - 1 : a[i] = s[i]
    BY <1>1, SubSeqProperties
  <1>3. /\ b \in Seq(S) /\ Len(b) = Len(s) - k + 1
        /\ \A i \in 1 .. Len(s) - k + 1 : b[i] = s[k + i - 1]
    BY <1>1, SubSeqProperties
  <1>4. InsertAt(s, k, e) = c \o b
    BY DEF InsertAt
  <1> HIDE DEF a, b
  <1>5. /\ c \in Seq(S) /\ Len(c) = k
        /\ \A i \in 1 .. k : c[i] = IF i < k THEN a[i] ELSE e
    BY <1>1, <1>2
  <1> HIDE DEF c
  <1>6. /\ c \o b \in Seq(S) /\ Len(c \o b) = Len(s) + 1
        /\ \A i \in 1 .. Len(s) + 1 : (c \o b)[i] = IF i <= k THEN c[i] ELSE b[i - k]
    BY <1>1, <1>3, <1>5, ConcatProperties
  <1>7. ASSUME NEW i \in 1 .. Len(s) + 1
        PROVE  (c \o b)[i] = IF i < k THEN s[i] ELSE IF i = k THEN e ELSE s[i - 1]
    <2>1. CASE i <= k
      BY <1>1, <1>2, <1>5, <1>6, <2>1
    <2>2. CASE ~(i <= k)
      <3>1. (c \o b)[i] = b[i - k] /\ i - k \in 1 .. Len(s) - k + 1
        BY <1>1, <1>6, <2>2
      <3> QED  BY <1>1, <1>3, <2>2, <3>1
    <2> QED  BY <2>1, <2>2
  <1> QED  BY <1>4, <1>6, <1>7

\* The entries of a list as a set.
LEMMA Entries ==
    ASSUME NEW S, NEW s \in Seq(S)
    PROVE  /\ Len(s) \in Nat
           /\ DOMAIN s = 1 .. Len(s)
           /\ \A i \in 1 .. Len(s) : s[i] \in S
           /\ ToSet(s) = {s[i] : i \in 1 .. Len(s)}
           /\ ToSet(s) \subseteq S
  BY LenProperties, ElementOfSeq DEF ToSet

\* An entry goes: the others stay, in their order.
LEMMA Removed ==
    ASSUME NEW list \in Seq(Pages), Increasing(list), NEW k \in 1 .. Len(list)
    PROVE  /\ RemoveAt(list, k) \in Seq(Pages)
           /\ Increasing(RemoveAt(list, k))
           /\ ToSet(RemoveAt(list, k)) = ToSet(list) \ {list[k]}
  <1> DEFINE new == RemoveAt(list, k)
             n == Len(list)
  <1>1. /\ new \in Seq(Pages) /\ Len(new) = n - 1 /\ n \in Nat
        /\ \A i \in 1 .. n - 1 : new[i] = IF i < k THEN list[i] ELSE list[i + 1]
    BY RemoveAtLemma, LenProperties
  <1>2. \A i \in 1 .. n : list[i] \in Pages
    BY Entries
  <1>3. ToSet(new) = {new[i] : i \in 1 .. n - 1} /\ ToSet(list) = {list[i] : i \in 1 .. n}
    BY <1>1, Entries
  <1> HIDE DEF new
  <1>4. Increasing(new)
    BY <1>1 DEF Increasing
  <1>5. \A i \in 1 .. n : i # k => list[i] # list[k]
    BY <1>1, <1>2 DEF Increasing, Pages
  <1>6. ToSet(new) \subseteq ToSet(list) \ {list[k]}
    BY <1>1, <1>3, <1>5
  <1>7. ASSUME NEW i \in 1 .. n, i # k PROVE list[i] \in ToSet(new)
    <2>1. CASE i < k
      BY <1>1, <1>3, <2>1
    <2>2. CASE i > k
      <3>1. i - 1 \in 1 .. n - 1 /\ new[i - 1] = list[i]
        BY <1>1, <2>2
      <3> QED  BY <1>3, <3>1
    <2> QED  BY <1>7, <2>1, <2>2
  <1> QED  BY <1>1, <1>3, <1>4, <1>6, <1>7 DEF new

LEMMA Unlinked ==
    ASSUME NEW list \in Seq(Pages), Increasing(list), NEW p \in ToSet(list)
    PROVE  /\ Unlink(list, p) \in Seq(Pages)
           /\ Increasing(Unlink(list, p))
           /\ ToSet(Unlink(list, p)) = ToSet(list) \ {p}
  <1> DEFINE k == CHOOSE i \in DOMAIN list : list[i] = p
  <1>1. k \in 1 .. Len(list) /\ list[k] = p
    BY Entries
  <1>2. Unlink(list, p) = RemoveAt(list, k)
    BY DEF Unlink
  <1> HIDE DEF k
  <1> QED  BY <1>1, <1>2, Removed

LEMMA Inserted ==
    ASSUME NEW list \in Seq(Pages), Increasing(list), NEW k \in 1 .. Len(list) + 1,
           NEW base \in Pages,
           \A i \in 1 .. Len(list) : IF i < k THEN list[i] < base ELSE base < list[i]
    PROVE  /\ InsertAt(list, k, base) \in Seq(Pages)
           /\ Increasing(InsertAt(list, k, base))
           /\ ToSet(InsertAt(list, k, base)) = ToSet(list) \cup {base}
  <1> DEFINE new == InsertAt(list, k, base)
             n == Len(list)
  <1>1. /\ new \in Seq(Pages) /\ Len(new) = n + 1 /\ n \in Nat
        /\ \A i \in 1 .. n + 1 :
            new[i] = IF i < k THEN list[i] ELSE IF i = k THEN base ELSE list[i - 1]
    BY InsertAtLemma, LenProperties
  <1>2. ToSet(new) = {new[i] : i \in 1 .. n + 1} /\ ToSet(list) = {list[i] : i \in 1 .. n}
    BY <1>1, Entries
  <1>3. \A i \in 1 .. n : list[i] \in Int
    BY <1>1, MemorySize, ElementOfSeq
  <1> HIDE DEF new
  <1>4. Increasing(new)
    <2> SUFFICES ASSUME NEW i \in 1 .. n + 1, NEW j \in 1 .. n + 1, i < j
                 PROVE  new[i] < new[j]
      BY <1>1 DEF Increasing
    <2>1. CASE j < k
      <3>1. new[i] = list[i] /\ new[j] = list[j]
        BY <1>1, <2>1
      <3> QED  BY <1>1, <2>1, <3>1 DEF Increasing
    <2>5. CASE i > k
      <3>1. new[i] = list[i - 1] /\ new[j] = list[j - 1]
        BY <1>1, <2>5
      <3>2. i - 1 \in 1 .. n /\ j - 1 \in 1 .. n /\ i - 1 < j - 1
        BY <1>1, <2>5
      <3> QED  BY <3>1, <3>2 DEF Increasing
    <2>2. CASE i = k
      BY <1>1, <2>2
    <2>3. CASE j = k
      BY <1>1, <2>3
    <2>4. CASE i < k /\ k < j
      <3>1. new[i] = list[i] /\ new[j] = list[j - 1]
        BY <1>1, <2>4
      <3>2. i \in 1 .. n /\ j - 1 \in 1 .. n /\ i < k /\ ~(j - 1 < k)
        BY <1>1, <2>4
      <3>3. list[i] < base /\ base < list[j - 1]
        BY <3>2
      <3> QED  BY <1>3, <3>1, <3>2, <3>3, MemorySize
    <2> QED  BY <1>1, <2>1, <2>2, <2>3, <2>4, <2>5
  <1>5. ASSUME NEW i \in 1 .. n + 1
        PROVE  new[i] \in ToSet(list) \cup {base}
    <2>1. CASE i < k
      BY <1>1, <1>2, <2>1
    <2>2. CASE i > k
      <3>1. i - 1 \in 1 .. n /\ new[i] = list[i - 1]
        BY <1>1, <2>2
      <3> QED  BY <1>2, <3>1
    <2> QED  BY <1>1, <2>1, <2>2
  <1>6. ASSUME NEW i \in 1 .. n PROVE list[i] \in ToSet(new)
    <2>1. CASE i < k
      BY <1>1, <1>2, <2>1
    <2>2. CASE ~(i < k)
      <3>1. i + 1 \in 1 .. n + 1 /\ new[i + 1] = list[i]
        BY <1>1, <2>2
      <3> QED  BY <1>2, <3>1
    <2> QED  BY <2>1, <2>2
  <1>7. base \in ToSet(new)
    BY <1>1, <1>2
  <1> QED  BY <1>1, <1>2, <1>4, <1>5, <1>6, <1>7 DEF new

----------------------------------------------------------------------------
(* Runs of pages, and blocks.                                              *)

LEMMA RunSize ==
    ASSUME NEW base \in Int, NEW n \in Nat
    PROVE  /\ IsFiniteSet(Run(base, n))
           /\ Cardinality(Run(base, n)) = n
  <1>1. base + n - 1 \in Int
    OBVIOUS
  <1>2. /\ IsFiniteSet(base .. base + n - 1)
        /\ Cardinality(base .. base + n - 1)
            = IF base > base + n - 1 THEN 0 ELSE base + n - 1 - base + 1
    BY <1>1, FS_Interval
  <1> QED  BY <1>2 DEF Run

\* The blocks that begin below a run of free pages and where it begins are the
\* same: a free run of pages is in one block.
LEMMA RunInBlock ==
    ASSUME NEW heads \in SUBSET Pages, NEW size \in [Pages -> Nat],
           BlocksFit(heads, size), Apart(heads, size),
           NEW base \in Int, NEW n \in Nat \ {0},
           Run(base, n) \subseteq PagesOf(heads, size)
    PROVE  \E p \in heads : p <= base /\ base + n <= p + size[p]
  <1>1. base \in PagesOf(heads, size)
    BY DEF Run
  <1>2. PICK p \in heads : p <= base /\ base < p + size[p]
    BY <1>1, MemorySize DEF PagesOf, Run
  <1>3. ASSUME base + n > p + size[p] PROVE FALSE
    <2>1. p + size[p] \in PagesOf(heads, size)
      BY <1>2, <1>3, MemorySize DEF Run
    <2>2. PICK q \in heads : q <= p + size[p] /\ p + size[p] < q + size[q]
      BY <1>2, <2>1, MemorySize DEF PagesOf, Run
    <2>3. p \in Int /\ q \in Int /\ size[p] \in Nat /\ size[q] \in Nat /\ size[p] >= 1
      BY MemorySize DEF BlocksFit
    <2>4. CASE p < q
      BY <2>2, <2>3, <2>4 DEF Apart
    <2>5. CASE q < p
      BY <2>2, <2>3, <2>5 DEF Apart
    <2> QED  BY <2>2, <2>3, <2>4, <2>5
  <1>4. p + size[p] \in Int
    BY <1>2, MemorySize
  <1> QED  BY <1>2, <1>3, <1>4

\* A whole block is handed out.
LEMMA BlockTaken ==
    ASSUME NEW heads \in SUBSET Pages, NEW size \in [Pages -> Nat],
           BlocksFit(heads, size), Apart(heads, size), NEW page \in heads
    PROVE  /\ BlocksFit(heads \ {page}, size)
           /\ Apart(heads \ {page}, size)
           /\ PagesOf(heads \ {page}, size) = PagesOf(heads, size) \ Run(page, size[page])
  <1>1. BlocksFit(heads \ {page}, size) /\ Apart(heads \ {page}, size)
    BY DEF BlocksFit, Apart
  <1>2. ASSUME NEW q \in heads, q # page, NEW x \in Run(q, size[q])
        PROVE  x \notin Run(page, size[page])
    <2>1. q \in Int /\ page \in Int /\ size[q] \in Nat /\ size[page] \in Nat
      BY MemorySize
    <2>2. q + size[q] < page \/ page + size[page] < q
      BY <1>2, <2>1 DEF Apart
    <2> QED  BY <1>2, <2>1, <2>2 DEF Run
  <1> QED  BY <1>1, <1>2 DEF PagesOf

\* The front of the block at page becomes n pages shorter: rest is the block
\* that remains, H and P the heads and the sizes there are then.
Cut(heads, size, page, n, rest, H, P) ==
    /\ heads \in SUBSET Pages /\ size \in [Pages -> Nat]
    /\ BlocksFit(heads, size) /\ Apart(heads, size)
    /\ page \in heads /\ n \in Nat \ {0} /\ n < size[page]
    /\ rest = page + n
    /\ H = (heads \ {page}) \cup {rest}
    /\ P = [size EXCEPT ![rest] = size[page] - n]

LEMMA BlockCut ==
    ASSUME NEW heads, NEW size, NEW page, NEW n, NEW rest, NEW H, NEW P,
           Cut(heads, size, page, n, rest, H, P)
    PROVE  /\ rest \in Pages /\ rest \notin heads
           /\ \A q \in heads : (q < page => q < rest) /\ (page < q => rest < q)
           /\ P \in [Pages -> Nat]
           /\ BlocksFit(H, P)
           /\ Apart(H, P)
           /\ PagesOf(H, P) = PagesOf(heads, size) \ Run(page, n)
  <1> heads \in SUBSET Pages /\ size \in [Pages -> Nat] /\ page \in heads /\ n \in Nat \ {0}
    BY DEF Cut
  <1>0. /\ BlocksFit(heads, size) /\ Apart(heads, size)
        /\ n < size[page] /\ rest = page + n
        /\ H = (heads \ {page}) \cup {rest}
        /\ P = [size EXCEPT ![rest] = size[page] - n]
    BY DEF Cut
  <1>1. \A q \in heads : q \in Int /\ size[q] \in Nat /\ size[q] >= 1 /\ q + size[q] <= NPages
    BY <1>0, MemorySize DEF BlocksFit
  <1>2. rest \in Pages /\ page < rest /\ rest < page + size[page]
    BY <1>0, <1>1, MemorySize
  <1>3. \A q \in heads : /\ q < page => q + size[q] < page
                         /\ page < q => page + size[page] < q
    BY <1>0 DEF Apart
  <1>4. \A q \in heads : (q < page => q < rest) /\ (page < q => rest < q)
    <2> SUFFICES ASSUME NEW q \in heads
                 PROVE  (q < page => q < rest) /\ (page < q => rest < q)
      OBVIOUS
    <2>1. q \in Int /\ page \in Int /\ rest \in Int /\ size[page] \in Nat
      BY <1>1, <1>2, MemorySize
    <2> QED  BY <1>2, <1>3, <2>1
  <1>5. rest \notin heads
    BY <1>1, <1>2, <1>4
  <1>6. /\ P \in [Pages -> Nat] /\ P[rest] = size[page] - n
        /\ \A q \in heads : P[q] = size[q]
    BY <1>0, <1>1, <1>2, <1>5
  <1>7. BlocksFit(H, P)
    BY <1>0, <1>1, <1>2, <1>6 DEF BlocksFit
  <1>8. Apart(H, P)
    <2> SUFFICES ASSUME NEW p \in H, NEW q \in H, p < q PROVE p + P[p] < q
      BY DEF Apart
    <2>1. CASE p \in heads /\ q \in heads
      BY <1>0, <1>6, <2>1 DEF Apart
    <2>2. CASE p = rest /\ q \in heads /\ q # page
      <3>1. page < q
        BY <1>0, <1>1, <1>2, <1>3, <2>2
      <3> QED  BY <1>0, <1>1, <1>3, <1>6, <2>2, <3>1
    <2>3. CASE p \in heads /\ p # page /\ q = rest
      <3>1. p < page
        BY <1>0, <1>1, <1>2, <1>3, <2>3
      <3> QED  BY <1>0, <1>1, <1>2, <1>3, <1>6, <2>3, <3>1
    <2> QED  BY <1>0, <1>1, <1>2, <2>1, <2>2, <2>3
  <1>9. PagesOf(H, P) = PagesOf(heads, size) \ Run(page, n)
    <2>1. ASSUME NEW q \in heads, q # page
          PROVE  Run(q, P[q]) = Run(q, size[q]) /\ Run(q, size[q]) \cap Run(page, n) = {}
      <3>1. q + size[q] < page \/ page + size[page] < q
        BY <1>1, <1>3, <2>1
      <3> QED  BY <1>1, <1>2, <1>6, <3>1 DEF Run
    <2>2. Run(rest, P[rest]) = Run(page, size[page]) \ Run(page, n)
      BY <1>0, <1>1, <1>2, <1>6 DEF Run
    <2>3. ASSUME NEW x \in PagesOf(H, P) PROVE x \in PagesOf(heads, size) \ Run(page, n)
      <3>1. PICK q \in H : x \in Run(q, P[q])
        BY <2>3 DEF PagesOf
      <3>2. CASE q = rest
        BY <2>2, <3>1, <3>2 DEF PagesOf
      <3>3. CASE q \in heads /\ q # page
        BY <2>1, <3>1, <3>3 DEF PagesOf
      <3> QED  BY <1>0, <3>2, <3>3
    <2>4. ASSUME NEW x \in PagesOf(heads, size), x \notin Run(page, n)
          PROVE  x \in PagesOf(H, P)
      <3>1. PICK q \in heads : x \in Run(q, size[q])
        BY <2>4 DEF PagesOf
      <3>2. CASE q = page
        BY <1>0, <2>2, <2>4, <3>1, <3>2 DEF PagesOf
      <3>3. CASE q # page
        BY <1>0, <2>1, <3>1, <3>3 DEF PagesOf
      <3> QED  BY <3>2, <3>3
    <2> QED  BY <2>3, <2>4
  <1> QED  BY <1>2, <1>4, <1>5, <1>6, <1>7, <1>8, <1>9

----------------------------------------------------------------------------
(* default_alloc_pages.                                                    *)

\* What the search finds, and what it means that it finds nothing.
LEMMA Search ==
    ASSUME NEW m \in Managers, NEW n \in Nat, ~NoBlock(m, n)
    PROVE  /\ FirstFit(m, n) \in 1 .. Len(m.list)
           /\ m.property[m.list[FirstFit(m, n)]] >= n
  <1> DEFINE S == {i \in 1 .. Len(m.list) : Fits(m, m.list[i], n)}
  <1>1. DOMAIN m.list = 1 .. Len(m.list) /\ Len(m.list) \in Nat
    BY LenProperties DEF Managers
  <1>2. S \in SUBSET Nat /\ S # {}
    BY <1>1 DEF NoBlock
  <1>3. PICK i \in S : \A j \in S : i <= j
    BY <1>2, LeastNat
  <1>4. \A j \in 1 .. i - 1 : ~Fits(m, m.list[j], n)
    BY <1>1, <1>3
  <1>5. /\ FirstFit(m, n) \in DOMAIN m.list
        /\ Fits(m, m.list[FirstFit(m, n)], n)
    BY <1>1, <1>3, <1>4 DEF FirstFit
  <1> QED  BY <1>1, <1>5 DEF Fits

LEMMA FieldsOf ==
    ASSUME NEW m \in Managers
    PROVE  /\ m.list \in Seq(Pages) /\ m.nr_free \in Int /\ m.flags \in SUBSET Pages
           /\ m.property \in [Pages -> Nat] /\ m.page \in Int
           /\ ToSet(m.list) \in SUBSET Pages
           /\ Len(m.list) \in Nat /\ DOMAIN m.list = 1 .. Len(m.list)
           /\ \A i \in 1 .. Len(m.list) : m.list[i] \in ToSet(m.list)
           /\ \A p \in ToSet(m.list) : \E i \in 1 .. Len(m.list) : m.list[i] = p
  <1>1. m.list \in Seq(Pages)
    BY DEF Managers
  <1>2. /\ ToSet(m.list) = {m.list[i] : i \in 1 .. Len(m.list)}
        /\ ToSet(m.list) \subseteq Pages
        /\ Len(m.list) \in Nat /\ DOMAIN m.list = 1 .. Len(m.list)
    BY <1>1, Entries
  <1> QED  BY <1>1, <1>2 DEF Managers

\* An entry of the list gives way to a page that is in its block.
LEMMA Replaced ==
    ASSUME NEW list \in Seq(Pages), Increasing(list), NEW k \in 1 .. Len(list),
           NEW rest \in Pages,
           \A q \in ToSet(list) : (q < list[k] => q < rest) /\ (list[k] < q => rest < q)
    PROVE  /\ [list EXCEPT ![k] = rest] \in Seq(Pages)
           /\ Increasing([list EXCEPT ![k] = rest])
           /\ ToSet([list EXCEPT ![k] = rest]) = (ToSet(list) \ {list[k]}) \cup {rest}
  <1> DEFINE new == [list EXCEPT ![k] = rest]
             n == Len(list)
  <1>1. /\ new \in Seq(Pages) /\ Len(new) = n /\ n \in Nat
        /\ \A i \in 1 .. n : new[i] = IF i = k THEN rest ELSE list[i]
    BY ExceptSeq, LenProperties
  <1>2. /\ ToSet(new) = {new[i] : i \in 1 .. n} /\ ToSet(list) = {list[i] : i \in 1 .. n}
    BY <1>1, Entries
  <1>3. \A i \in 1 .. n : list[i] \in Int
    BY MemorySize, ElementOfSeq
  <1> HIDE DEF new
  <1>4. Increasing(new)
    <2> SUFFICES ASSUME NEW i \in 1 .. n, NEW j \in 1 .. n, i < j
                 PROVE  new[i] < new[j]
      BY <1>1 DEF Increasing
    <2>1. list[i] < list[j] /\ list[i] \in ToSet(list) /\ list[j] \in ToSet(list)
      BY <1>2 DEF Increasing
    <2> QED  BY <1>1, <2>1
  <1>5. \A i \in 1 .. n : i # k => list[i] # list[k]
    BY <1>1, <1>3 DEF Increasing
  <1>6. ASSUME NEW x \in ToSet(new) PROVE x \in (ToSet(list) \ {list[k]}) \cup {rest}
    <2>1. PICK i \in 1 .. n : x = new[i]
      BY <1>2
    <2> QED  BY <1>1, <1>2, <1>5, <2>1
  <1>7. ASSUME NEW x \in ToSet(list), x # list[k] PROVE x \in ToSet(new)
    <2>1. PICK i \in 1 .. n : x = list[i]
      BY <1>2
    <2>2. new[i] = x
      BY <1>1, <1>7, <2>1
    <2> QED  BY <1>2, <2>2
  <1>8. rest \in ToSet(new)
    <2>1. new[k] = rest
      BY <1>1
    <2> QED  BY <1>2, <2>1
  <1> QED  BY <1>1, <1>4, <1>6, <1>7, <1>8 DEF new

LEMMA TakenSound ==
    ASSUME NEW m \in Managers, Sound(m), NEW n \in Nat \ {0},
           NEW i \in 1 .. Len(m.list), m.property[m.list[i]] >= n
    PROVE  LET r == TakeFrom(m, i, n)
           IN  /\ r \in Managers /\ Sound(r)
               /\ r.page \in Pages /\ r.page = m.list[i] /\ r.nr_free = m.nr_free - n
               /\ Run(r.page, n) \subseteq FreeIn(m)
               /\ FreeIn(r) = FreeIn(m) \ Run(r.page, n)
  <1> DEFINE page == m.list[i]
             size == m.property
             heads == ToSet(m.list)
             rest == page + n
             r == TakeFrom(m, i, n)
  <1>1. /\ m.list \in Seq(Pages) /\ m.nr_free \in Int /\ m.flags = heads
        /\ size \in [Pages -> Nat] /\ heads \in SUBSET Pages /\ page \in heads
        /\ Increasing(m.list) /\ BlocksFit(heads, size) /\ Apart(heads, size)
    BY FieldsOf DEF Sound
  <1>2. page \in Pages /\ page \in Int /\ size[page] \in Nat /\ size[page] >= n
    BY <1>1, MemorySize
  <1> HIDE DEF page, size, heads
  <1>3. Run(page, n) \subseteq FreeIn(m)
    <2>1. Run(page, n) \subseteq Run(page, size[page])
      BY <1>2 DEF Run
    <2> QED  BY <1>1, <2>1 DEF FreeIn, PagesOf, size, heads
  <1>4. CASE size[page] > n
    <2> DEFINE P == [size EXCEPT ![rest] = size[page] - n]
               H == (heads \ {page}) \cup {rest}
               L == [m.list EXCEPT ![i] = rest]
    <2>1. /\ rest \in Pages /\ rest \notin heads
          /\ \A q \in heads : (q < page => q < rest) /\ (page < q => rest < q)
          /\ P \in [Pages -> Nat] /\ BlocksFit(H, P) /\ Apart(H, P)
          /\ PagesOf(H, P) = PagesOf(heads, size) \ Run(page, n)
      <3>1. Cut(heads, size, page, n, rest, H, P)
        BY <1>1, <1>2, <1>4 DEF Cut
      <3> HIDE DEF rest, H, P
      <3> QED  BY <3>1, BlockCut
    <2>2. L \in Seq(Pages) /\ Increasing(L) /\ ToSet(L) = H
      <3> HIDE DEF rest
      <3>1. \A q \in ToSet(m.list) : (q < m.list[i] => q < rest) /\ (m.list[i] < q => rest < q)
        BY <2>1 DEF heads, page
      <3>2. L \in Seq(Pages) /\ Increasing(L) /\ ToSet(L) = (ToSet(m.list) \ {m.list[i]}) \cup {rest}
        BY <1>1, <2>1, <3>1, Replaced
      <3> QED  BY <3>2 DEF heads, page, H
    <2>3. r = [list |-> L, property |-> P, flags |-> H, nr_free |-> m.nr_free - n, page |-> page]
      BY <1>1, <1>4 DEF TakeFrom, size, page, heads
    <2> HIDE DEF P, H, L
    <2>4. r \in Managers
      <3>1. H \in SUBSET Pages
        BY <1>1, <2>1 DEF H
      <3>2. /\ L \in Seq(Pages) /\ P \in [Pages -> Nat] /\ page \in Int
        BY <1>2, <2>1, <2>2
      <3>3. m.nr_free - n \in Int
        BY <1>1
      <3> HIDE DEF r
      <3> QED  BY <2>3, <3>1, <3>2, <3>3 DEF Managers
    <2>5. r.list = L /\ r.property = P /\ r.flags = H /\ r.nr_free = m.nr_free - n /\ r.page = page
      BY <2>3
    <2>6. Sound(r) /\ FreeIn(r) = FreeIn(m) \ Run(page, n)
      BY <2>1, <2>2, <2>5 DEF Sound, FreeIn, size, heads
    <2> QED  BY <1>2, <1>3, <2>4, <2>5, <2>6 DEF page
  <1>5. CASE size[page] = n
    <2> DEFINE H == heads \ {page}
               L == RemoveAt(m.list, i)
    <2>1. /\ BlocksFit(H, size) /\ Apart(H, size)
          /\ PagesOf(H, size) = PagesOf(heads, size) \ Run(page, n)
      BY <1>1, <1>5, BlockTaken
    <2>2. L \in Seq(Pages) /\ Increasing(L) /\ ToSet(L) = H
      BY <1>1, Removed DEF page, heads
    <2>3. r = [list |-> L, property |-> size, flags |-> H, nr_free |-> m.nr_free - n, page |-> page]
      <3>1. ~(size[page] > n)
        BY <1>2, <1>5
      <3> QED  BY <1>1, <3>1 DEF TakeFrom, size, page, heads
    <2> HIDE DEF H, L
    <2>4. r \in Managers
      <3>1. H \in SUBSET Pages
        BY <1>1 DEF H
      <3> QED  BY <1>1, <1>2, <2>2, <2>3, <3>1 DEF Managers
    <2>5. r.list = L /\ r.property = size /\ r.flags = H /\ r.nr_free = m.nr_free - n /\ r.page = page
      BY <2>3
    <2>6. Sound(r) /\ FreeIn(r) = FreeIn(m) \ Run(page, n)
      BY <2>1, <2>2, <2>5 DEF Sound, FreeIn, size, heads
    <2> QED  BY <1>2, <1>3, <2>4, <2>5, <2>6 DEF page
  <1> QED  BY <1>2, <1>4, <1>5 DEF page

LEMMA AllocSound ==
    ASSUME NEW m \in Managers, Sound(m), NEW n \in Nat \ {0}, ~NoBlock(m, n)
    PROVE  LET r == alloc_pages(m, n)
           IN  /\ r \in Managers /\ Sound(r)
               /\ r.page \in Pages /\ r.nr_free = m.nr_free - n
               /\ Run(r.page, n) \subseteq FreeIn(m)
               /\ FreeIn(r) = FreeIn(m) \ Run(r.page, n)
  <1>1. /\ FirstFit(m, n) \in 1 .. Len(m.list)
        /\ m.property[m.list[FirstFit(m, n)]] >= n
    BY Search
  <1>2. alloc_pages(m, n) = TakeFrom(m, FirstFit(m, n), n)
    BY DEF alloc_pages
  <1> QED  BY <1>1, <1>2, TakenSound

\* A request is refused only if no run of that length is free anywhere.
LEMMA RefusedRightly ==
    ASSUME NEW m \in Managers, Sound(m), m.nr_free = Cardinality(FreeIn(m)),
           NEW n \in Nat \ {0}, NoBlock(m, n), NEW base \in Pages
    PROVE  ~(Run(base, n) \subseteq FreeIn(m))
  <1> SUFFICES ASSUME Run(base, n) \subseteq FreeIn(m) PROVE FALSE
    OBVIOUS
  <1> DEFINE size == m.property
             heads == ToSet(m.list)
  <1>1. /\ size \in [Pages -> Nat] /\ heads \in SUBSET Pages
        /\ BlocksFit(heads, size) /\ Apart(heads, size)
        /\ \A p \in heads : \E i \in DOMAIN m.list : m.list[i] = p
    BY FieldsOf DEF Sound
  <1>2. PICK p \in heads : p <= base /\ base + n <= p + size[p]
    <2>1. base \in Int
      BY MemorySize
    <2> HIDE DEF size, heads
    <2>2. Run(base, n) \subseteq PagesOf(heads, size)
      BY DEF FreeIn, size, heads
    <2> QED  BY <1>1, <2>1, <2>2, RunInBlock
  <1>3. size[p] >= n
    BY <1>1, <1>2, MemorySize
  <1>4. n <= m.nr_free
    <2>1. FreeIn(m) \subseteq Pages
      BY <1>1, MemorySize DEF FreeIn, PagesOf, Run, BlocksFit
    <2>2. IsFiniteSet(FreeIn(m))
      <3>1. IsFiniteSet(Pages)
        BY MemorySize, FS_Interval
      <3> QED  BY <2>1, <3>1, FS_Subset
    <2>3. Cardinality(Run(base, n)) <= Cardinality(FreeIn(m))
      BY <2>2, FS_Subset
    <2>4. Cardinality(Run(base, n)) = n
      BY RunSize, MemorySize
    <2> QED  BY <2>3, <2>4
  <1>5. m.nr_free \in Int
    BY FieldsOf
  <1>6. PICK i \in DOMAIN m.list : m.list[i] = p
    BY <1>1
  <1> QED  BY <1>3, <1>4, <1>5, <1>6 DEF NoBlock, Fits

----------------------------------------------------------------------------
(* default_free_pages.                                                     *)

\* What the merging loop works on.
Turns == [base : Pages, property : [Pages -> Nat], flags : SUBSET Pages, list : Seq(Pages)]

EndOf(s) == s.base + s.property[s.base]

\* The block that is freed has grown by blocks of the list; those that are
\* still there are as they were, apart from it, and those before the i-th do
\* not touch it.
MergeInv(m, base, n, s, i) ==
    /\ s \in Turns
    /\ Increasing(s.list)
    /\ ToSet(s.list) \subseteq ToSet(m.list)
    /\ \A q \in ToSet(s.list) : s.property[q] = m.property[q]
    /\ s.property[s.base] >= 1 /\ EndOf(s) <= NPages
    /\ \A q \in ToSet(s.list) : q + m.property[q] <= s.base \/ EndOf(s) <= q
    /\ PagesOf(ToSet(s.list), m.property) \cup Run(s.base, s.property[s.base])
            = FreeIn(m) \cup Run(base, n)
    /\ s.flags = ToSet(s.list) \cup {s.base}
    /\ \A j \in 1 .. i : m.list[j] \in ToSet(s.list) =>
            m.list[j] + m.property[m.list[j]] # s.base /\ EndOf(s) # m.list[j]
    /\ \A j \in i + 1 .. Len(m.list) : m.list[j] \in ToSet(s.list)

LEMMA RunJoin ==
    ASSUME NEW base \in Int, NEW k \in Nat, NEW n \in Nat,
           NEW all, all = k + n, NEW next, next = base + k
    PROVE  Run(base, all) = Run(base, k) \cup Run(next, n)
  BY DEF Run

LEMMA MergeTurn ==
    ASSUME NEW m \in Managers, Sound(m), NEW base \in Pages, NEW n \in Nat \ {0},
           NEW s, NEW i \in 0 .. Len(m.list) - 1, MergeInv(m, base, n, s, i)
    PROVE  MergeInv(m, base, n, MergeWith(s, m.list[i + 1]), i + 1)
  <1> DEFINE size == m.property
             heads == ToSet(m.list)
             p == m.list[i + 1]
             rest == ToSet(s.list)
             L == Unlink(s.list, p)
             t == MergeWith(s, p)
             M == m.list
             e == s.base + s.property[s.base]
             b == s.base
             k == s.property[s.base]
             z == size[p]
  <1>1. /\ size \in [Pages -> Nat] /\ heads \in SUBSET Pages
        /\ BlocksFit(heads, size) /\ Apart(heads, size)
        /\ Len(M) \in Nat /\ \A j \in 1 .. Len(M) : M[j] \in heads
        /\ \A j, l \in 1 .. Len(M) : M[j] = M[l] => j = l
    <2>1. \A j, l \in 1 .. Len(M) : M[j] = M[l] => j = l
      <3>1. \A j \in 1 .. Len(M) : M[j] \in Int
        BY FieldsOf, MemorySize
      <3>2. Len(M) \in Nat /\ \A j, l \in 1 .. Len(M) : j < l => M[j] < M[l]
        BY FieldsOf DEF Sound, Increasing
      <3> HIDE DEF M
      <3> QED  BY <3>1, <3>2
    <2> QED  BY <2>1, FieldsOf DEF Sound
  <1>2. /\ s.base \in Pages /\ s.property \in [Pages -> Nat] /\ s.flags \in SUBSET Pages
        /\ s.list \in Seq(Pages) /\ Increasing(s.list)
        /\ s = [base |-> s.base, property |-> s.property, flags |-> s.flags, list |-> s.list]
        /\ rest \subseteq heads /\ s.flags = rest \cup {s.base}
        /\ \A q \in rest : s.property[q] = size[q]
        /\ s.property[s.base] >= 1 /\ e <= NPages
        /\ \A q \in rest : q + size[q] <= s.base \/ e <= q
        /\ PagesOf(rest, size) \cup Run(s.base, s.property[s.base]) = FreeIn(m) \cup Run(base, n)
        /\ \A j \in 1 .. i : M[j] \in rest => M[j] + size[M[j]] # s.base /\ e # M[j]
        /\ \A j \in i + 1 .. Len(M) : M[j] \in rest
    BY DEF MergeInv, EndOf, Turns
  <1>3. i \in Nat /\ i + 1 \in 1 .. Len(M) /\ p \in rest /\ p \in heads
    BY <1>1, <1>2
  <1>4. /\ \A q \in heads : q \in Int /\ size[q] \in Nat /\ size[q] >= 1 /\ q + size[q] <= NPages
        /\ s.base \in Int /\ s.property[s.base] \in Nat /\ NPages \in Nat /\ e \in Int
    <2>1. \A q \in heads : q \in Int /\ size[q] \in Nat /\ size[q] >= 1 /\ q + size[q] <= NPages
      <3> HIDE DEF heads, size
      <3> QED  BY <1>1, MemorySize DEF BlocksFit
    <2>2. s.base \in Int /\ s.property[s.base] \in Nat /\ NPages \in Nat
      BY <1>2, MemorySize
    <2> QED  BY <2>1, <2>2
  <1>5. L \in Seq(Pages) /\ Increasing(L) /\ ToSet(L) = rest \ {p}
    BY <1>2, <1>3, Unlinked
  <1>6. \A q \in heads : /\ q < p => q + size[q] < p
                         /\ p < q => p + size[p] < q
    BY <1>1, <1>3 DEF Apart
  <1>7. s.base \notin rest
    <2> SUFFICES ASSUME s.base \in rest PROVE FALSE
      OBVIOUS
    <2>1. s.base + size[s.base] <= s.base \/ e <= s.base
      BY <1>2
    <2>2. size[s.base] \in Nat /\ size[s.base] >= 1 /\ s.base < e
      BY <1>2, <1>4
    <2> QED  BY <1>4, <2>1, <2>2
  <1>8. PagesOf(rest, size) = PagesOf(rest \ {p}, size) \cup Run(p, size[p])
    BY <1>3 DEF PagesOf
  <1>9. s.property[p] = size[p]
    BY <1>2, <1>3
  <1>10. \A j \in 1 .. Len(M) : j # i + 1 => M[j] # p
    BY <1>1, <1>3
  <1>14. /\ p \in Int /\ z \in Nat /\ z >= 1 /\ p + z <= NPages
         /\ b \in Int /\ k \in Nat /\ k >= 1
         /\ e \in Int /\ e = b + k /\ e <= NPages /\ NPages \in Nat
    BY <1>2, <1>3, <1>4
  <1> HIDE DEF size, heads, p, rest, L, M, e, b, k, z
  <1>15. z + k \in Nat /\ k + z \in Nat /\ b + (k + z) = e + z /\ e + z = p + z + (e - p)
    BY <1>14
  <1>11. CASE e = p
    <2> DEFINE P == [s.property EXCEPT ![s.base] = @ + s.property[p]]
    <2>1. t = [base |-> s.base, property |-> P, flags |-> s.flags \ {p}, list |-> L]
      <3>1. t = [s EXCEPT !.property[s.base] = @ + s.property[p],
                          !.flags = @ \ {p},
                          !.list = Unlink(@, p)]
        <4>1. ~(p + s.property[p] = s.base)
          BY <1>3, <1>4, <1>9, <1>11, <1>2 DEF e
        <4> QED  BY <1>11, <4>1 DEF MergeWith, e
      <3> QED  BY <1>2, <3>1 DEF L
    <2>2. /\ P \in [Pages -> Nat] /\ P[s.base] = s.property[s.base] + size[p]
          /\ \A q \in rest : P[q] = size[q]
      <3>1. P[s.base] = s.property[s.base] + size[p]
        BY <1>2, <1>9
      <3>2. \A q \in rest : P[q] = s.property[q]
        BY <1>1, <1>2, <1>7
      <3>3. s.property[s.base] + s.property[p] \in Nat
        BY <1>9, <1>15 DEF k, z
      <3>4. P \in [Pages -> Nat]
        BY <1>2, <3>3
      <3> QED  BY <1>2, <3>1, <3>2, <3>4
    <2> HIDE DEF P
    <2>3. t.base = s.base /\ t.property = P /\ t.flags = s.flags \ {p} /\ t.list = L
      BY <2>1
    <2> DEFINE E == EndOf(t)
    <2>0. E = b + (k + z)
      BY <2>2, <2>3 DEF EndOf, b, k, z
    <2> HIDE DEF t, E
    <2>4. E = p + z /\ E \in Int
      BY <1>11, <1>14, <2>0
    <2>5. t \in Turns
      <3>1. s.base \in Pages /\ s.flags \ {p} \in SUBSET Pages
        BY <1>2
      <3> HIDE DEF t
      <3> QED  BY <1>5, <2>1, <2>2, <3>1 DEF Turns
    <2>6. \A q \in ToSet(L) : q + size[q] <= t.base \/ E <= q
      <3> SUFFICES ASSUME NEW q \in ToSet(L)
                   PROVE  q + size[q] <= t.base \/ E <= q
        OBVIOUS
      <3> DEFINE v == size[q]
      <3>1. q \in rest /\ q \in heads /\ q # p
        BY <1>2, <1>5
      <3>2. q + v <= b \/ p <= q
        BY <1>2, <1>11, <3>1 DEF b
      <3>3. /\ q < p => q + v < p
            /\ p < q => p + z < q
        BY <1>6, <3>1 DEF z
      <3>4. q \in Int /\ v \in Nat
        BY <1>4, <3>1
      <3> HIDE DEF v
      <3>5. q + v <= b \/ E <= q
        BY <1>14, <2>4, <3>1, <3>2, <3>3, <3>4
      <3> QED  BY <2>3, <3>5 DEF v, b
    <2>7. PagesOf(ToSet(L), size) \cup Run(t.base, t.property[t.base])
            = FreeIn(m) \cup Run(base, n)
      <3>1. Run(t.base, t.property[t.base])
                = Run(s.base, s.property[s.base]) \cup Run(p, size[p])
        <4>1. P[b] = k + z /\ p = b + k
          BY <1>11, <2>2 DEF e, b, k, z
        <4>2. Run(b, P[b]) = Run(b, k) \cup Run(p, z)
          BY <1>14, <4>1, RunJoin
        <4> QED  BY <2>3, <4>2 DEF b, k, z
      <3> QED  BY <1>2, <1>5, <1>8, <3>1
    <2>8. t.flags = ToSet(L) \cup {t.base}
      BY <1>2, <1>3, <1>5, <1>7, <2>3
    <2>9. \A j \in 1 .. i + 1 : M[j] \in ToSet(L) =>
                M[j] + size[M[j]] # t.base /\ E # M[j]
      <3> SUFFICES ASSUME NEW j \in 1 .. i + 1, M[j] \in ToSet(L)
                   PROVE  M[j] + size[M[j]] # t.base /\ E # M[j]
        OBVIOUS
      <3> DEFINE x == M[j]
                 v == size[x]
      <3>1. j \in 1 .. i /\ x \in rest /\ x \in heads /\ x # p
        BY <1>2, <1>3, <1>5 DEF p, M
      <3>2. x + v # b /\ e # x
        BY <1>2, <3>1 DEF b
      <3>3. /\ x < p => x + v < p
            /\ p < x => p + z < x
        BY <1>6, <3>1 DEF z
      <3>4. x \in Int /\ v \in Nat /\ v >= 1
        BY <1>4, <3>1
      <3> HIDE DEF x, v
      <3>5. x + v # b /\ E # x
        BY <1>14, <2>4, <3>1, <3>2, <3>3, <3>4
      <3> QED  BY <2>3, <3>5 DEF x, v, b
    <2>10. \A j \in i + 1 + 1 .. Len(M) : M[j] \in ToSet(L)
      <3> SUFFICES ASSUME NEW j \in i + 1 + 1 .. Len(M) PROVE M[j] \in ToSet(L)
        OBVIOUS
      <3>1. j \in i + 1 .. Len(M) /\ j \in 1 .. Len(M) /\ j # i + 1
        BY <1>1, <1>3
      <3> QED  BY <1>2, <1>5, <1>10, <3>1
    <2>11. t.property[t.base] >= 1 /\ E <= NPages
      <3>1. k + z >= 1 /\ z + k >= 1 /\ E <= NPages
        BY <1>14, <2>4
      <3> QED  BY <2>2, <2>3, <3>1 DEF b, k, z
    <2>12. ToSet(L) \subseteq heads /\ \A q \in ToSet(L) : t.property[q] = size[q]
      BY <1>2, <1>5, <2>2, <2>3
    <2>13. MergeInv(m, base, n, t, i + 1)
      BY <1>5, <2>3, <2>5, <2>6, <2>7, <2>8, <2>9, <2>10, <2>11, <2>12
         DEF MergeInv, size, heads, M, E
    <2> QED  BY <2>13 DEF t, p
  <1>12. CASE p + size[p] = s.base
    <2> DEFINE P == [s.property EXCEPT ![p] = @ + s.property[s.base]]
    <2>1. t = [base |-> p, property |-> P, flags |-> s.flags \ {s.base}, list |-> L]
      <3>1. t = [s EXCEPT !.property[p] = @ + s.property[s.base],
                          !.flags = @ \ {s.base},
                          !.base = p,
                          !.list = Unlink(@, p)]
        <4>1. ~(e = p)
          BY <1>2, <1>3, <1>4, <1>12 DEF e
        <4> QED  BY <1>9, <1>12, <4>1 DEF MergeWith, e
      <3> QED  BY <1>2, <3>1 DEF L
    <2>2. /\ P \in [Pages -> Nat] /\ P[p] = size[p] + s.property[s.base]
          /\ \A q \in rest : q # p => P[q] = size[q]
      <3>1. P[p] = size[p] + s.property[s.base]
        BY <1>1, <1>2, <1>3, <1>9
      <3>2. \A q \in rest : q # p => P[q] = s.property[q]
        BY <1>1, <1>2
      <3>3. s.property[p] + s.property[s.base] \in Nat
        BY <1>9, <1>15 DEF k, z
      <3>4. P \in [Pages -> Nat]
        BY <1>2, <3>3
      <3> QED  BY <1>2, <3>1, <3>2, <3>4
    <2> HIDE DEF P
    <2>3. t.base = p /\ t.property = P /\ t.flags = s.flags \ {s.base} /\ t.list = L
      BY <2>1
    <2> DEFINE E == EndOf(t)
    <2>0. E = p + (z + k) /\ p + z = b
      BY <1>12, <2>2, <2>3 DEF EndOf, b, k, z
    <2> HIDE DEF t, E
    <2>4. E = e
      BY <1>14, <2>0
    <2>5. t \in Turns
      <3>1. p \in Pages /\ s.flags \ {s.base} \in SUBSET Pages
        BY <1>1, <1>2, <1>3
      <3> HIDE DEF t
      <3> QED  BY <1>5, <2>1, <2>2, <3>1 DEF Turns
    <2>6. \A q \in ToSet(L) : q + size[q] <= t.base \/ E <= q
      <3> SUFFICES ASSUME NEW q \in ToSet(L)
                   PROVE  q + size[q] <= t.base \/ E <= q
        OBVIOUS
      <3> DEFINE v == size[q]
      <3>1. q \in rest /\ q \in heads /\ q # p
        BY <1>2, <1>5
      <3>2. q + v <= b \/ e <= q
        BY <1>2, <3>1 DEF b
      <3>3. /\ q < p => q + v < p
            /\ p < q => p + z < q
        BY <1>6, <3>1 DEF z
      <3>4. q \in Int /\ v \in Nat
        BY <1>4, <3>1
      <3> HIDE DEF v
      <3>5. q + v <= p \/ E <= q
        BY <2>0, <1>14, <2>4, <3>1, <3>2, <3>3, <3>4
      <3> QED  BY <2>3, <3>5 DEF v, b
    <2>7. PagesOf(ToSet(L), size) \cup Run(t.base, t.property[t.base])
            = FreeIn(m) \cup Run(base, n)
      <3>1. Run(t.base, t.property[t.base])
                = Run(s.base, s.property[s.base]) \cup Run(p, size[p])
        <4>1. P[p] = z + k /\ b = p + z
          BY <1>12, <2>2 DEF b, k, z
        <4>2. Run(p, P[p]) = Run(p, z) \cup Run(b, k)
          BY <1>14, <4>1, RunJoin
        <4> QED  BY <2>3, <4>2 DEF b, k, z
      <3> QED  BY <1>2, <1>5, <1>8, <3>1
    <2>8. t.flags = ToSet(L) \cup {t.base}
      BY <1>2, <1>3, <1>5, <1>7, <2>3
    <2>9. \A j \in 1 .. i + 1 : M[j] \in ToSet(L) =>
                M[j] + size[M[j]] # t.base /\ E # M[j]
      <3> SUFFICES ASSUME NEW j \in 1 .. i + 1, M[j] \in ToSet(L)
                   PROVE  M[j] + size[M[j]] # t.base /\ E # M[j]
        OBVIOUS
      <3> DEFINE x == M[j]
                 v == size[x]
      <3>1. j \in 1 .. i /\ x \in rest /\ x \in heads /\ x # p
        BY <1>2, <1>3, <1>5 DEF p, M
      <3>2. x + v # b /\ e # x
        BY <1>2, <3>1 DEF b
      <3>3. /\ x < p => x + v < p
            /\ p < x => p + z < x
        BY <1>6, <3>1 DEF z
      <3>4. x \in Int /\ v \in Nat /\ v >= 1
        BY <1>4, <3>1
      <3> HIDE DEF x, v
      <3>5. x + v # p /\ E # x
        BY <2>0, <1>14, <2>4, <3>1, <3>2, <3>3, <3>4
      <3> QED  BY <2>3, <3>5 DEF x, v, b
    <2>10. \A j \in i + 1 + 1 .. Len(M) : M[j] \in ToSet(L)
      <3> SUFFICES ASSUME NEW j \in i + 1 + 1 .. Len(M) PROVE M[j] \in ToSet(L)
        OBVIOUS
      <3>1. j \in i + 1 .. Len(M) /\ j \in 1 .. Len(M) /\ j # i + 1
        BY <1>1, <1>3
      <3> QED  BY <1>2, <1>5, <1>10, <3>1
    <2>11. t.property[t.base] >= 1 /\ E <= NPages
      <3>1. k + z >= 1 /\ z + k >= 1 /\ E <= NPages
        BY <1>14, <2>4
      <3> QED  BY <2>2, <2>3, <3>1 DEF b, k, z
    <2>12. ToSet(L) \subseteq heads /\ \A q \in ToSet(L) : t.property[q] = size[q]
      BY <1>2, <1>5, <2>2, <2>3
    <2>13. MergeInv(m, base, n, t, i + 1)
      BY <1>5, <2>3, <2>5, <2>6, <2>7, <2>8, <2>9, <2>10, <2>11, <2>12
         DEF MergeInv, size, heads, M, E
    <2> QED  BY <2>13 DEF t, p
  <1>13. CASE ~(e = p) /\ ~(p + size[p] = s.base)
    <2>1. t = s
      BY <1>9, <1>13 DEF MergeWith, e
    <2>2. \A j \in 1 .. i + 1 : M[j] \in rest => M[j] + size[M[j]] # s.base /\ e # M[j]
      <3> SUFFICES ASSUME NEW j \in 1 .. i + 1, M[j] \in rest
                   PROVE  M[j] + size[M[j]] # s.base /\ e # M[j]
        OBVIOUS
      <3>1. CASE j = i + 1
        BY <1>13, <3>1 DEF p, M
      <3>2. CASE j \in 1 .. i
        BY <1>2, <3>2
      <3> QED  BY <1>3, <3>1, <3>2
    <2>3. \A j \in i + 1 + 1 .. Len(M) : M[j] \in rest
      BY <1>2, <1>3
    <2> HIDE DEF t
    <2>4. MergeInv(m, base, n, s, i + 1)
      BY <2>2, <2>3 DEF MergeInv, size, heads, M, rest, EndOf, e
    <2> QED  BY <2>1, <2>4 DEF t, p
  <1> QED  BY <1>11, <1>12, <1>13

\* The loop as a function of the number of turns.
Loop(f, m, base, n) ==
    f = [i \in 0 .. Len(m.list) |->
            IF i = 0
            THEN [base |-> base,
                  property |-> [m.property EXCEPT ![base] = n],
                  flags |-> m.flags \cup {base},
                  list |-> m.list]
            ELSE MergeWith(f[i - 1], m.list[i])]

LEMMA LoopExists ==
    ASSUME NEW m \in Managers, NEW base, NEW n
    PROVE  \E f : Loop(f, m, base, n)
  <1> DEFINE start == [base |-> base,
                       property |-> [m.property EXCEPT ![base] = n],
                       flags |-> m.flags \cup {base},
                       list |-> m.list]
             N == Len(m.list)
             Upto(f, k) == f = [i \in 0 .. k |-> IF i = 0 THEN start
                                                 ELSE MergeWith(f[i - 1], m.list[i])]
             S == {k \in Nat : \E f : Upto(f, k)}
  <1> HIDE DEF start, Upto
  <1>1. 0 \in S
    <2>1. Upto([i \in 0 .. 0 |-> start], 0)
      BY DEF Upto
    <2> QED  BY <2>1
  <1>2. ASSUME NEW k \in Nat, k \in S PROVE k + 1 \in S
    <2>1. PICK f : Upto(f, k)
      BY <1>2
    <2> DEFINE g == [i \in 0 .. k + 1 |-> IF i <= k THEN f[i] ELSE MergeWith(f[k], m.list[k + 1])]
    <2>2. ASSUME NEW i \in 0 .. k + 1
          PROVE  g[i] = IF i = 0 THEN start ELSE MergeWith(g[i - 1], m.list[i])
      <3>1. CASE i = 0
        BY <2>1, <3>1 DEF Upto
      <3>2. CASE i \in 1 .. k
        <4>1. f[i] = MergeWith(f[i - 1], m.list[i])
          BY <2>1, <3>2 DEF Upto
        <4>2. g[i] = f[i] /\ g[i - 1] = f[i - 1]
          BY <3>2
        <4> QED  BY <3>2, <4>1, <4>2
      <3>3. CASE i = k + 1
        <4>1. g[i] = MergeWith(f[k], m.list[k + 1]) /\ g[i - 1] = f[k]
          BY <3>3
        <4> QED  BY <3>3, <4>1
      <3> QED  BY <3>1, <3>2, <3>3
    <2>3. Upto(g, k + 1)
      BY <2>2 DEF Upto
    <2> HIDE DEF g
    <2>4. \E h : Upto(h, k + 1)
      BY <2>3
    <2> QED  BY <2>4
  <1>3. N \in Nat
    BY FieldsOf
  <1> HIDE DEF S, N
  <1>4. N \in S
    BY <1>1, <1>2, <1>3, SetInduction
  <1>5. PICK f : Upto(f, N)
    BY <1>4 DEF S
  <1>6. Loop(f, m, base, n)
    BY <1>5 DEF Loop, N, start, Upto
  <1> QED  BY <1>6

LEMMA MergedSound ==
    ASSUME NEW m \in Managers, Sound(m), NEW base \in Pages, NEW n \in Nat \ {0},
           Run(base, n) \subseteq Pages \ FreeIn(m)
    PROVE  MergeInv(m, base, n, Merged(m, base, n), Len(m.list))
  <1> DEFINE f == CHOOSE g : Loop(g, m, base, n)
             N == Len(m.list)
  <1>1. Loop(f, m, base, n)
    BY LoopExists
  <1>2. Merged(m, base, n) = f[N]
    BY DEF Merged, Loop
  <1> HIDE DEF f
  <1>3. N \in Nat
    BY FieldsOf
  <1>4. f[0] = [base |-> base, property |-> [m.property EXCEPT ![base] = n],
                flags |-> m.flags \cup {base}, list |-> m.list]
    BY <1>1, <1>3 DEF Loop
  <1>5. ASSUME NEW i \in 1 .. N PROVE f[i] = MergeWith(f[i - 1], m.list[i])
    <2>1. i \in 0 .. N /\ i # 0
      BY <1>3
    <2> QED  BY <1>1, <2>1 DEF Loop
  <1>6. MergeInv(m, base, n, f[0], 0)
    <2> DEFINE heads == ToSet(m.list)
               size == m.property
               P == [size EXCEPT ![base] = n]
    <2>1. /\ size \in [Pages -> Nat] /\ heads \in SUBSET Pages /\ m.flags = heads
          /\ m.list \in Seq(Pages) /\ Increasing(m.list)
          /\ BlocksFit(heads, size)
      BY FieldsOf DEF Sound
    <2>2. base \in Int /\ n >= 1 /\ base + n <= NPages
      <3>1. base + n - 1 \in Run(base, n)
        BY MemorySize DEF Run
      <3>2. base + n - 1 \in Pages
        BY <3>1
      <3> QED  BY <3>2, MemorySize
    <2>3. \A q \in heads : /\ q \in Int /\ size[q] \in Nat /\ size[q] >= 1
                          /\ (q + size[q] <= base \/ base + n <= q)
      <3> SUFFICES ASSUME NEW q \in heads
                   PROVE  /\ q \in Int /\ size[q] \in Nat /\ size[q] >= 1
                          /\ (q + size[q] <= base \/ base + n <= q)
        OBVIOUS
      <3>1. q \in Int /\ size[q] \in Nat /\ size[q] >= 1
        BY <2>1, MemorySize DEF BlocksFit
      <3>2. Run(q, size[q]) \cap Run(base, n) = {}
        BY DEF FreeIn, PagesOf
      <3>3. CASE base \in Run(q, size[q])
        <4>1. base \in Run(base, n)
          BY <2>2 DEF Run
        <4> QED  BY <3>2, <3>3, <4>1
      <3>4. CASE q \in Run(base, n)
        <4>1. q \in Run(q, size[q])
          BY <3>1 DEF Run
        <4> QED  BY <3>2, <3>4, <4>1
      <3>5. CASE base \notin Run(q, size[q]) /\ q \notin Run(base, n)
        BY <2>2, <3>1, <3>5 DEF Run
      <3> QED  BY <3>1, <3>3, <3>4, <3>5
    <2>4. base \notin heads
      BY <2>2, <2>3
    <2>5. P \in [Pages -> Nat] /\ P[base] = n /\ \A q \in heads : P[q] = size[q]
      BY <2>1, <2>4
    <2>6. f[0] = [base |-> base, property |-> P, flags |-> heads \cup {base}, list |-> m.list]
      BY <1>4, <2>1
    <2> HIDE DEF P
    <2>7. f[0] \in Turns /\ f[0].base = base /\ f[0].property = P /\ f[0].list = m.list
          /\ f[0].flags = heads \cup {base} /\ EndOf(f[0]) = base + n
      BY <2>1, <2>5, <2>6 DEF Turns, EndOf
    <2>8. \A j \in 1 .. N : m.list[j] \in heads
      BY FieldsOf
    <2>9. PagesOf(heads, size) = FreeIn(m)
      BY DEF FreeIn
    <2> HIDE DEF heads, size
    <2> QED  BY <1>3, <2>1, <2>2, <2>3, <2>5, <2>7, <2>8, <2>9 DEF MergeInv, heads, size
  <1>7. ASSUME NEW i \in 0 .. N - 1, MergeInv(m, base, n, f[i], i)
        PROVE  MergeInv(m, base, n, f[i + 1], i + 1)
    <2>1. f[i + 1] = MergeWith(f[i], m.list[i + 1])
      BY <1>3, <1>5
    <2> QED  BY <1>7, <2>1, MergeTurn
  <1> DEFINE S == {i \in Nat : i <= N => MergeInv(m, base, n, f[i], i)}
  <1>8. 0 \in S
    BY <1>6
  <1>9. ASSUME NEW i \in Nat, i \in S PROVE i + 1 \in S
    BY <1>3, <1>7, <1>9
  <1> HIDE DEF S
  <1>10. N \in S
    BY <1>3, <1>8, <1>9, SetInduction
  <1> QED  BY <1>2, <1>3, <1>10 DEF S

\* Where the grown block is linked in.
LEMMA Linked ==
    ASSUME NEW s \in Turns, Increasing(s.list), s.property[s.base] >= 1,
           \A q \in ToSet(s.list) : q < s.base \/ EndOf(s) <= q
    PROVE  /\ InsertBlock(s) \in Seq(Pages)
           /\ Increasing(InsertBlock(s))
           /\ ToSet(InsertBlock(s)) = ToSet(s.list) \cup {s.base}
  <1> DEFINE list == s.list
             base == s.base
             e == EndOf(s)
             above == {i \in DOMAIN list : e <= list[i]}
             T == above \cup {Len(list) + 1}
  <1>1. /\ list \in Seq(Pages) /\ base \in Pages /\ Increasing(list)
        /\ base \in Int /\ e \in Int /\ base < e
    BY MemorySize DEF Turns, EndOf
  <1>2. InsertBlock(s) = InsertAt(list, Min(T), base)
    BY DEF InsertBlock, EndOf
  <1>3. /\ Len(list) \in Nat /\ DOMAIN list = 1 .. Len(list)
        /\ \A i \in 1 .. Len(list) : list[i] \in Int /\ list[i] \in ToSet(list)
    BY <1>1, Entries, MemorySize
  <1>4. \A q \in ToSet(list) : q < base \/ e <= q
    OBVIOUS
  <1> HIDE DEF list, base, e
  <1>5. T \in SUBSET Nat /\ T # {}
    BY <1>3
  <1>6. PICK k \in T : \A i \in T : k <= i
    BY <1>5, LeastNat
  <1>7. Min(T) \in T /\ \A i \in T : Min(T) <= i
    BY <1>6 DEF Min
  <1> DEFINE x == Min(T)
  <1>8. x \in T /\ \A i \in T : x <= i
    BY <1>7
  <1> HIDE DEF x
  <1>9. x \in 1 .. Len(list) + 1
    BY <1>3, <1>8
  <1>10. ASSUME NEW i \in 1 .. Len(list)
         PROVE  IF i < x THEN list[i] < base ELSE base < list[i]
    <2>1. CASE i < x
      <3>1. i \notin above
        BY <1>5, <1>8, <1>9, <2>1
      <3>2. ~(e <= list[i])
        BY <1>3, <3>1
      <3> QED  BY <1>3, <1>4, <2>1, <3>2
    <2>2. CASE ~(i < x)
      <3>1. x \in above /\ x \in 1 .. Len(list)
        BY <1>3, <1>8, <1>9, <2>2
      <3>2. e <= list[x]
        BY <3>1
      <3>3. i = x \/ list[x] < list[i]
        BY <1>1, <1>3, <2>2, <3>1 DEF Increasing
      <3>4. list[x] \in Int /\ list[i] \in Int
        BY <1>3, <3>1
      <3>5. base < list[i]
        BY <1>1, <3>2, <3>3, <3>4
      <3> QED  BY <2>2, <3>5
    <2> QED  BY <2>1, <2>2
  <1> HIDE DEF T
  <1>11. /\ InsertAt(list, x, base) \in Seq(Pages)
         /\ Increasing(InsertAt(list, x, base))
         /\ ToSet(InsertAt(list, x, base)) = ToSet(list) \cup {base}
    BY <1>1, <1>9, <1>10, Inserted
  <1> QED  BY <1>2, <1>11 DEF x, list, base

LEMMA FreeSound ==
    ASSUME NEW m \in Managers, Sound(m), NEW base \in Pages, NEW n \in Nat \ {0},
           Run(base, n) \subseteq Pages \ FreeIn(m)
    PROVE  LET r == free_pages(m, base, n)
           IN  /\ r \in Managers /\ Sound(r)
               /\ r.nr_free = m.nr_free + n /\ r.page = m.page
               /\ FreeIn(r) = FreeIn(m) \cup Run(base, n)
  <1> DEFINE s == Merged(m, base, n)
             r == free_pages(m, base, n)
             rest == ToSet(s.list)
             size == m.property
             e == EndOf(s)
             L == InsertBlock(s)
  <1>1. MergeInv(m, base, n, s, Len(m.list))
    BY MergedSound
  <1>2. r = [list |-> L, nr_free |-> m.nr_free + n, flags |-> s.flags,
             property |-> s.property, page |-> m.page]
    BY DEF free_pages
  <1> HIDE DEF s, r, L
  <1>3. /\ s.base \in Pages /\ s.property \in [Pages -> Nat] /\ s.flags \in SUBSET Pages
        /\ s \in Turns /\ Increasing(s.list)
        /\ rest \subseteq ToSet(m.list) /\ s.flags = rest \cup {s.base}
        /\ \A q \in rest : s.property[q] = size[q]
        /\ s.property[s.base] >= 1 /\ e <= NPages /\ e = s.base + s.property[s.base]
        /\ \A q \in rest : q + size[q] <= s.base \/ e <= q
        /\ PagesOf(rest, size) \cup Run(s.base, s.property[s.base]) = FreeIn(m) \cup Run(base, n)
        /\ \A j \in 1 .. Len(m.list) : m.list[j] \in rest =>
                m.list[j] + size[m.list[j]] # s.base /\ e # m.list[j]
    BY <1>1 DEF MergeInv, EndOf, Turns
  <1>4. /\ BlocksFit(ToSet(m.list), size) /\ Apart(ToSet(m.list), size)
        /\ ToSet(m.list) \in SUBSET Pages /\ size \in [Pages -> Nat]
        /\ m.nr_free \in Int /\ m.page \in Int
        /\ \A q \in ToSet(m.list) : \E j \in 1 .. Len(m.list) : m.list[j] = q
    BY FieldsOf DEF Sound
  <1> HIDE DEF rest, size, e
  <1>5. /\ s.base \in Int /\ s.property[s.base] \in Nat /\ e \in Int /\ s.base < e
        /\ \A q \in rest : /\ q \in Int /\ size[q] \in Nat /\ size[q] >= 1
                           /\ q + size[q] <= NPages
    <2>1. s.base \in Int /\ s.property[s.base] \in Nat /\ e \in Int /\ s.base < e
      BY <1>3, MemorySize
    <2>2. ASSUME NEW q \in rest
          PROVE  q \in Int /\ size[q] \in Nat /\ size[q] >= 1 /\ q + size[q] <= NPages
      BY <1>3, <1>4, MemorySize DEF BlocksFit
    <2> QED  BY <2>1, <2>2
  <1>6. ASSUME NEW q \in rest PROVE q + size[q] < s.base \/ e < q
    <2>1. PICK j \in 1 .. Len(m.list) : m.list[j] = q
      BY <1>3, <1>4
    <2>2. q + size[q] # s.base /\ e # q
      BY <1>3, <2>1
    <2>3. q + size[q] <= s.base \/ e <= q
      BY <1>3
    <2> QED  BY <1>5, <2>2, <2>3
  <1>7. L \in Seq(Pages) /\ Increasing(L) /\ ToSet(L) = rest \cup {s.base}
    <2>1. \A q \in ToSet(s.list) : q < s.base \/ EndOf(s) <= q
      BY <1>5, <1>6 DEF rest, e
    <2> QED  BY <1>3, <2>1, Linked DEF L, rest
  <1> DEFINE H == rest \cup {s.base}
             P == s.property
  <1>8. s.base \notin rest
    BY <1>5, <1>6
  <1>9. BlocksFit(H, P)
    BY <1>3, <1>5 DEF BlocksFit
  <1>10. Apart(H, P)
    <2> SUFFICES ASSUME NEW p \in H, NEW q \in H, p < q PROVE p + P[p] < q
      BY DEF Apart
    <2>1. CASE p \in rest /\ q \in rest
      BY <1>3, <1>4, <2>1 DEF Apart
    <2>2. CASE p = s.base /\ q \in rest
      BY <1>3, <1>5, <1>6, <2>2
    <2>3. CASE p \in rest /\ q = s.base
      BY <1>3, <1>5, <1>6, <2>3
    <2>4. ~(p = s.base /\ q = s.base)
      BY <1>5
    <2> QED  BY <2>1, <2>2, <2>3, <2>4
  <1>11. PagesOf(H, P) = FreeIn(m) \cup Run(base, n)
    <2>1. PagesOf(H, P) = PagesOf(rest, size) \cup Run(s.base, s.property[s.base])
      BY <1>3 DEF PagesOf
    <2> QED  BY <1>3, <2>1
  <1>12. r \in Managers
    <2>1. m.nr_free + n \in Int
      BY <1>4
    <2>2. s.flags \in SUBSET Pages /\ s.property \in [Pages -> Nat]
      BY <1>3
    <2> QED  BY <1>2, <1>4, <1>7, <2>1, <2>2 DEF Managers
  <1>13. /\ r.list = L /\ r.flags = H /\ r.property = P /\ r.nr_free = m.nr_free + n
         /\ r.page = m.page
    BY <1>2, <1>3
  <1> HIDE DEF H, P
  <1>14. ToSet(r.list) = H
    BY <1>7, <1>13 DEF H
  <1>15. Sound(r) /\ FreeIn(r) = FreeIn(m) \cup Run(base, n)
    BY <1>7, <1>9, <1>10, <1>11, <1>13, <1>14 DEF Sound, FreeIn
  <1> QED  BY <1>12, <1>13, <1>15 DEF r

----------------------------------------------------------------------------
(* The memory map.                                                         *)

LEMMA DivBounds ==
    ASSUME NEW a \in Int, NEW b \in Nat \ {0}
    PROVE  a \div b \in Int /\ (a \div b) * b <= a /\ a < (a \div b) * b + b
  OBVIOUS

LEMMA MulMono ==
    ASSUME NEW x \in Int, NEW y \in Int, NEW b \in Nat \ {0}, x <= y
    PROVE  x * b \in Int /\ y * b \in Int /\ x * b <= y * b
  OBVIOUS

LEMMA MulSucc ==
    ASSUME NEW x \in Int, NEW b \in Nat \ {0}
    PROVE  (x + 1) * b = x * b + b
  OBVIOUS

LEMMA DivMul ==
    ASSUME NEW x \in Int, NEW b \in Nat \ {0}
    PROVE  (x * b) \div b = x
  OBVIOUS

LEMMA DivIsFloor ==
    ASSUME NEW a \in Int, NEW b \in Nat \ {0}, NEW k \in Int
    PROVE  k <= a \div b <=> k * b <= a
  <1> DEFINE q == a \div b
  <1>1. q \in Int /\ q * b <= a /\ a < q * b + b /\ q * b \in Int
    BY DivBounds
  <1> HIDE DEF q
  <1>2. CASE k <= q
    <2>1. k * b \in Int /\ k * b <= q * b
      BY <1>1, <1>2, MulMono
    <2> QED  BY <1>1, <1>2, <2>1 DEF q
  <1>3. CASE ~(k <= q)
    <2>1. q + 1 \in Int /\ q + 1 <= k
      BY <1>1, <1>3
    <2>2. k * b \in Int /\ (q + 1) * b <= k * b
      BY <2>1, MulMono
    <2>3. (q + 1) * b = q * b + b
      BY <1>1, MulSucc
    <2> QED  BY <1>1, <1>3, <2>2, <2>3 DEF q
  <1> QED  BY <1>2, <1>3

\* The first page at or above an address.
LEMMA RoundUpIsCeiling ==
    ASSUME NEW a \in Int
    PROVE  /\ ROUNDUP(a) \div PGSIZE \in Int
           /\ \A p \in Int : ROUNDUP(a) \div PGSIZE <= p <=> a <= p * PGSIZE
  <1> DEFINE c == (a + PGSIZE - 1) \div PGSIZE
  <1>1. PGSIZE \in Nat \ {0}
    BY PagesAssumption
  <1>2. c \in Int
    BY <1>1, DivBounds
  <1>3. ROUNDUP(a) \div PGSIZE = c
    <2>1. ROUNDUP(a) = c * PGSIZE
      BY DEF ROUNDUP
    <2> HIDE DEF c
    <2> QED  BY <1>1, <1>2, <2>1, DivMul
  <1>4. ASSUME NEW p \in Int PROVE c <= p <=> a <= p * PGSIZE
    <2>1. p + 1 <= c <=> (p + 1) * PGSIZE <= a + PGSIZE - 1
      <3>1. a + PGSIZE - 1 \in Int /\ p + 1 \in Int
        BY <1>1
      <3> QED  BY <1>1, <3>1, DivIsFloor
    <2>2. (p + 1) * PGSIZE = p * PGSIZE + PGSIZE /\ p * PGSIZE \in Int
      BY <1>1, MulSucc
    <2> HIDE DEF c
    <2> QED  BY <1>1, <1>2, <2>1, <2>2
  <1> QED  BY <1>2, <1>3, <1>4

LEMMA MinOfTwo ==
    ASSUME NEW x \in Int, NEW y \in Int
    PROVE  /\ Min({x, y}) = IF x <= y THEN x ELSE y
           /\ Max({x, y}) = IF x <= y THEN y ELSE x
  BY DEF Min, Max

\* Where the entries of a memory map lie.
LEMMA Entry ==
    ASSUME NEW map \in MemMaps
    PROVE  /\ Len(map) \in Nat /\ DOMAIN map = 1 .. Len(map)
           /\ ToSet(map) = {map[i] : i \in 1 .. Len(map)}
           /\ \A i \in 1 .. Len(map) :
                /\ map[i].addr \in Nat /\ map[i].size \in Nat
                /\ End(map[i]) \in Nat /\ map[i].addr <= End(map[i])
           /\ \A i, j \in 1 .. Len(map) :
                i < j /\ IsRam(map[i]) /\ IsRam(map[j]) => End(map[i]) < map[j].addr
  <1> DEFINE E == [addr : Nat, size : Nat, type : STRING]
  <1>1. /\ map \in Seq(E)
        /\ \A i, j \in 1 .. Len(map) :
                i < j /\ IsRam(map[i]) /\ IsRam(map[j]) => End(map[i]) < map[j].addr
    BY PagesAssumption
  <1> HIDE DEF E
  <1>2. /\ Len(map) \in Nat /\ DOMAIN map = 1 .. Len(map)
        /\ ToSet(map) = {map[i] : i \in 1 .. Len(map)}
        /\ \A i \in 1 .. Len(map) : map[i] \in E
    BY <1>1, Entries
  <1>3. ASSUME NEW i \in 1 .. Len(map)
        PROVE  /\ map[i].addr \in Nat /\ map[i].size \in Nat
               /\ End(map[i]) \in Nat /\ map[i].addr <= End(map[i])
    BY <1>2 DEF E, End
  <1> QED  BY <1>1, <1>2, <1>3

\* The ends of the usable entries up to the k-th, and 0.
EndsUpTo(map, k) ==
    {0} \cup {End(map[i]) : i \in {j \in 1 .. k : IsRam(map[j]) /\ map[j].addr < KMEMSIZE}}

LEMMA HighestEnd ==
    ASSUME NEW map \in MemMaps
    PROVE  \E x \in Nat : x \in EndsUpTo(map, Len(map))
                          /\ \A y \in EndsUpTo(map, Len(map)) : y <= x
  <1> DEFINE Has(k) == \E x \in Nat : x \in EndsUpTo(map, k)
                                      /\ \A y \in EndsUpTo(map, k) : y <= x
             S == {k \in Nat : k <= Len(map) => Has(k)}
  <1>1. 0 \in S
    <2>1. EndsUpTo(map, 0) = {0}
      BY DEF EndsUpTo
    <2> QED  BY <2>1
  <1>2. ASSUME NEW k \in Nat, k \in S PROVE k + 1 \in S
    <2> SUFFICES ASSUME k + 1 <= Len(map) PROVE Has(k + 1)
      OBVIOUS
    <2>1. k + 1 \in 1 .. Len(map) /\ k <= Len(map)
      BY Entry
    <2>2. PICK x \in Nat : x \in EndsUpTo(map, k) /\ \A y \in EndsUpTo(map, k) : y <= x
      BY <1>2, <2>1
    <2> DEFINE e == End(map[k + 1])
    <2>3. e \in Nat
      BY <2>1, Entry
    <2>4. /\ EndsUpTo(map, k) \subseteq EndsUpTo(map, k + 1)
          /\ EndsUpTo(map, k + 1) \subseteq EndsUpTo(map, k) \cup {e}
      BY DEF EndsUpTo
    <2>5. CASE e \notin EndsUpTo(map, k + 1)
      BY <2>2, <2>4, <2>5
    <2>6. CASE e \in EndsUpTo(map, k + 1) /\ x <= e
      <3>1. \A y \in EndsUpTo(map, k + 1) : y <= e
        <4>1. ASSUME NEW y \in EndsUpTo(map, k) PROVE y <= e
          <5>1. y \in Nat
            <6>1. y = 0 \/ \E i \in 1 .. k : y = End(map[i])
              BY <4>1 DEF EndsUpTo
            <6> QED  BY <2>1, <6>1, Entry
          <5> HIDE DEF e
          <5> QED  BY <2>2, <2>3, <2>6, <5>1
        <4> HIDE DEF e
        <4> QED  BY <2>3, <2>4, <4>1
      <3> QED  BY <2>3, <2>6, <3>1
    <2>7. CASE ~(x <= e)
      <3> HIDE DEF e
      <3> QED  BY <2>2, <2>3, <2>4, <2>7
    <2> QED  BY <2>5, <2>6, <2>7
  <1>3. Len(map) \in Nat
    BY Entry
  <1> HIDE DEF S
  <1>4. Len(map) \in S
    BY <1>1, <1>2, <1>3, SetInduction
  <1> QED  BY <1>3, <1>4 DEF S

\* Whatever is usable below KMEMSIZE has a struct Page.
LEMMA StructPages ==
    ASSUME NEW map \in MemMaps
    PROVE  /\ npage(map) \in Nat /\ freemem(map) \in Int
           /\ \A i \in 1 .. Len(map), p \in Pages :
                IsRam(map[i]) /\ map[i].addr <= p * PGSIZE /\ (p + 1) * PGSIZE <= End(map[i])
                    => p < npage(map)
  <1> DEFINE E == EndsUpTo(map, Len(map))
             x == Max(E)
             y == Min({KMEMSIZE, x})
  <1>1. PGSIZE \in Nat \ {0} /\ KMEMSIZE \in Nat /\ kernel_end \in Nat /\ SizeofPage \in Nat
    BY PagesAssumption
  <1>2. x \in E /\ x \in Nat /\ \A z \in E : z <= x
    <2> HIDE DEF E
    <2>1. PICK w \in Nat : w \in E /\ \A z \in E : z <= w
      BY HighestEnd DEF E
    <2>2. \A z \in E : z \in Nat
      <3>1. \A z \in E : z = 0 \/ \E i \in 1 .. Len(map) : z = End(map[i])
        BY DEF E, EndsUpTo
      <3> QED  BY <3>1, Entry
    <2>3. \A z \in E : w >= z
      BY <2>1, <2>2
    <2>4. x \in E /\ \A z \in E : x >= z
      BY <2>1, <2>3 DEF Max
    <2> HIDE DEF x
    <2> QED  BY <2>2, <2>4
  <1>3. npage(map) = y \div PGSIZE
    <2>1. DOMAIN map = 1 .. Len(map)
      BY Entry
    <2> QED  BY <2>1 DEF npage, EndsUpTo
  <1> HIDE DEF E, x
  <1>4. y = IF KMEMSIZE <= x THEN KMEMSIZE ELSE x
    BY <1>1, <1>2, MinOfTwo
  <1>5. y \in Nat
    BY <1>1, <1>2, <1>4
  <1> HIDE DEF y
  <1>6. npage(map) \in Nat
    BY <1>1, <1>3, <1>5
  <1>7. freemem(map) \in Int
    <2>1. ROUNDUP(kernel_end) \in Int /\ SizeofPage * npage(map) \in Int
      BY <1>1, <1>6 DEF ROUNDUP
    <2> QED  BY <2>1 DEF freemem
  <1>8. ASSUME NEW i \in 1 .. Len(map), NEW p \in Pages,
               IsRam(map[i]), map[i].addr <= p * PGSIZE, (p + 1) * PGSIZE <= End(map[i])
        PROVE  p < npage(map)
    <2>1. p \in Int /\ (p + 1) * PGSIZE = p * PGSIZE + PGSIZE /\ p * PGSIZE \in Int
      BY <1>1, MemorySize, MulSucc
    <2>2. (p + 1) * PGSIZE <= KMEMSIZE
      <3>1. p + 1 <= KMEMSIZE \div PGSIZE
        BY MemorySize DEF NPages
      <3>2. p + 1 \in Int
        BY <2>1
      <3> QED  BY <1>1, <3>1, <3>2, DivIsFloor
    <2>3. map[i].addr \in Nat /\ End(map[i]) \in Nat
      BY Entry
    <2>4. map[i].addr < KMEMSIZE
      BY <1>1, <1>8, <2>1, <2>2, <2>3
    <2>5. End(map[i]) \in E
      BY <1>8, <2>4 DEF E, EndsUpTo
    <2>6. (p + 1) * PGSIZE <= y
      <3>1. End(map[i]) <= x
        BY <1>2, <2>5
      <3> QED  BY <1>1, <1>2, <1>4, <1>8, <2>1, <2>2, <2>3, <3>1
    <2>7. p + 1 <= y \div PGSIZE
      <3>1. p + 1 \in Int
        BY <2>1
      <3> QED  BY <1>1, <1>5, <2>6, <3>1, DivIsFloor
    <2> QED  BY <1>3, <1>6, <2>1, <2>7
  <1> QED  BY <1>6, <1>7, <1>8

----------------------------------------------------------------------------
(* page_init.                                                              *)

\* The pages that the i-th entry of the memory map gives the manager.
GivenBy(map, i) ==
    {p \in Pages : /\ p * PGSIZE >= freemem(map)
                   /\ IsRam(map[i])
                   /\ map[i].addr <= p * PGSIZE
                   /\ (p + 1) * PGSIZE <= End(map[i])}

GivenUpTo(map, i) == UNION {GivenBy(map, j) : j \in 1 .. i}

\* The region is the pages of the entry.
LEMMA RegionPages ==
    ASSUME NEW map \in MemMaps, NEW i \in 1 .. Len(map), IsRam(map[i])
    PROVE  LET r == Region(map, map[i])
           IN  /\ r.base \in Nat /\ r.n \in Int /\ r.base + r.n <= NPages
               /\ map[i].addr <= r.base * PGSIZE
               /\ (r.base + r.n) * PGSIZE <= End(map[i])
               /\ GivenBy(map, i) = Run(r.base, r.n)
  <1> DEFINE addr == map[i].addr
             e == End(map[i])
             fm == freemem(map)
             x == Max({addr, fm})
             y == Min({e, KMEMSIZE})
             b == ROUNDUP(x) \div PGSIZE
             k == y \div PGSIZE
             r == Region(map, map[i])
  <1>1. /\ PGSIZE \in Nat \ {0} /\ KMEMSIZE \in Nat /\ fm \in Int
        /\ addr \in Nat /\ e \in Nat
    BY PagesAssumption, StructPages, Entry
  <1>2. r = [base |-> b, n |-> k - b]
    BY DEF Region
  <1> HIDE DEF addr, e, fm
  <1>3. /\ x = IF addr <= fm THEN fm ELSE addr
        /\ y = IF e <= KMEMSIZE THEN e ELSE KMEMSIZE
    <2>1. addr \in Int /\ fm \in Int /\ e \in Int /\ KMEMSIZE \in Int
      BY <1>1
    <2>2. Max({addr, fm}) = IF addr <= fm THEN fm ELSE addr
      BY <2>1, MinOfTwo
    <2>3. Min({e, KMEMSIZE}) = IF e <= KMEMSIZE THEN e ELSE KMEMSIZE
      BY <2>1, MinOfTwo
    <2> QED  BY <2>2, <2>3
  <1>4. x \in Int /\ y \in Nat
    BY <1>1, <1>3
  <1> HIDE DEF x, y
  <1>5. b \in Int /\ \A p \in Int : b <= p <=> x <= p * PGSIZE
    BY <1>4, RoundUpIsCeiling
  <1>6. k \in Int /\ \A p \in Int : p <= k <=> p * PGSIZE <= y
    <2>1. k \in Int
      BY <1>1, <1>4, DivBounds
    <2>2. y \in Int
      BY <1>4
    <2> HIDE DEF k
    <2> QED  BY <1>1, <2>1, <2>2, DivIsFloor DEF k
  <1> HIDE DEF b, k, r
  <1>7. x <= b * PGSIZE /\ k * PGSIZE <= y
    BY <1>5, <1>6
  <1>8. b * PGSIZE \in Int /\ k * PGSIZE \in Int
    BY <1>1, <1>5, <1>6
  <1>9. addr <= b * PGSIZE /\ k * PGSIZE <= e
    BY <1>1, <1>3, <1>4, <1>7, <1>8
  <1>10. b \in Nat
    <2>1. ASSUME b < 0 PROVE FALSE
      <3>1. b + 1 <= 0 /\ b + 1 \in Int
        BY <1>5, <2>1
      <3>2. (b + 1) * PGSIZE <= 0 * PGSIZE
        BY <1>1, <3>1, MulMono
      <3>3. (b + 1) * PGSIZE = b * PGSIZE + PGSIZE /\ 0 * PGSIZE = 0
        BY <1>1, <1>5, MulSucc
      <3> QED  BY <1>1, <1>8, <1>9, <3>2, <3>3
    <2> QED  BY <1>5, <2>1
  <1>11. k <= NPages
    <2>1. k * PGSIZE <= KMEMSIZE
      BY <1>1, <1>3, <1>7, <1>8
    <2> QED  BY <1>1, <1>6, <2>1, DivIsFloor DEF NPages
  <1>12. ASSUME NEW p \in Int
         PROVE  p \in GivenBy(map, i) <=> b <= p /\ p + 1 <= k
    <2>1. /\ p * PGSIZE \in Int /\ (p + 1) * PGSIZE = p * PGSIZE + PGSIZE
      BY <1>1, MulSucc
    <2>2. b <= p <=> x <= p * PGSIZE
      BY <1>5
    <2>3. p + 1 <= k <=> (p + 1) * PGSIZE <= y
      BY <1>6
    <2>4. x <= p * PGSIZE <=> addr <= p * PGSIZE /\ fm <= p * PGSIZE
      BY <1>1, <1>3, <2>1
    <2>5. (p + 1) * PGSIZE <= y <=> (p + 1) * PGSIZE <= e /\ (p + 1) * PGSIZE <= KMEMSIZE
      BY <1>1, <1>3, <2>1
    <2>6. p \in GivenBy(map, i)
            <=> p \in Pages /\ fm <= p * PGSIZE /\ addr <= p * PGSIZE /\ (p + 1) * PGSIZE <= e
      <3>1. p * PGSIZE >= fm <=> fm <= p * PGSIZE
        BY <1>1, <2>1
      <3> QED  BY <3>1 DEF GivenBy, addr, e, fm
    <2>7. p \in Pages <=> 0 <= p /\ (p + 1) * PGSIZE <= KMEMSIZE
      <3>1. p + 1 <= NPages <=> (p + 1) * PGSIZE <= KMEMSIZE
        <4>1. p + 1 \in Int /\ KMEMSIZE \in Int
          BY <1>1
        <4> QED  BY <1>1, <4>1, DivIsFloor DEF NPages
      <3>2. p \in Pages <=> 0 <= p /\ p + 1 <= NPages
        BY MemorySize
      <3> QED  BY <3>1, <3>2
    <2>8. b <= p => 0 <= p
      BY <1>10
    <2> QED  BY <2>2, <2>3, <2>4, <2>5, <2>6, <2>7, <2>8
  <1>13. GivenBy(map, i) = Run(b, k - b)
    <2>1. GivenBy(map, i) \subseteq Int
      BY MemorySize DEF GivenBy
    <2>2. \A p \in Int : p \in Run(b, k - b) <=> b <= p /\ p + 1 <= k
      BY <1>5, <1>6 DEF Run
    <2>3. Run(b, k - b) \subseteq Int
      BY <1>5, <1>6 DEF Run
    <2> QED  BY <1>12, <2>1, <2>2, <2>3
  <1>14. r.base = b /\ r.n = k - b /\ b + (k - b) = k
    BY <1>2, <1>5, <1>6
  <1> QED  BY <1>5, <1>6, <1>9, <1>10, <1>11, <1>13, <1>14 DEF addr, e, r

\* After the first i entries.
MapInv(map, m, i) ==
    /\ m \in Managers /\ Sound(m) /\ m.page = NULL
    /\ FreeIn(m) = GivenUpTo(map, i)
    /\ m.nr_free = Cardinality(FreeIn(m))
    /\ \A q \in ToSet(m.list) : \E j \in 1 .. i :
            IsRam(map[j]) /\ (q + m.property[q]) * PGSIZE <= End(map[j])

LEMMA FreeFinite ==
    ASSUME NEW m \in Managers, Sound(m)
    PROVE  FreeIn(m) \subseteq Pages /\ IsFiniteSet(FreeIn(m))
  <1>1. FreeIn(m) \subseteq Pages
    <2>1. ASSUME NEW p \in ToSet(m.list) PROVE Run(p, m.property[p]) \subseteq Pages
      <3>1. p \in Int /\ p >= 0 /\ m.property[p] \in Nat /\ p + m.property[p] <= NPages
        BY FieldsOf, MemorySize DEF Sound, BlocksFit
      <3> QED  BY <3>1, MemorySize DEF Run
    <2> QED  BY <2>1 DEF FreeIn, PagesOf
  <1>2. IsFiniteSet(Pages)
    BY MemorySize, FS_Interval
  <1> QED  BY <1>1, <1>2, FS_Subset

LEMMA InitMapTurn ==
    ASSUME NEW map \in MemMaps, NEW m, NEW i \in 0 .. Len(map) - 1, MapInv(map, m, i)
    PROVE  MapInv(map, InitMap(m, map, map[i + 1]), i + 1)
  <1> DEFINE e == map[i + 1]
             r == Region(map, e)
             t == InitMap(m, map, e)
             base == r.base
             n == r.n
             heads == ToSet(m.list)
             size == m.property
  <1>1. /\ m \in Managers /\ m.page = NULL /\ FreeIn(m) = GivenUpTo(map, i)
        /\ m.nr_free = Cardinality(FreeIn(m))
        /\ m.list \in Seq(Pages) /\ Increasing(m.list) /\ m.flags = heads
        /\ size \in [Pages -> Nat] /\ heads \in SUBSET Pages /\ m.nr_free \in Int
        /\ BlocksFit(heads, size) /\ Apart(heads, size) /\ Sound(m)
        /\ \A q \in heads : \E j \in 1 .. i :
                IsRam(map[j]) /\ (q + size[q]) * PGSIZE <= End(map[j])
    BY FieldsOf DEF MapInv, Sound
  <1>2. i \in Nat /\ i + 1 \in 1 .. Len(map)
    BY Entry
  <1>3. GivenUpTo(map, i + 1) = GivenUpTo(map, i) \cup GivenBy(map, i + 1)
    <2>1. 1 .. i + 1 = (1 .. i) \cup {i + 1}
      BY <1>2
    <2> QED  BY <2>1 DEF GivenUpTo
  <1>4. PGSIZE \in Nat \ {0}
    BY PagesAssumption
  <1>5. CASE ~(IsRam(e) /\ n > 0)
    <2>1. t = m
      BY <1>5 DEF InitMap
    <2>2. GivenBy(map, i + 1) = {}
      <3>1. CASE ~IsRam(e)
        BY <3>1 DEF GivenBy
      <3>2. CASE IsRam(e)
        <4>1. n \in Int /\ base \in Nat /\ GivenBy(map, i + 1) = Run(base, n)
          BY <1>2, <3>2, RegionPages
        <4>2. ~(n > 0)
          BY <1>5, <3>2
        <4> HIDE DEF n, base
        <4> QED  BY <4>1, <4>2 DEF Run
      <3> QED  BY <3>1, <3>2
    <2>3. \A j \in 1 .. i : j \in 1 .. i + 1
      BY <1>2
    <2> HIDE DEF t
    <2> QED  BY <1>1, <1>3, <2>1, <2>2, <2>3 DEF MapInv, t
  <1>6. CASE IsRam(e) /\ n > 0
    <2>1. /\ base \in Nat /\ n \in Int /\ base + n <= NPages
          /\ e.addr <= base * PGSIZE /\ (base + n) * PGSIZE <= End(e)
          /\ GivenBy(map, i + 1) = Run(base, n)
      BY <1>2, <1>6, RegionPages
    <2>2. t = default_init_memmap(m, base, n)
      BY <1>6 DEF InitMap
    <2> HIDE DEF base, n, heads, size
    <2>3. n \in Nat \ {0} /\ base \in Pages /\ base \in Int
      BY <1>6, <2>1, MemorySize
    <2>4. ASSUME NEW q \in heads
          PROVE  q \in Int /\ size[q] \in Nat /\ size[q] >= 1 /\ q + size[q] < base
      <3>1. q \in Int /\ size[q] \in Nat /\ size[q] >= 1
        BY <1>1, MemorySize DEF BlocksFit
      <3>2. PICK j \in 1 .. i : IsRam(map[j]) /\ (q + size[q]) * PGSIZE <= End(map[j])
        BY <1>1
      <3>3. j \in 1 .. Len(map) /\ j < i + 1
        BY <1>2
      <3>4. End(map[j]) < e.addr /\ End(map[j]) \in Nat /\ e.addr \in Nat
        <4>1. IsRam(map[i + 1])
          BY <1>6
        <4> QED  BY <1>2, <3>2, <3>3, <4>1, Entry
      <3> DEFINE top == q + size[q]
      <3>5. top \in Int /\ top * PGSIZE \in Int /\ base * PGSIZE \in Int
        BY <1>4, <2>3, <3>1
      <3>6. top * PGSIZE <= End(map[j])
        BY <3>2
      <3> HIDE DEF top, e
      <3>7. top * PGSIZE < base * PGSIZE
        BY <2>1, <3>4, <3>5, <3>6
      <3>8. ASSUME base <= top PROVE FALSE
        <4>1. base * PGSIZE <= top * PGSIZE
          BY <1>4, <2>3, <3>5, <3>8, MulMono
        <4> QED  BY <3>5, <3>7, <4>1
      <3>9. top < base
        BY <2>3, <3>5, <3>8
      <3> QED  BY <3>1, <3>9 DEF top
    <2> DEFINE L == Append(m.list, base)
               P == [size EXCEPT ![base] = n]
               H == heads \cup {base}
    <2>5. base \notin heads
      BY <2>3, <2>4
    <2>6. P \in [Pages -> Nat] /\ P[base] = n /\ \A q \in heads : P[q] = size[q]
      BY <1>1, <2>3, <2>5
    <2>7. L \in Seq(Pages) /\ Increasing(L) /\ ToSet(L) = H
      <3> DEFINE N == Len(m.list)
      <3>1. /\ L \in Seq(Pages) /\ Len(L) = N + 1 /\ N \in Nat
            /\ \A j \in 1 .. N : L[j] = m.list[j]
            /\ L[N + 1] = base
        BY <1>1, <2>3, AppendProperties, LenProperties
      <3>2. /\ ToSet(m.list) = {m.list[j] : j \in 1 .. N}
            /\ \A j \in 1 .. N : m.list[j] \in heads
            /\ ToSet(L) = {L[j] : j \in 1 .. N + 1}
        <4>1. m.list \in Seq(Pages)
          BY <1>1
        <4>2. ToSet(m.list) = {m.list[j] : j \in 1 .. N}
          BY <4>1, Entries
        <4> HIDE DEF L, N
        <4>3. ToSet(L) = {L[j] : j \in 1 .. N + 1}
          BY <3>1, Entries
        <4> QED  BY <4>2, <4>3 DEF heads
      <3> HIDE DEF L, N
      <3>3. Increasing(L)
        <4> SUFFICES ASSUME NEW j \in 1 .. N + 1, NEW k \in 1 .. N + 1, j < k
                     PROVE  L[j] < L[k]
          BY <3>1 DEF Increasing
        <4>1. j \in 1 .. N /\ L[j] = m.list[j] /\ m.list[j] \in heads
          BY <3>1, <3>2
        <4>2. CASE k \in 1 .. N
          <5>1. L[k] = m.list[k]
            BY <3>1, <4>2
          <5> QED  BY <1>1, <4>1, <4>2, <5>1 DEF Increasing, N
        <4>3. CASE k = N + 1
          <5>1. L[k] = base
            BY <3>1, <4>3
          <5>2. m.list[j] < base
            BY <2>3, <2>4, <4>1
          <5> QED  BY <4>1, <5>1, <5>2
        <4> QED  BY <3>1, <4>2, <4>3
      <3>4. ASSUME NEW z \in ToSet(L) PROVE z \in H
        <4>1. PICK j \in 1 .. N + 1 : z = L[j]
          BY <3>2
        <4>2. CASE j \in 1 .. N
          BY <3>1, <3>2, <4>1, <4>2
        <4>3. CASE j = N + 1
          BY <3>1, <4>1, <4>3
        <4> QED  BY <3>1, <4>2, <4>3
      <3>5. heads \subseteq ToSet(L)
        <4>1. ASSUME NEW z \in heads PROVE z \in ToSet(L)
          <5>1. PICK j \in 1 .. N : z = m.list[j]
            BY <3>2 DEF heads
          <5>2. j \in 1 .. N + 1 /\ L[j] = z
            BY <3>1, <5>1
          <5> QED  BY <3>2, <5>2
        <4> QED  BY <4>1
      <3>6. base \in ToSet(L)
        <4>1. N + 1 \in 1 .. N + 1
          BY <3>1
        <4> QED  BY <3>1, <3>2, <4>1
      <3> QED  BY <3>1, <3>3, <3>4, <3>5, <3>6 DEF H
    <2>8. BlocksFit(H, P)
      BY <1>1, <2>1, <2>3, <2>6 DEF BlocksFit
    <2>9. Apart(H, P)
      <3> SUFFICES ASSUME NEW p \in H, NEW q \in H, p < q PROVE p + P[p] < q
        BY DEF Apart
      <3>1. CASE p \in heads /\ q \in heads
        BY <1>1, <2>6, <3>1 DEF Apart
      <3>2. CASE p = base /\ q \in heads
        BY <2>3, <2>4, <3>2
      <3>3. CASE p \in heads /\ q = base
        BY <2>4, <2>6, <3>3
      <3>4. ~(p = base /\ q = base)
        BY <2>3
      <3> QED  BY <3>1, <3>2, <3>3, <3>4
    <2>10. PagesOf(H, P) = FreeIn(m) \cup Run(base, n)
      <3>1. PagesOf(H, P) = PagesOf(heads, size) \cup Run(base, n)
        BY <2>6 DEF PagesOf
      <3> QED  BY <3>1 DEF FreeIn, heads, size
    <2>11. t = [list |-> L, nr_free |-> m.nr_free + n, flags |-> H, property |-> P,
                page |-> NULL]
      <3>1. m = [list |-> m.list, nr_free |-> m.nr_free, flags |-> m.flags,
                 property |-> m.property, page |-> m.page]
        BY <1>1 DEF Managers
      <3> QED  BY <1>1, <2>2, <3>1 DEF default_init_memmap, size
    <2> HIDE DEF L, P, H, t
    <2>12. t \in Managers
      <3>1. H \in SUBSET Pages /\ m.nr_free + n \in Int /\ NULL \in Int
        BY <1>1, <2>3 DEF H, NULL
      <3> QED  BY <2>6, <2>7, <2>11, <3>1 DEF Managers
    <2>13. /\ t.list = L /\ t.property = P /\ t.flags = H /\ t.page = NULL
           /\ t.nr_free = m.nr_free + n
      BY <2>11
    <2>14. Sound(t) /\ FreeIn(t) = FreeIn(m) \cup Run(base, n)
      BY <2>7, <2>8, <2>9, <2>10, <2>13 DEF Sound, FreeIn
    <2>15. Cardinality(FreeIn(t)) = t.nr_free
      <3>1. IsFiniteSet(Run(base, n)) /\ Cardinality(Run(base, n)) = n
        BY <2>3, RunSize
      <3>2. IsFiniteSet(FreeIn(m))
        BY <1>1, FreeFinite
      <3>3. FreeIn(m) \cap Run(base, n) = {}
        <4>1. ASSUME NEW z \in FreeIn(m) PROVE z \notin Run(base, n)
          <5>1. PICK q \in heads : z \in Run(q, size[q])
            BY <4>1 DEF FreeIn, PagesOf, heads, size
          <5> QED  BY <2>3, <2>4, <5>1 DEF Run
        <4> QED  BY <4>1
      <3>4. Cardinality(FreeIn(m) \cup Run(base, n))
                = Cardinality(FreeIn(m)) + n - Cardinality({})
        BY <3>1, <3>2, <3>3, FS_Union
      <3>5. Cardinality({}) = 0
        BY FS_EmptySet
      <3> QED  BY <1>1, <2>3, <2>13, <2>14, <3>4, <3>5
    <2>16. FreeIn(t) = GivenUpTo(map, i + 1)
      BY <1>1, <1>3, <2>1, <2>14
    <2>17. ASSUME NEW q \in ToSet(t.list)
           PROVE  \E j \in 1 .. i + 1 :
                    IsRam(map[j]) /\ (q + t.property[q]) * PGSIZE <= End(map[j])
      <3>1. CASE q = base
        <4>1. i + 1 \in 1 .. i + 1
          BY <1>2
        <4>2. (base + P[base]) * PGSIZE <= End(map[i + 1])
          BY <2>1, <2>6
        <4> QED  BY <1>6, <2>13, <3>1, <4>1, <4>2
      <3>2. CASE q \in heads
        <4>1. PICK j \in 1 .. i : IsRam(map[j]) /\ (q + size[q]) * PGSIZE <= End(map[j])
          BY <1>1, <3>2
        <4>2. j \in 1 .. i + 1
          BY <1>2
        <4> QED  BY <2>6, <2>13, <3>2, <4>1, <4>2
      <3> QED  BY <2>7, <2>13, <3>1, <3>2 DEF H
    <2>18. MapInv(map, t, i + 1)
      BY <2>12, <2>13, <2>14, <2>15, <2>16, <2>17 DEF MapInv
    <2> QED  BY <2>18 DEF t
  <1> QED  BY <1>5, <1>6

\* The loop over the memory map as a function of the number of turns.
MapLoop(f, map) ==
    f = [i \in 0 .. Len(map) |->
            IF i = 0 THEN default_init ELSE InitMap(f[i - 1], map, map[i])]

LEMMA MapLoopExists ==
    ASSUME NEW map \in MemMaps
    PROVE  \E f : MapLoop(f, map)
  <1> DEFINE N == Len(map)
             Upto(f, k) == f = [i \in 0 .. k |-> IF i = 0 THEN default_init
                                                 ELSE InitMap(f[i - 1], map, map[i])]
             S == {k \in Nat : \E f : Upto(f, k)}
  <1> HIDE DEF Upto
  <1>1. 0 \in S
    <2>1. Upto([i \in 0 .. 0 |-> default_init], 0)
      BY DEF Upto
    <2> QED  BY <2>1
  <1>2. ASSUME NEW k \in Nat, k \in S PROVE k + 1 \in S
    <2>1. PICK f : Upto(f, k)
      BY <1>2
    <2> DEFINE g == [i \in 0 .. k + 1 |-> IF i <= k THEN f[i]
                                          ELSE InitMap(f[k], map, map[k + 1])]
    <2>2. ASSUME NEW i \in 0 .. k + 1
          PROVE  g[i] = IF i = 0 THEN default_init ELSE InitMap(g[i - 1], map, map[i])
      <3>1. CASE i = 0
        BY <2>1, <3>1 DEF Upto
      <3>2. CASE i \in 1 .. k
        <4>1. f[i] = InitMap(f[i - 1], map, map[i])
          BY <2>1, <3>2 DEF Upto
        <4>2. g[i] = f[i] /\ g[i - 1] = f[i - 1]
          BY <3>2
        <4> QED  BY <3>2, <4>1, <4>2
      <3>3. CASE i = k + 1
        <4>1. g[i] = InitMap(f[k], map, map[k + 1]) /\ g[i - 1] = f[k]
          BY <3>3
        <4> QED  BY <3>3, <4>1
      <3> QED  BY <3>1, <3>2, <3>3
    <2>3. Upto(g, k + 1)
      BY <2>2 DEF Upto
    <2> HIDE DEF g
    <2>4. \E h : Upto(h, k + 1)
      BY <2>3
    <2> QED  BY <2>4
  <1>3. N \in Nat
    BY Entry
  <1> HIDE DEF S, N
  <1>4. N \in S
    BY <1>1, <1>2, <1>3, SetInduction
  <1>5. PICK f : Upto(f, N)
    BY <1>4 DEF S
  <1>6. MapLoop(f, map)
    BY <1>5 DEF MapLoop, N, Upto
  <1> QED  BY <1>6

LEMMA PageInitSound ==
    ASSUME NEW map \in MemMaps
    PROVE  MapInv(map, page_init(map), Len(map))
  <1> DEFINE f == CHOOSE g : MapLoop(g, map)
             N == Len(map)
  <1>1. MapLoop(f, map)
    BY MapLoopExists
  <1>2. page_init(map) = f[N]
    BY DEF page_init, MapLoop
  <1> HIDE DEF f
  <1>3. N \in Nat
    BY Entry
  <1>4. f[0] = default_init
    BY <1>1, <1>3 DEF MapLoop
  <1>5. ASSUME NEW i \in 1 .. N PROVE f[i] = InitMap(f[i - 1], map, map[i])
    <2>1. i \in 0 .. N /\ i # 0
      BY <1>3
    <2> QED  BY <1>1, <2>1 DEF MapLoop
  <1>6. MapInv(map, f[0], 0)
    <2> DEFINE m == default_init
    <2>1. /\ m.list = <<>> /\ m.nr_free = 0 /\ m.flags = {} /\ m.page = NULL
          /\ m.property = [p \in Pages |-> 0]
      BY DEF default_init
    <2>2. m \in Managers
      BY DEF default_init, Managers, NULL
    <2>3. ToSet(m.list) = {}
      BY <2>1 DEF ToSet
    <2> HIDE DEF m
    <2>4. FreeIn(m) = {} /\ GivenUpTo(map, 0) = {}
      BY <2>3 DEF FreeIn, PagesOf, GivenUpTo
    <2>5. Sound(m)
      BY <2>1, <2>3 DEF Sound, Increasing, BlocksFit, Apart
    <2>6. m.nr_free = Cardinality(FreeIn(m))
      BY <2>1, <2>4, FS_EmptySet
    <2>7. MapInv(map, m, 0)
      BY <2>1, <2>2, <2>3, <2>4, <2>5, <2>6 DEF MapInv
    <2> QED  BY <1>4, <2>7 DEF m
  <1>7. ASSUME NEW i \in 0 .. N - 1, MapInv(map, f[i], i)
        PROVE  MapInv(map, f[i + 1], i + 1)
    <2>1. f[i + 1] = InitMap(f[i], map, map[i + 1])
      BY <1>3, <1>5
    <2> QED  BY <1>7, <2>1, InitMapTurn
  <1> DEFINE S == {i \in Nat : i <= N => MapInv(map, f[i], i)}
  <1>8. 0 \in S
    BY <1>6
  <1>9. ASSUME NEW i \in Nat, i \in S PROVE i + 1 \in S
    BY <1>3, <1>7, <1>9
  <1> HIDE DEF S
  <1>10. N \in S
    BY <1>3, <1>8, <1>9, SetInduction
  <1> QED  BY <1>2, <1>3, <1>10 DEF S


----------------------------------------------------------------------------
(* The steps.                                                              *)

LEMMA AvailablePages ==
    ASSUME NEW map \in MemMaps
    PROVE  /\ Available[map] = GivenUpTo(map, Len(map))
           /\ Available[map] \subseteq Pages
           /\ IsFiniteSet(Available[map])
           /\ \A p \in Available[map] : p < npage(map)
  <1>1. Available[map] = {p \in Pages :
            /\ p * PGSIZE >= freemem(map)
            /\ \E e \in ToSet(map) : /\ IsRam(e)
                                     /\ e.addr <= p * PGSIZE
                                     /\ (p + 1) * PGSIZE <= End(e)}
    BY DEF Available
  <1>2. ToSet(map) = {map[i] : i \in 1 .. Len(map)}
    BY Entry
  <1>3. Available[map] = GivenUpTo(map, Len(map))
    <2>1. ASSUME NEW p \in Available[map] PROVE p \in GivenUpTo(map, Len(map))
      <3>1. PICK e \in ToSet(map) : /\ IsRam(e)
                                    /\ e.addr <= p * PGSIZE
                                    /\ (p + 1) * PGSIZE <= End(e)
        BY <1>1
      <3>2. PICK i \in 1 .. Len(map) : e = map[i]
        BY <1>2
      <3>3. p \in GivenBy(map, i)
        BY <1>1, <3>1, <3>2 DEF GivenBy
      <3> QED  BY <3>3 DEF GivenUpTo
    <2>2. ASSUME NEW p \in GivenUpTo(map, Len(map)) PROVE p \in Available[map]
      <3>1. PICK i \in 1 .. Len(map) : p \in GivenBy(map, i)
        BY DEF GivenUpTo
      <3>2. map[i] \in ToSet(map)
        BY <1>2
      <3> QED  BY <1>1, <3>1, <3>2 DEF GivenBy
    <2> QED  BY <2>1, <2>2
  <1>4. Available[map] \subseteq Pages
    BY <1>1
  <1>5. IsFiniteSet(Pages)
    BY MemorySize, FS_Interval
  <1>6. IsFiniteSet(Available[map])
    BY <1>4, <1>5, FS_Subset
  <1>7. ASSUME NEW p \in Available[map] PROVE p < npage(map)
    <2>1. PICK i \in 1 .. Len(map) : p \in GivenBy(map, i)
      BY <1>3 DEF GivenUpTo
    <2> QED  BY <2>1, StructPages DEF GivenBy
  <1> QED  BY <1>3, <1>4, <1>6, <1>7

LEMMA ListPages == InFreeList = FreeIn(Manager)
  BY DEF InFreeList, FreeIn, PagesOf, Block, Manager

\* What the counter says, and what that means for the free pages.
LEMMA Counted ==
    ASSUME NEW A, IsFiniteSet(A), NEW U, NEW F, U \cup F = A, U \cap F = {}
    PROVE  /\ IsFiniteSet(U) /\ IsFiniteSet(F) /\ F = A \ U
           /\ Cardinality(U) \in Nat /\ Cardinality(F) \in Nat
           /\ Cardinality(F) + Cardinality(U) = Cardinality(A)
  <1>1. IsFiniteSet(U) /\ IsFiniteSet(F) /\ F = A \ U
    BY FS_Subset
  <1>2. Cardinality(U) \in Nat /\ Cardinality(F) \in Nat
    BY <1>1, FS_CardinalityType
  <1>3. Cardinality(A) = Cardinality(U) + Cardinality(F) - Cardinality({})
    BY <1>1, FS_Union
  <1> QED  BY <1>1, <1>2, <1>3, FS_EmptySet

LEMMA Facts ==
    ASSUME Inv
    PROVE  /\ Manager \in Managers /\ Sound(Manager) /\ memmap \in MemMaps
           /\ used \subseteq Pages /\ IsFiniteSet(used)
           /\ FreeIn(Manager) = Available[memmap] \ used
           /\ used \cup FreeIn(Manager) = Available[memmap]
           /\ Manager.nr_free = nr_free /\ nr_free \in Int
           /\ nr_free = Cardinality(FreeIn(Manager))
           /\ answer.page \in Int /\ answer \in [n : Nat, page : Int]
  <1>1. /\ Manager \in Managers /\ Sound(Manager) /\ memmap \in MemMaps /\ used \subseteq Pages
        /\ answer \in [n : Nat, page : Int]
        /\ used \cup FreeIn(Manager) = Available[memmap]
        /\ used \cap FreeIn(Manager) = {}
        /\ nr_free + Cardinality(used) = Cardinality(Available[memmap])
    BY ListPages DEF Inv, TypeOK, NoPageLost
  <1>2. IsFiniteSet(Available[memmap])
    BY <1>1, AvailablePages
  <1>3. /\ IsFiniteSet(used) /\ FreeIn(Manager) = Available[memmap] \ used
        /\ Cardinality(used) \in Nat /\ Cardinality(FreeIn(Manager)) \in Nat
        /\ Cardinality(FreeIn(Manager)) + Cardinality(used) = Cardinality(Available[memmap])
    BY <1>1, <1>2, Counted
  <1>4. Manager.nr_free = nr_free /\ nr_free \in Int
    <2>1. Manager.nr_free = nr_free
      BY DEF Manager
    <2> QED  BY <1>1, <2>1, FieldsOf
  <1> QED  BY <1>1, <1>3, <1>4

\* What a step leaves is sound if the manager is and every page is in one place.
LEMMA Restored ==
    ASSUME NEW m \in Managers, Sound(m), Becomes(m), answer' \in [n : Nat, page : Int],
           m.page = answer.page', memmap' = memmap, memmap \in MemMaps,
           used' \cup FreeIn(m) = Available[memmap], used' \cap FreeIn(m) = {},
           m.nr_free = Cardinality(FreeIn(m))
    PROVE  Inv' /\ Manager' = m
  <1>1. Manager' = m
    <2>1. m = [list |-> m.list, nr_free |-> m.nr_free, flags |-> m.flags,
               property |-> m.property, page |-> m.page]
      BY DEF Managers
    <2> QED  BY <2>1 DEF Manager, Becomes
  <1>2. /\ Available[memmap] \subseteq Pages /\ IsFiniteSet(Available[memmap])
        /\ \A p \in Available[memmap] : p < npage(memmap)
    BY AvailablePages
  <1>3. Available' = Available /\ npage(memmap)' = npage(memmap)
    BY DEF Available, npage
  <1>4. TypeOK'
    BY <1>1, <1>2 DEF TypeOK
  <1>5. Sound(Manager)'
    BY <1>1 DEF Sound
  <1>6. InFreeList' = FreeIn(m)
    <2>1. InFreeList' = UNION {Run(p, property'[p]) : p \in ToSet(free_list')}
      BY DEF InFreeList, Block
    <2>2. free_list' = m.list /\ property' = m.property
      BY DEF Becomes
    <2> QED  BY <2>1, <2>2 DEF FreeIn, PagesOf
  <1>7. Cardinality(FreeIn(m)) + Cardinality(used') = Cardinality(Available[memmap])
    BY <1>2, Counted
  <1>8. NoPageLost'
    <2>1. nr_free' = Cardinality(FreeIn(m))
      BY DEF Becomes
    <2>2. \A p \in used' : p < npage(memmap)
      BY <1>2
    <2> QED  BY <1>3, <1>6, <1>7, <2>1, <2>2 DEF NoPageLost
  <1> QED  BY <1>1, <1>4, <1>5, <1>8 DEF Inv

LEMMA InitInv == Init => Inv
  <1> SUFFICES ASSUME Init PROVE Inv
    OBVIOUS
  <1> DEFINE m == page_init(memmap)
  <1>1. memmap \in MemMaps /\ used = {} /\ answer = [n |-> 0, page |-> NULL]
    BY DEF Init, Answer
  <1>2. MapInv(memmap, m, Len(memmap))
    BY <1>1, PageInitSound
  <1>3. /\ free_list = m.list /\ nr_free = m.nr_free /\ PG_property = m.flags
        /\ property = m.property
    BY DEF Init
  <1> HIDE DEF m
  <1>4. /\ m \in Managers /\ Sound(m) /\ m.page = NULL
        /\ FreeIn(m) = Available[memmap]
        /\ m.nr_free = Cardinality(FreeIn(m))
    BY <1>1, <1>2, AvailablePages DEF MapInv
  <1>5. Manager = m
    <2>1. m = [list |-> m.list, nr_free |-> m.nr_free, flags |-> m.flags,
               property |-> m.property, page |-> m.page]
      BY <1>4 DEF Managers
    <2> QED  BY <1>1, <1>3, <1>4, <2>1 DEF Manager
  <1>6. TypeOK
    BY <1>1, <1>4, <1>5 DEF TypeOK, NULL
  <1>7. NoPageLost
    <2>1. InFreeList = Available[memmap]
      BY <1>4, <1>5, ListPages
    <2>2. Cardinality(used) = 0
      BY <1>1, FS_EmptySet
    <2>3. nr_free = Cardinality(Available[memmap]) /\ nr_free \in Int
      BY <1>3, <1>4, FieldsOf
    <2> QED  BY <1>1, <2>1, <2>2, <2>3 DEF NoPageLost
  <1> QED  BY <1>4, <1>5, <1>6, <1>7 DEF Inv

\* A request that is met takes a run of free pages.
LEMMA AllocPagesStep ==
    ASSUME Inv, NEW n \in 1 .. NPages, AllocPages(n), UNCHANGED memmap
    PROVE  /\ Inv'
           /\ \E base \in Pages :
                /\ Run(base, n) \subseteq Available[memmap] \ used
                /\ used' = used \cup Run(base, n)
                /\ answer' = Answer(n, base)
  <1> DEFINE m == alloc_pages(Manager, n)
             A == Available[memmap]
             F == FreeIn(Manager)
             R == Run(m.page, n)
  <1>1. n \in Nat \ {0} /\ ~NoBlock(Manager, n)
    BY MemorySize DEF AllocPages
  <1>2. /\ Becomes(m) /\ used' = used \cup R /\ answer' = Answer(n, m.page)
    BY DEF AllocPages
  <1>3. /\ m \in Managers /\ Sound(m) /\ m.page \in Pages
        /\ m.nr_free = Manager.nr_free - n
        /\ R \subseteq F /\ FreeIn(m) = F \ R
    BY <1>1, AllocSound, Facts
  <1> HIDE DEF m, R
  <1>4. m.page \in Int
    BY <1>3, MemorySize
  <1>5. /\ answer' \in [n : Nat, page : Int] /\ m.page = answer.page'
    BY <1>1, <1>2, <1>4 DEF Answer
  <1>6. /\ used \cup F = A /\ F = A \ used /\ memmap \in MemMaps
        /\ Manager.nr_free = Cardinality(F)
    BY Facts
  <1>7. m.nr_free = Cardinality(FreeIn(m))
    <2>1. IsFiniteSet(F)
      BY Facts, FreeFinite
    <2>2. Cardinality(F \ R) = Cardinality(F) - Cardinality(F \cap R)
      BY <2>1, FS_Difference
    <2>3. F \cap R = R
      BY <1>3
    <2>4. Cardinality(R) = n
      BY <1>1, <1>4, RunSize DEF R
    <2> QED  BY <1>3, <1>6, <2>2, <2>3, <2>4
  <1> HIDE DEF A, F
  <1>8. used' \cup FreeIn(m) = A /\ used' \cap FreeIn(m) = {}
    BY <1>2, <1>3, <1>6
  <1>9. Inv'
    BY <1>2, <1>3, <1>5, <1>6, <1>7, <1>8, Restored DEF A
  <1> QED  BY <1>2, <1>3, <1>6, <1>9 DEF R, A

\* A request that is refused finds no run of free pages.
LEMMA AllocFailsStep ==
    ASSUME Inv, NEW n \in 1 .. NPages, AllocFails(n), UNCHANGED memmap
    PROVE  /\ Inv'
           /\ \A base \in Pages : ~(Run(base, n) \subseteq Available[memmap] \ used)
           /\ answer' = Answer(n, NULL)
           /\ UNCHANGED used
  <1> DEFINE m == [Manager EXCEPT !.page = NULL]
  <1>1. n \in Nat \ {0} /\ NoBlock(Manager, n) /\ answer' = Answer(n, NULL) /\ used' = used
    BY MemorySize DEF AllocFails
  <1>2. Becomes(m)
    BY DEF AllocFails, alloc_pages
  <1>3. m = [list |-> free_list, nr_free |-> nr_free, flags |-> PG_property,
             property |-> property, page |-> NULL]
    BY DEF Manager
  <1>4. /\ Manager.list = free_list /\ Manager.nr_free = nr_free
        /\ Manager.flags = PG_property /\ Manager.property = property
    BY DEF Manager
  <1> HIDE DEF m
  <1>5. /\ m.list = Manager.list /\ m.nr_free = Manager.nr_free
        /\ m.flags = Manager.flags /\ m.property = Manager.property /\ m.page = NULL
    BY <1>3, <1>4
  <1>6. m \in Managers
    <2>1. /\ Manager.list \in Seq(Pages) /\ Manager.nr_free \in Int
          /\ Manager.flags \in SUBSET Pages /\ Manager.property \in [Pages -> Nat]
      BY Facts, FieldsOf
    <2> QED  BY <1>3, <1>4, <2>1 DEF Managers, NULL
  <1>7. Sound(m) /\ FreeIn(m) = FreeIn(Manager)
    BY <1>5, Facts DEF Sound, FreeIn
  <1>8. m.page = answer.page' /\ answer' \in [n : Nat, page : Int]
    BY <1>1, <1>5 DEF Answer, NULL
  <1>9. Inv'
    <2>1. /\ used' \cup FreeIn(m) = Available[memmap] /\ used' \cap FreeIn(m) = {}
          /\ m.nr_free = Cardinality(FreeIn(m)) /\ memmap \in MemMaps
      BY <1>1, <1>5, <1>7, Facts
    <2> QED  BY <1>2, <1>6, <1>7, <1>8, <2>1, Restored
  <1>10. ASSUME NEW base \in Pages
         PROVE  ~(Run(base, n) \subseteq Available[memmap] \ used)
    <2>1. /\ Manager \in Managers /\ Sound(Manager)
          /\ Manager.nr_free = Cardinality(FreeIn(Manager))
          /\ FreeIn(Manager) = Available[memmap] \ used
      BY Facts
    <2>2. ~(Run(base, n) \subseteq FreeIn(Manager))
      BY <1>1, <2>1, RefusedRightly
    <2> QED  BY <2>1, <2>2
  <1> QED  BY <1>1, <1>9, <1>10

\* Pages that come back are free again.
LEMMA FreePagesStep ==
    ASSUME Inv, NEW n \in 1 .. NPages, NEW base \in Pages, FreePages(base, n),
           UNCHANGED memmap
    PROVE  /\ Inv'
           /\ Run(base, n) \subseteq used
           /\ used' = used \ Run(base, n)
           /\ UNCHANGED answer
  <1> DEFINE m == free_pages(Manager, base, n)
             A == Available[memmap]
             F == FreeIn(Manager)
             R == Run(base, n)
  <1>1. /\ R \subseteq used /\ Becomes(m) /\ used' = used \ R /\ answer' = answer
    BY DEF FreePages
  <1>2. n \in Nat \ {0} /\ base \in Int
    BY MemorySize
  <1>3. /\ used \cup F = A /\ F = A \ used /\ memmap \in MemMaps /\ used \subseteq Pages
        /\ Manager.nr_free = Cardinality(F) /\ Manager \in Managers /\ Sound(Manager)
        /\ answer \in [n : Nat, page : Int] /\ Manager.page = answer.page
    BY Facts DEF Manager
  <1>4. R \subseteq Pages \ F
    BY <1>1, <1>3
  <1>5. /\ m \in Managers /\ Sound(m) /\ m.page = Manager.page
        /\ m.nr_free = Manager.nr_free + n
        /\ FreeIn(m) = F \cup R
    BY <1>2, <1>3, <1>4, FreeSound
  <1>6. m.nr_free = Cardinality(FreeIn(m))
    <2>1. IsFiniteSet(F)
      BY <1>3, FreeFinite
    <2>2. IsFiniteSet(R) /\ Cardinality(R) = n
      BY <1>2, RunSize
    <2>3. F \cap R = {}
      BY <1>4
    <2> HIDE DEF m, F, R
    <2>4. Cardinality(F \cup R) = Cardinality(F) + Cardinality(R) - Cardinality({})
      BY <2>1, <2>2, <2>3, FS_Union
    <2>5. Cardinality({}) = 0 /\ Cardinality(F) \in Nat
      BY <2>1, FS_EmptySet, FS_CardinalityType
    <2> QED  BY <1>2, <1>3, <1>5, <2>2, <2>4, <2>5
  <1> HIDE DEF m, R, F, A
  <1>7. used' \cup FreeIn(m) = A /\ used' \cap FreeIn(m) = {}
    BY <1>1, <1>3, <1>5
  <1>8. answer' \in [n : Nat, page : Int] /\ m.page = answer.page'
    BY <1>1, <1>3, <1>5
  <1>9. Inv'
    BY <1>1, <1>3, <1>5, <1>6, <1>7, <1>8, Restored DEF A
  <1> QED  BY <1>1, <1>9 DEF R

LEMMA StutterInv ==
    ASSUME Inv, UNCHANGED vars
    PROVE  Inv'
  <1>1. /\ Manager' = Manager /\ memmap' = memmap /\ used' = used /\ answer' = answer
        /\ InFreeList' = InFreeList /\ nr_free' = nr_free
    BY DEF vars, Manager, InFreeList, Block
  <1>2. TypeOK'
    BY <1>1 DEF Inv, TypeOK
  <1>3. Sound(Manager)'
    BY <1>1 DEF Inv, Sound
  <1>4. NoPageLost'
    <2>1. Available' = Available /\ npage(memmap)' = npage(memmap)
      BY <1>1 DEF Available, npage
    <2> QED  BY <1>1, <2>1 DEF Inv, NoPageLost
  <1> QED  BY <1>2, <1>3, <1>4 DEF Inv

LEMMA StepInv == Inv /\ [Next]_vars => Inv'
  <1> SUFFICES ASSUME Inv, [Next]_vars PROVE Inv'
    OBVIOUS
  <1>1. CASE UNCHANGED vars
    BY <1>1, StutterInv
  <1>2. ASSUME NEW n \in 1 .. NPages, AllocPages(n), UNCHANGED memmap PROVE Inv'
    BY <1>2, AllocPagesStep
  <1>3. ASSUME NEW n \in 1 .. NPages, AllocFails(n), UNCHANGED memmap PROVE Inv'
    BY <1>3, AllocFailsStep
  <1>4. ASSUME NEW n \in 1 .. NPages, NEW base \in Pages, FreePages(base, n), UNCHANGED memmap
        PROVE  Inv'
    BY <1>4, FreePagesStep
  <1> QED  BY <1>1, <1>2, <1>3, <1>4 DEF Next

LEMMA InvAlways == Spec => []Inv
  BY InitInv, StepInv, PTL DEF Spec

LEMMA SoundFromInv == Inv => FreeListSound
  <1> SUFFICES ASSUME Inv PROVE FreeListSound
    OBVIOUS
  <1>1. Manager.list = free_list /\ Manager.property = property /\ Manager.flags = PG_property
    BY DEF Manager
  <1>2. /\ Increasing(free_list) /\ Apart(ToSet(free_list), property)
        /\ PG_property = ToSet(free_list)
    BY <1>1 DEF Inv, Sound
  <1>3. SortedAndMerged
    <2>1. /\ Len(free_list) \in Nat
          /\ \A i \in 1 .. Len(free_list) : free_list[i] \in ToSet(free_list)
      BY <1>1, Facts, FieldsOf
    <2> SUFFICES ASSUME NEW i \in 1 .. Len(free_list) - 1
                 PROVE  free_list[i] + property[free_list[i]] < free_list[i + 1]
      BY DEF SortedAndMerged
    <2>2. i \in 1 .. Len(free_list) /\ i + 1 \in 1 .. Len(free_list) /\ i < i + 1
      BY <2>1
    <2>3. free_list[i] < free_list[i + 1]
      BY <1>2, <2>2 DEF Increasing
    <2> QED  BY <1>2, <2>1, <2>2, <2>3 DEF Apart
  <1> QED  BY <1>2, <1>3 DEF Inv, FreeListSound, FlagMarksHeads

----------------------------------------------------------------------------
(* The theorems.                                                           *)

\* After any sequence of requests and releases, on any machine whose memory map
\* is in address order, default_alloc_pages and default_free_pages leave the
\* free list sorted and merged, its flags on the heads of its blocks, and every
\* page either free or handed out.
THEOREM FreeListAlwaysSound == Spec => []FreeListSound
  BY InvAlways, SoundFromInv, PTL

\* Whatever default_alloc_pages hands out was free, it refuses a request only
\* if no run of that length is free anywhere, and default_free_pages gives back
\* what it is given: the manager is a PagePool.
THEOREM PoolRefinement == Spec => ImplementsPool
  <1>1. Inv /\ Init => Pool!Init
    <2> SUFFICES ASSUME Inv, Init PROVE Pool!Init
      OBVIOUS
    <2>1. memmap \in MemMaps /\ used = {} /\ answer = Answer(0, NULL)
      BY DEF Init
    <2>2. Available[memmap] \subseteq Pages
      BY <2>1, AvailablePages
    <2> QED  BY <2>1, <2>2 DEF Pool!Init, Pool!Pages, Pool!Answer, Pool!NoPage, Pages,
                               Answer, NULL
  <1>2. Inv /\ Inv' /\ [Next]_vars => [Pool!Next]_Pool!vars
    <2> SUFFICES ASSUME Inv, Inv', [Next]_vars PROVE [Pool!Next]_Pool!vars
      OBVIOUS
    <2> DEFINE A == Available[memmap]
    <2>1. CASE UNCHANGED vars
      BY <2>1 DEF vars, Pool!vars, Available
    <2> SUFFICES ASSUME Next PROVE Pool!Next
      BY <2>1
    <2>2. memmap' = memmap
      BY DEF Next
    <2>3. Available[memmap]' = A /\ used \subseteq A
      BY <2>2, Facts DEF Available
    <2>4. PICK n \in 1 .. NPages : \/ AllocPages(n) \/ AllocFails(n)
                                   \/ \E base \in Pages : FreePages(base, n)
      BY DEF Next
    <2>5. /\ Pages = Pool!Pages /\ NULL = Pool!NoPage
          /\ \A base \in Pages : Run(base, n) = Pool!Run(base, n)
          /\ \A page : Answer(n, page) = Pool!Answer(n, page)
      BY DEF Pages, Pool!Pages, NULL, Pool!NoPage, Run, Pool!Run, Answer, Pool!Answer
    <2> HIDE DEF A
    <2>6. ASSUME AllocPages(n) PROVE Pool!Alloc(n)
      <3>1. PICK base \in Pages :
                /\ Run(base, n) \subseteq A \ used
                /\ used' = used \cup Run(base, n)
                /\ answer' = Answer(n, base)
        BY <2>2, <2>6, AllocPagesStep DEF A
      <3>2. A \ used' = (A \ used) \ Run(base, n)
        BY <3>1
      <3> QED  BY <2>3, <2>5, <3>1, <3>2 DEF Pool!Alloc, A
    <2>7. ASSUME AllocFails(n) PROVE Pool!Alloc(n)
      <3>1. /\ \A base \in Pages : ~(Run(base, n) \subseteq A \ used)
            /\ answer' = Answer(n, NULL) /\ used' = used
        BY <2>2, <2>7, AllocFailsStep DEF A
      <3> QED  BY <2>3, <2>5, <3>1 DEF Pool!Alloc, A
    <2>8. ASSUME NEW base \in Pages, FreePages(base, n) PROVE Pool!Free(base, n)
      <3>1. /\ Run(base, n) \subseteq used
            /\ used' = used \ Run(base, n) /\ answer' = answer
        BY <2>2, <2>8, FreePagesStep
      <3>2. Run(base, n) \subseteq A \ (A \ used)
        BY <2>3, <3>1
      <3>3. A \ used' = (A \ used) \cup Run(base, n)
        BY <2>3, <3>1
      <3> QED  BY <2>3, <2>5, <3>1, <3>2, <3>3 DEF Pool!Free, A
    <2> QED  BY <2>3, <2>4, <2>5, <2>6, <2>7, <2>8 DEF Pool!Next, A
  <1> QED  BY <1>1, <1>2, InvAlways, PTL DEF Spec, Pool!Spec, ImplementsPool

=============================================================================
