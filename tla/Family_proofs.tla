---------------------------- MODULE Family_proofs ----------------------------
(***************************************************************************)
(* Proofs about Family: for any number of processes the family pointers    *)
(* are lists of children (FamilyTree), which a walk along them finds, also *)
(* between two turns of the hand-over loop of do_exit.                     *)
(***************************************************************************)
EXTENDS Family, SequenceTheorems, FiniteSetTheorems, WellFoundedInduction, TLAPS

----------------------------------------------------------------------------
(* Sequences of processes.                                                 *)

\* The i-th of s, NULL before the first and after the last.
At(s, i) == IF i \in 1 .. Len(s) THEN s[i] ELSE NULL

Places == Nat \ {0}

\* Nobody is in s twice.
Distinct(s) == \A i, j \in Places : At(s, i) # NULL /\ At(s, i) = At(s, j) => i = j

LEMMA AtEntry ==
    ASSUME NEW s \in Seq(Procs), NEW i \in Nat
    PROVE  /\ Len(s) \in Nat
           /\ At(s, i) \in Procs \cup {NULL}
           /\ At(s, 0) = NULL
           /\ At(s, i) # NULL => i \in 1 .. Len(s) /\ s[i] = At(s, i) /\ At(s, i) \in Procs
           /\ i \in 1 .. Len(s) => s[i] = At(s, i) /\ At(s, i) # NULL /\ At(s, i) \in Procs
  BY FamilyAssumption DEF At, Places

LEMMA NoGap ==
    ASSUME NEW s \in Seq(Procs), NEW i \in Places, i # 1, At(s, i) # NULL
    PROVE  i - 1 \in Places /\ At(s, i - 1) # NULL
  <1>1. Len(s) \in Nat /\ i \in 1 .. Len(s)
    BY DEF At
  <1>2. i - 1 \in Places /\ i - 1 \in 1 .. Len(s)
    BY <1>1 DEF Places
  <1> QED  BY <1>2, FamilyAssumption DEF At

\* A process in front.
LEMMA ConsLemma ==
    ASSUME NEW s \in Seq(Procs), NEW c \in Procs
    PROVE  /\ <<c>> \o s \in Seq(Procs)
           /\ Len(<<c>> \o s) = Len(s) + 1
           /\ At(<<c>> \o s, 1) = c
           /\ \A i \in Places : At(<<c>> \o s, i + 1) = At(s, i)
  <1> DEFINE new == <<c>> \o s
             n == Len(s)
  <1>1. n \in Nat /\ <<c>> \in Seq(Procs) /\ Len(<<c>>) = 1 /\ <<c>>[1] = c
    OBVIOUS
  <1>2. /\ new \in Seq(Procs) /\ Len(new) = n + 1
        /\ \A i \in 1 .. n + 1 : new[i] = IF i <= 1 THEN <<c>>[i] ELSE s[i - 1]
    BY <1>1, ConcatProperties
  <1> HIDE DEF new
  <1>3. At(new, 1) = c
    BY <1>1, <1>2 DEF At, Places
  <1>4. ASSUME NEW i \in Places PROVE At(new, i + 1) = At(s, i)
    <2>1. CASE i \in 1 .. n
      <3>1. i + 1 \in 1 .. n + 1 /\ ~(i + 1 <= 1) /\ (i + 1) - 1 = i
        BY <1>1, <2>1
      <3> QED  BY <1>2, <2>1, <3>1 DEF At, Places
    <2>2. CASE i \notin 1 .. n
      <3>1. i + 1 \notin 1 .. n + 1
        BY <1>1, <2>2 DEF Places
      <3> QED  BY <1>2, <2>2, <3>1 DEF At, Places
    <2> QED  BY <2>1, <2>2
  <1> QED  BY <1>2, <1>3, <1>4 DEF new

\* The first gone.
LEMMA TailLemma ==
    ASSUME NEW s \in Seq(Procs), s # <<>>
    PROVE  /\ Tail(s) \in Seq(Procs)
           /\ \A i \in Places : At(Tail(s), i) = At(s, i + 1)
           /\ Head(s) = At(s, 1)
  <1> DEFINE n == Len(s)
             new == Tail(s)
  <1>1. /\ n \in Nat \ {0} /\ new \in Seq(Procs) /\ Len(new) = n - 1 /\ Head(s) = s[1]
        /\ \A i \in 1 .. n - 1 : new[i] = s[i + 1]
    BY HeadTailProperties, EmptySeq
  <1> HIDE DEF new
  <1>2. ASSUME NEW i \in Places PROVE At(new, i) = At(s, i + 1)
    <2>1. i \in 1 .. n - 1 <=> i + 1 \in 1 .. n
      BY <1>1 DEF Places
    <2> QED  BY <1>1, <2>1 DEF At, Places
  <1>3. 1 \in 1 .. n
    BY <1>1
  <1> QED  BY <1>1, <1>2, <1>3 DEF new, At, Places

\* The k-th taken out.
LEMMA RemoveLemma ==
    ASSUME NEW s \in Seq(Procs), NEW k \in 1 .. Len(s)
    PROVE  /\ RemoveAt(s, k) \in Seq(Procs)
           /\ Len(RemoveAt(s, k)) = Len(s) - 1
           /\ \A i \in Places :
                At(RemoveAt(s, k), i) = IF i < k THEN At(s, i) ELSE At(s, i + 1)
  <1> DEFINE n == Len(s)
             a == SubSeq(s, 1, k - 1)
             b == SubSeq(s, k + 1, n)
             new == a \o b
  <1>1. n \in Nat /\ k \in Nat /\ 1 <= k /\ k <= n /\ \A i \in 1 .. n : s[i] \in Procs
    OBVIOUS
  <1>2. /\ a \in Seq(Procs) /\ Len(a) = k - 1
        /\ \A i \in 1 .. k - 1 : a[i] = s[i]
    <2>1. 1 \in Int /\ k - 1 \in Int /\ \A i \in 1 .. k - 1 : s[i] \in Procs
      BY <1>1
    <2>2. /\ a \in Seq(Procs)
          /\ Len(a) = IF 1 <= k - 1 THEN (k - 1) - 1 + 1 ELSE 0
          /\ \A i \in 1 .. (k - 1) - 1 + 1 : a[i] = s[1 + i - 1]
      BY <2>1, SubSeqProperties
    <2> HIDE DEF a
    <2>3. \A i \in 1 .. k - 1 : 1 + i - 1 = i /\ i \in 1 .. (k - 1) - 1 + 1
      BY <1>1
    <2> QED  BY <1>1, <2>2, <2>3
  <1>3. /\ b \in Seq(Procs) /\ Len(b) = n - k
        /\ \A i \in 1 .. n - k : b[i] = s[k + i]
    <2>1. k + 1 \in Int /\ n \in Int /\ \A i \in k + 1 .. n : s[i] \in Procs
      BY <1>1
    <2>2. /\ b \in Seq(Procs)
          /\ Len(b) = IF k + 1 <= n THEN n - (k + 1) + 1 ELSE 0
          /\ \A i \in 1 .. n - (k + 1) + 1 : b[i] = s[(k + 1) + i - 1]
      BY <2>1, SubSeqProperties
    <2> HIDE DEF b
    <2>3. \A i \in 1 .. n - k : (k + 1) + i - 1 = k + i /\ i \in 1 .. n - (k + 1) + 1
      BY <1>1
    <2>4. Len(b) = n - k
      BY <1>1, <2>2
    <2> QED  BY <2>2, <2>3, <2>4
  <1> HIDE DEF a, b
  <1>4. /\ new \in Seq(Procs) /\ Len(new) = n - 1
        /\ \A i \in 1 .. n - 1 : new[i] = IF i <= k - 1 THEN a[i] ELSE b[i - (k - 1)]
    BY <1>1, <1>2, <1>3, ConcatProperties
  <1> HIDE DEF new
  <1>5. ASSUME NEW i \in 1 .. n - 1 PROVE new[i] = IF i < k THEN s[i] ELSE s[i + 1]
    <2>1. CASE i < k
      <3>1. i <= k - 1 /\ i \in 1 .. k - 1
        BY <1>1, <2>1
      <3> QED  BY <1>2, <1>4, <2>1, <3>1
    <2>2. CASE ~(i < k)
      <3>1. ~(i <= k - 1) /\ i - (k - 1) \in 1 .. n - k /\ k + (i - (k - 1)) = i + 1
        BY <1>1, <2>2
      <3> QED  BY <1>3, <1>4, <2>2, <3>1
    <2> QED  BY <2>1, <2>2
  <1>6. ASSUME NEW i \in Places
        PROVE  At(new, i) = IF i < k THEN At(s, i) ELSE At(s, i + 1)
    <2>1. CASE i \in 1 .. n - 1
      <3>1. i \in 1 .. n /\ i + 1 \in 1 .. n
        BY <1>1, <2>1
      <3> QED  BY <1>4, <1>5, <2>1, <3>1 DEF At, Places
    <2>2. CASE i \notin 1 .. n - 1
      <3>1. ~(i < k) /\ i + 1 \notin 1 .. n
        BY <1>1, <2>2 DEF Places
      <3> QED  BY <1>4, <2>2, <3>1 DEF At, Places
    <2> QED  BY <2>1, <2>2
  <1>7. RemoveAt(s, k) = new
    BY DEF RemoveAt, new, a, b
  <1> QED  BY <1>4, <1>6, <1>7

\* The same of lists that nobody is in twice.
LEMMA ConsDistinct ==
    ASSUME NEW s \in Seq(Procs), NEW c \in Procs, Distinct(s),
           \A i \in Places : At(s, i) # c
    PROVE  /\ Distinct(<<c>> \o s)
           /\ \A q \in Procs : (\E i \in Places : At(<<c>> \o s, i) = q)
                                <=> q = c \/ \E i \in Places : At(s, i) = q
  <1> DEFINE new == <<c>> \o s
  <1>1. At(new, 1) = c /\ \A i \in Places : At(new, i + 1) = At(s, i)
    BY ConsLemma
  <1> HIDE DEF new
  <1>2. /\ 1 \in Places
        /\ \A i \in Places : i + 1 \in Places /\ (i = 1 \/ (i - 1 \in Places /\ (i - 1) + 1 = i))
    BY DEF Places
  <1>3. \A i \in Places : i = 1 \/ At(new, i) = At(s, i - 1)
    BY <1>1, <1>2
  <1>4. Distinct(new)
    <2> SUFFICES ASSUME NEW i \in Places, NEW j \in Places,
                        At(new, i) # NULL, At(new, i) = At(new, j)
                 PROVE  i = j
      BY DEF Distinct
    <2>1. CASE i = 1 \/ j = 1
      BY <1>1, <1>2, <1>3, <2>1
    <2>2. CASE i # 1 /\ j # 1
      <3>1. i - 1 = j - 1
        BY <1>2, <1>3, <2>2 DEF Distinct
      <3> QED  BY <3>1 DEF Places
    <2> QED  BY <2>1, <2>2
  <1>5. ASSUME NEW q \in Procs
        PROVE  (\E i \in Places : At(new, i) = q) <=> q = c \/ \E i \in Places : At(s, i) = q
    BY <1>1, <1>2, <1>3
  <1> QED  BY <1>4, <1>5 DEF new

LEMMA RemoveDistinct ==
    ASSUME NEW s \in Seq(Procs), NEW k \in 1 .. Len(s), Distinct(s)
    PROVE  /\ Distinct(RemoveAt(s, k))
           /\ \A q \in Procs : (\E i \in Places : At(RemoveAt(s, k), i) = q)
                                <=> q # s[k] /\ \E i \in Places : At(s, i) = q
  <1> DEFINE new == RemoveAt(s, k)
  <1>1. \A i \in Places : At(new, i) = IF i < k THEN At(s, i) ELSE At(s, i + 1)
    BY RemoveLemma
  <1>2. k \in Places /\ At(s, k) = s[k] /\ s[k] \in Procs /\ s[k] # NULL
    BY FamilyAssumption DEF At, Places
  <1> HIDE DEF new
  <1>3. Distinct(new)
    <2> SUFFICES ASSUME NEW i \in Places, NEW j \in Places,
                        At(new, i) # NULL, At(new, i) = At(new, j)
                 PROVE  i = j
      BY DEF Distinct
    <2> DEFINE old(m) == IF m < k THEN m ELSE m + 1
    <2>1. /\ old(i) \in Places /\ old(j) \in Places
          /\ At(s, old(i)) = At(new, i) /\ At(s, old(j)) = At(new, j)
      BY <1>1 DEF Places
    <2>2. old(i) = old(j)
      BY <2>1 DEF Distinct
    <2> QED  BY <1>2, <2>2 DEF Places
  <1>4. ASSUME NEW q \in Procs
        PROVE  (\E i \in Places : At(new, i) = q) <=> q # s[k] /\ \E i \in Places : At(s, i) = q
    <2>0. q # NULL
      BY FamilyAssumption
    <2>1. ASSUME NEW i \in Places, At(new, i) = q
          PROVE  q # s[k] /\ \E j \in Places : At(s, j) = q
      <3> DEFINE j == IF i < k THEN i ELSE i + 1
      <3>1. j \in Places /\ j # k
        BY <1>2 DEF Places
      <3>2. At(s, j) = q
        BY <1>1, <2>1
      <3> QED  BY <1>2, <2>0, <3>1, <3>2 DEF Distinct
    <2>2. ASSUME NEW i \in Places, At(s, i) = q, q # s[k]
          PROVE  \E j \in Places : At(new, j) = q
      <3>1. CASE i < k
        BY <1>1, <2>2, <3>1
      <3>2. CASE ~(i < k)
        <4>1. i - 1 \in Places /\ ~(i - 1 < k) /\ (i - 1) + 1 = i
          BY <1>2, <2>2, <3>2 DEF Places
        <4> QED  BY <1>1, <2>2, <4>1
      <3> QED  BY <3>1, <3>2
    <2> QED  BY <2>1, <2>2
  <1> QED  BY <1>3, <1>4 DEF new

LEMMA TailDistinct ==
    ASSUME NEW s \in Seq(Procs), s # <<>>, Distinct(s)
    PROVE  Distinct(Tail(s))
  <1>1. \A i \in Places : At(Tail(s), i) = At(s, i + 1) /\ i + 1 \in Places
    BY TailLemma DEF Places
  <1>2. \A i, j \in Places : i + 1 = j + 1 => i = j
    BY DEF Places
  <1> QED  BY <1>1, <1>2 DEF Distinct

----------------------------------------------------------------------------
(* The inductive invariant.                                                *)

TypeOK ==
    /\ proc_list \in Seq(Procs)
    /\ parent \in [Procs -> All \cup {NULL}]
    /\ cptr \in [All -> Procs \cup {NULL}]
    /\ optr \in [Procs -> Procs \cup {NULL}]
    /\ yptr \in [Procs -> Procs \cup {NULL}]
    /\ live \in SUBSET Procs
    /\ current \in Procs \cup {NULL}

\* proc_list has everyone who is linked once; who is alive, or in the loop of
\* do_exit, is in it; init is alive.
Population ==
    /\ Distinct(proc_list)
    /\ nr_process = Len(proc_list) + 1
    /\ live \subseteq Linked
    /\ initproc \in live
    /\ parent[initproc] = idleproc
    /\ current \notin live
    /\ current # NULL => current \in Linked

\* Every set of processes has one whose parent is outside: the ancestors of a
\* process end at init.
Rooted ==
    \A S \in SUBSET (Linked \ {initproc}) :
        S # {} => \E p \in S : parent[p] \notin S

\* The pointers of q at place i of the list L of p's children.
Placed(q, p, L, i) ==
    /\ q \in Linked
    /\ parent[q] = p
    /\ optr[q] = At(L, i + 1)
    /\ i # 1 \/ p # current => yptr[q] = At(L, i - 1)

\* The pointers are the lists K: cptr is the first child, the siblings face
\* each other but for the one whose turn comes in do_exit, and every linked
\* process is in its parent's list, once.
Represents(K) ==
    /\ K \in [All -> Seq(Procs)]
    /\ \A p \in All : Distinct(K[p]) /\ cptr[p] = At(K[p], 1)
    /\ \A p \in All, i \in Places :
        At(K[p], i) # NULL => Placed(At(K[p], i), p, K[p], i)
    /\ \A q \in Linked :
        parent[q] \in All /\ \E i \in Places : At(K[parent[q]], i) = q

Inv ==
    /\ TypeOK
    /\ Population
    /\ NoChildOfTheDead
    /\ Rooted
    /\ \E K \in [All -> Seq(Procs)] : Represents(K)


LEMMA ElementsAt ==
    ASSUME NEW s \in Seq(Procs)
    PROVE  {s[i] : i \in DOMAIN s} = {q \in Procs : \E i \in Places : At(s, i) = q}
  <1>1. DOMAIN s = 1 .. Len(s) /\ \A i \in DOMAIN s : s[i] \in Procs
    OBVIOUS
  <1>2. NULL \notin Procs
    BY FamilyAssumption
  <1>3. \A i \in 1 .. Len(s) : i \in Places
    BY DEF Places
  <1> QED  BY <1>1, <1>2, <1>3 DEF At

LEMMA LinkedAt ==
    ASSUME TypeOK
    PROVE  /\ Linked \subseteq Procs
           /\ \A q \in Procs : q \in Linked <=> \E i \in Places : At(proc_list, i) = q
  BY ElementsAt DEF TypeOK, Linked

\* Nobody hangs below a process that does not live and is not in the loop.
LEMMA Childless ==
    ASSUME TypeOK, Population, NoChildOfTheDead,
           NEW K \in [All -> Seq(Procs)], Represents(K),
           NEW p \in Procs, p \notin live, p # current, NEW i \in Places
    PROVE  At(K[p], i) = NULL
  <1>1. SUFFICES ASSUME At(K[p], i) # NULL PROVE FALSE
    OBVIOUS
  <1>2. At(K[p], i) \in Linked /\ parent[At(K[p], i)] = p
    BY <1>1 DEF Represents, Placed, All
  <1>3. p # idleproc
    BY FamilyAssumption
  <1> QED  BY <1>2, <1>3 DEF NoChildOfTheDead, Population

LEMMA EmptyAt ==
    ASSUME NEW s \in Seq(Procs)
    PROVE  At(s, 1) = NULL <=> s = <<>>
  <1>1. Len(s) \in Nat /\ (s = <<>> <=> Len(s) = 0)
    BY EmptySeq
  <1>2. 1 \in 1 .. Len(s) <=> Len(s) # 0
    BY <1>1
  <1> QED  BY <1>1, <1>2, AtEntry DEF At

----------------------------------------------------------------------------
(* The steps.                                                              *)

LEMMA InitInv == Init => Inv
  <1> SUFFICES ASSUME Init PROVE Inv
    OBVIOUS
  <1> USE FamilyAssumption DEF Init
  <1>1. initproc # NULL /\ initproc # idleproc /\ idleproc # NULL
    OBVIOUS
  <1>2. proc_list = <<initproc>> /\ Len(proc_list) = 1 /\ proc_list[1] = initproc
    OBVIOUS
  <1>3. TypeOK
    BY <1>2 DEF TypeOK, All
  <1>4. Linked = {initproc}
    BY <1>2 DEF Linked
  <1>5. /\ 1 \in Places
        /\ \A i \in Places : At(<<initproc>>, i) = IF i = 1 THEN initproc ELSE NULL
        /\ \A i \in Places : At(<< >>, i) = NULL
        /\ \A s : At(s, 0) = NULL
        /\ \A i \in Places : i + 1 \in Places /\ i + 1 # 1
    BY DEF At, Places
  <1>6. Population
    <2>1. Distinct(proc_list)
      BY <1>2, <1>5 DEF Distinct
    <2> QED  BY <1>1, <1>2, <1>4, <2>1 DEF Population
  <1>7. NoChildOfTheDead /\ Rooted
    BY <1>4 DEF NoChildOfTheDead, Rooted
  <1> DEFINE K == [p \in All |-> IF p = idleproc THEN <<initproc>> ELSE << >>]
  <1>8. /\ K \in [All -> Seq(Procs)]
        /\ \A p \in All, i \in Places :
              At(K[p], i) = IF p = idleproc /\ i = 1 THEN initproc ELSE NULL
    BY <1>5
  <1> HIDE DEF K
  <1>9. \A p \in All : Distinct(K[p]) /\ cptr[p] = At(K[p], 1)
    BY <1>1, <1>5, <1>8 DEF Distinct
  <1>10. ASSUME NEW p \in All, NEW i \in Places, At(K[p], i) # NULL
         PROVE  Placed(At(K[p], i), p, K[p], i)
    <2>1. p = idleproc /\ i = 1 /\ At(K[p], i) = initproc
      BY <1>8, <1>10
    <2>2. At(K[p], i + 1) = NULL /\ At(K[p], i - 1) = NULL
      BY <1>5, <1>8, <2>1
    <2> QED  BY <1>4, <2>1, <2>2 DEF Placed
  <1>11. \A q \in Linked : parent[q] \in All /\ \E i \in Places : At(K[parent[q]], i) = q
    BY <1>4, <1>5, <1>8 DEF All
  <1>12. Represents(K)
    BY <1>8, <1>9, <1>10, <1>11 DEF Represents
  <1> QED  BY <1>3, <1>6, <1>7, <1>8, <1>12 DEF Inv

\* A newborn c below p: the lists with c in front of p's.
LEMMA SetLinksLists ==
    ASSUME TypeOK, Population, NoChildOfTheDead,
           NEW K \in [All -> Seq(Procs)], Represents(K),
           NEW p \in Procs, NEW c \in Procs, SetLinks(p, c),
           Linked' = Linked \cup {c}
    PROVE  Represents([K EXCEPT ![p] = <<c>> \o @])'
  <1> DEFINE K2 == [K EXCEPT ![p] = <<c>> \o @]
  <1>1. /\ p \in Linked /\ p \in All /\ c \in All /\ c \notin Linked /\ p # c
        /\ c # NULL /\ p # idleproc /\ current = NULL /\ current' = NULL
    BY FamilyAssumption DEF SetLinks, Population, All
  <1>2. Distinct(K[p]) /\ K[p] \in Seq(Procs)
    BY <1>1 DEF Represents
  <1>3. \A i \in Places : At(K[c], i) = NULL
    BY <1>1, Childless DEF Population
  <1>4. \A q \in All, i \in Places : At(K[q], i) # c
    BY <1>1 DEF Represents, Placed
  <1>5. /\ K2 \in [All -> Seq(Procs)]
        /\ \A q \in All \ {p} : K2[q] = K[q]
        /\ At(K2[p], 1) = c /\ At(K2[p], 0) = NULL
        /\ \A i \in Places : At(K2[p], i + 1) = At(K[p], i)
        /\ Distinct(K2[p])
        /\ \A q \in Procs : (\E i \in Places : At(K2[p], i) = q)
                             <=> q = c \/ \E i \in Places : At(K[p], i) = q
    <2>1. K2[p] = <<c>> \o K[p] /\ K2[p] \in Seq(Procs)
      BY <1>1, <1>2, ConsLemma
    <2>2. \A q \in All \ {p} : K2[q] = K[q]
      OBVIOUS
    <2>3. K2 \in [All -> Seq(Procs)]
      BY <1>1, <2>1
    <2> HIDE DEF K2
    <2>4. At(K2[p], 0) = NULL
      BY DEF At
    <2>5. At(K2[p], 1) = c /\ \A i \in Places : At(K2[p], i + 1) = At(K[p], i)
      BY <1>2, <2>1, ConsLemma
    <2>6. \A i \in Places : At(K[p], i) # c
      BY <1>1, <1>4
    <2>7. /\ Distinct(K2[p])
          /\ \A q \in Procs : (\E i \in Places : At(K2[p], i) = q)
                               <=> q = c \/ \E i \in Places : At(K[p], i) = q
      BY <1>2, <2>1, <2>6, ConsDistinct
    <2> QED  BY <2>2, <2>3, <2>4, <2>5, <2>7
  <1> HIDE DEF K2
  <1>6. /\ 1 \in Places
        /\ \A i \in Places : /\ i + 1 \in Places /\ i + 1 # 1
                             /\ i = 1 \/ (i - 1 \in Places /\ (i - 1) + 1 = i)
    BY DEF Places
  <1>7. \A q \in All : Distinct(K2[q]) /\ cptr'[q] = At(K2[q], 1)
    <2>1. \A q \in All : cptr'[q] = IF q = c THEN NULL ELSE IF q = p THEN c ELSE cptr[q]
      BY <1>1 DEF SetLinks, TypeOK
    <2>2. \A q \in All : Distinct(K[q]) /\ cptr[q] = At(K[q], 1)
      BY DEF Represents
    <2>3. K2[c] = K[c] /\ At(K[c], 1) = NULL
      BY <1>1, <1>3, <1>5, <1>6
    <2> QED  BY <1>1, <1>5, <2>1, <2>2, <2>3
  <1>8. /\ \A q \in Procs : parent'[q] = IF q = c THEN p ELSE parent[q]
        /\ \A q \in Procs : optr'[q] = IF q = c THEN cptr[p] ELSE optr[q]
        /\ \A q \in Procs : yptr'[q] = IF q = c THEN NULL ELSE IF q = cptr[p] THEN c ELSE yptr[q]
    <2>1. \A q \in Procs : parent'[q] = IF q = c THEN p ELSE parent[q]
      BY DEF SetLinks, TypeOK
    <2>2. \A q \in Procs : optr'[q] = IF q = c THEN cptr[p] ELSE optr[q]
      BY DEF SetLinks, TypeOK
    <2>3. \A q \in Procs : yptr'[q] = IF q = c THEN NULL ELSE IF q = cptr[p] THEN c ELSE yptr[q]
      <3>1. yptr' = [q \in Procs |-> CASE q = c -> NULL
                                        [] q = cptr[p] -> c
                                        [] OTHER -> yptr[q]]
        BY DEF SetLinks
      <3>2. c # cptr[p]
        BY <1>1, <1>4 DEF Represents, Places
      <3> QED  BY <3>1, <3>2
    <2> QED  BY <2>1, <2>2, <2>3
  <1>9. cptr[p] = At(K[p], 1) /\ (cptr[p] # NULL => cptr[p] \in Linked /\ parent[cptr[p]] = p)
    BY <1>1, <1>6 DEF Represents, Placed
  <1>10. Linked \subseteq Procs
    BY LinkedAt
  <1>11. ASSUME NEW q \in All, NEW i \in Places, At(K2[q], i) # NULL
         PROVE  Placed(At(K2[q], i), q, K2[q], i)'
    <2>1. CASE q = p /\ i = 1
      BY <1>5, <1>6, <1>8, <1>9, <2>1 DEF Placed
    <2>2. CASE q = p /\ i # 1
      <3> DEFINE j == i - 1
                 e == At(K[p], j)
      <3>1. j \in Places /\ i = j + 1 /\ At(K2[p], i) = e /\ At(K2[p], i + 1) = At(K[p], i)
        BY <1>5, <1>6, <2>2
      <3>2. /\ e \in Linked /\ parent[e] = p /\ optr[e] = At(K[p], i)
            /\ yptr[e] = At(K[p], j - 1) /\ e \in Procs /\ e # c
        <4>1. Placed(e, p, K[p], j)
          BY <1>1, <1>11, <2>2, <3>1 DEF Represents
        <4>2. p # current
          BY <1>1, FamilyAssumption
        <4> QED  BY <1>1, <1>10, <3>1, <4>1, <4>2 DEF Placed
      <3>3. yptr'[e] = At(K2[p], i - 1)
        <4>1. CASE j = 1
          BY <1>5, <1>8, <1>9, <3>1, <3>2, <4>1
        <4>2. CASE j # 1
          <5>1. e # cptr[p]
            BY <1>2, <1>6, <1>9, <1>11, <2>2, <3>1, <4>2 DEF Distinct
          <5>2. j - 1 \in Places /\ (j - 1) + 1 = i - 1
            BY <1>6, <3>1, <4>2
          <5>3. At(K2[p], i - 1) = At(K[p], j - 1)
            BY <1>5, <5>2
          <5> QED  BY <1>8, <3>2, <5>1, <5>3
        <4> QED  BY <4>1, <4>2
      <3> QED  BY <1>8, <2>2, <3>1, <3>2, <3>3 DEF Placed
    <2>3. CASE q # p
      <3> DEFINE e == At(K[q], i)
      <3>1. K2[q] = K[q] /\ At(K2[q], i) = e
        BY <1>5, <2>3
      <3>2. /\ e \in Linked /\ parent[e] = q /\ e \in Procs /\ e # c /\ e # cptr[p]
            /\ optr[e] = At(K[q], i + 1) /\ yptr[e] = At(K[q], i - 1)
        <4>1. Placed(e, q, K[q], i)
          BY <1>11, <3>1 DEF Represents
        <4>2. q # current
          <5>1. q \in Procs \/ q = idleproc
            BY DEF All
          <5> QED  BY <1>1, <5>1, FamilyAssumption
        <4> QED  BY <1>1, <1>9, <1>10, <1>11, <2>3, <3>1, <4>1, <4>2 DEF Placed
      <3> QED  BY <1>8, <3>1, <3>2 DEF Placed
    <2> QED  BY <2>1, <2>2, <2>3
  <1>12. ASSUME NEW q \in Linked'
         PROVE  parent'[q] \in All /\ \E i \in Places : At(K2[parent'[q]], i) = q
    <2>1. CASE q = c
      BY <1>1, <1>5, <1>6, <1>8, <2>1
    <2>2. CASE q # c
      BY <1>5, <1>8, <1>10, <1>12, <2>2 DEF Represents
    <2> QED  BY <2>1, <2>2
  <1>13. Represents(K2)'
    BY <1>5, <1>7, <1>11, <1>12 DEF Represents
  <1> QED  BY <1>13 DEF K2

\* A zombie z, the k-th of p's children: the lists without it.
LEMMA ReapLists ==
    ASSUME TypeOK, Population, NoChildOfTheDead,
           NEW K \in [All -> Seq(Procs)], Represents(K),
           NEW p \in Procs, NEW z \in Procs, Reap(z), p = parent[z],
           NEW k \in Places, At(K[p], k) = z,
           Linked' = Linked \ {z}
    PROVE  Represents([K EXCEPT ![p] = RemoveAt(@, k)])'
  <1> DEFINE K2 == [K EXCEPT ![p] = RemoveAt(@, k)]
  <1>1. /\ p \in All /\ z \in Linked /\ z # NULL /\ p # NULL /\ p # idleproc
        /\ current = NULL /\ current' = NULL /\ idleproc # NULL
    BY FamilyAssumption DEF Reap, All
  <1>2. Distinct(K[p]) /\ K[p] \in Seq(Procs)
    BY <1>1 DEF Represents
  <1>3. k \in 1 .. Len(K[p]) /\ K[p][k] = z
    BY <1>1, <1>2 DEF At
  <1>4. /\ K2 \in [All -> Seq(Procs)]
        /\ \A q \in All \ {p} : K2[q] = K[q]
        /\ \A i \in Places : At(K2[p], i) = IF i < k THEN At(K[p], i) ELSE At(K[p], i + 1)
        /\ At(K2[p], 0) = NULL /\ At(K[p], 0) = NULL
        /\ Distinct(K2[p])
        /\ \A q \in Procs : (\E i \in Places : At(K2[p], i) = q)
                             <=> q # z /\ \E i \in Places : At(K[p], i) = q
    <2>1. K2[p] = RemoveAt(K[p], k) /\ K2[p] \in Seq(Procs)
      BY <1>1, <1>2, <1>3, RemoveLemma
    <2>2. \A q \in All \ {p} : K2[q] = K[q]
      OBVIOUS
    <2>3. K2 \in [All -> Seq(Procs)]
      BY <1>1, <2>1
    <2> HIDE DEF K2
    <2>4. At(K2[p], 0) = NULL /\ At(K[p], 0) = NULL
      BY DEF At
    <2>5. \A i \in Places : At(K2[p], i) = IF i < k THEN At(K[p], i) ELSE At(K[p], i + 1)
      BY <1>2, <1>3, <2>1, RemoveLemma
    <2>6. /\ Distinct(K2[p])
          /\ \A q \in Procs : (\E i \in Places : At(K2[p], i) = q)
                               <=> q # z /\ \E i \in Places : At(K[p], i) = q
      BY <1>2, <1>3, <2>1, RemoveDistinct
    <2> QED  BY <2>2, <2>3, <2>4, <2>5, <2>6
  <1> HIDE DEF K2
  <1> DEFINE older   == At(K[p], k + 1)
             younger == At(K[p], k - 1)
  <1>5. optr[z] = older /\ yptr[z] = younger
    <2>1. Placed(z, p, K[p], k)
      BY <1>1 DEF Represents
    <2> QED  BY <1>1, <2>1 DEF Placed
  <1>6. Linked \subseteq Procs
    BY LinkedAt
  <1>7. /\ parent' = parent
        /\ \A q \in Procs : optr'[q] = IF q = younger THEN older ELSE optr[q]
        /\ \A q \in Procs : yptr'[q] = IF q = older THEN younger ELSE yptr[q]
        /\ \A q \in All : cptr'[q] = IF younger = NULL /\ q = p THEN older ELSE cptr[q]
    BY <1>1, <1>5 DEF Reap, RemoveLinks, TypeOK
  <1>8. \A i, j \in Places : At(K[p], i) # NULL /\ At(K[p], i) = At(K[p], j) => i = j
    BY <1>2 DEF Distinct
  <1>9. 1 \in Places /\ k + 1 \in Places /\ k >= 1 /\ (k # 1 => k - 1 \in Places)
    BY DEF Places
  <1>10. \A i \in Places : At(K[p], i) # NULL => i = 1 \/ At(K[p], i - 1) # NULL
    BY <1>2, NoGap
  <1>11. younger = NULL <=> k = 1
    BY <1>1, <1>4, <1>9, <1>10
  <1>12. \A q \in All : Distinct(K2[q]) /\ cptr'[q] = At(K2[q], 1)
    <2>1. \A q \in All : Distinct(K[q]) /\ cptr[q] = At(K[q], 1)
      BY DEF Represents
    <2>2. At(K2[p], 1) = IF 1 < k THEN At(K[p], 1) ELSE At(K[p], 2)
      BY <1>4, <1>9
    <2>3. 1 < k <=> k # 1
      BY <1>9 DEF Places
    <2>4. cptr'[p] = At(K2[p], 1)
      BY <1>1, <1>7, <1>11, <2>1, <2>2, <2>3
    <2> QED  BY <1>4, <1>7, <2>1, <2>4
  <1>13. ASSUME NEW q \in All, NEW i \in Places, At(K2[q], i) # NULL
         PROVE  Placed(At(K2[q], i), q, K2[q], i)'
    <2>1. CASE q = p
      <3> DEFINE j == IF i < k THEN i ELSE i + 1
                 e == At(K[p], j)
      <3>1. j \in Places /\ j # k /\ At(K2[p], i) = e
        BY <1>4 DEF Places
      <3>2. e # NULL
        BY <1>13, <2>1, <3>1
      <3>3. /\ e \in Linked /\ e \in Procs /\ parent[e] = p
            /\ optr[e] = At(K[p], j + 1) /\ yptr[e] = At(K[p], j - 1)
        <4>1. Placed(e, p, K[p], j)
          BY <1>1, <3>1, <3>2 DEF Represents
        <4> QED  BY <1>1, <1>6, <4>1 DEF Placed
      <3>4. e # z
        BY <1>1, <1>8, <3>1
      <3>5. optr'[e] = At(K2[p], i + 1)
        <4>1. CASE e = younger
          <5>1. j = k - 1 /\ i = k - 1 /\ i + 1 = k
            BY <1>4, <1>8, <1>9, <3>1, <3>2, <4>1 DEF Places
          <5>2. At(K2[p], k) = older
            BY <1>4
          <5> QED  BY <1>7, <3>3, <4>1, <5>1, <5>2
        <4>2. CASE e # younger
          <5>1. j # k - 1 /\ i + 1 \in Places
            BY <4>2 DEF Places
          <5>2. IF i + 1 < k THEN j + 1 = i + 1 ELSE j + 1 = (i + 1) + 1
            BY <5>1 DEF Places
          <5>3. At(K2[p], i + 1) = At(K[p], j + 1)
            BY <1>4, <5>1, <5>2
          <5> QED  BY <1>7, <3>3, <4>2, <5>3
        <4> QED  BY <4>1, <4>2
      <3>6. yptr'[e] = At(K2[p], i - 1)
        <4>1. CASE e = older
          <5>1. j = k + 1 /\ i = k
            BY <1>8, <1>9, <3>1, <3>2, <4>1 DEF Places
          <5>2. At(K2[p], k - 1) = younger
            <6>1. CASE k = 1
              BY <1>4, <6>1
            <6>2. CASE k # 1
              <7>1. k - 1 \in Places /\ k - 1 < k
                BY <1>9, <6>2 DEF Places
              <7> QED  BY <1>4, <7>1
            <6> QED  BY <6>1, <6>2
          <5> QED  BY <1>7, <3>3, <4>1, <5>1, <5>2
        <4>2. CASE e # older
          <5>1. j # k + 1
            BY <4>2
          <5>2. i # k
            BY <5>1 DEF Places
          <5>3. At(K2[p], i - 1) = At(K[p], j - 1)
            <6>1. CASE i = 1
              <7>1. j = 1
                BY <5>2, <6>1 DEF Places
              <7> QED  BY <1>4, <6>1, <7>1
            <6>2. CASE i # 1
              <7>1. i - 1 \in Places
                BY <6>2 DEF Places
              <7>2. CASE i < k
                <8>1. i - 1 < k /\ j - 1 = i - 1
                  BY <7>2 DEF Places
                <8> QED  BY <1>4, <7>1, <8>1
              <7>3. CASE ~(i < k)
                <8>1. ~(i - 1 < k) /\ j - 1 = (i - 1) + 1
                  BY <5>2, <7>3 DEF Places
                <8> QED  BY <1>4, <7>1, <8>1
              <7> QED  BY <7>2, <7>3
            <6> QED  BY <6>1, <6>2
          <5> QED  BY <1>7, <3>3, <4>2, <5>3
        <4> QED  BY <4>1, <4>2
      <3> HIDE DEF j, e
      <3> QED  BY <1>7, <2>1, <3>1, <3>3, <3>4, <3>5, <3>6 DEF Placed
    <2>2. CASE q # p
      <3> DEFINE e == At(K[q], i)
      <3>1. K2[q] = K[q] /\ At(K2[q], i) = e
        BY <1>4, <2>2
      <3>2. /\ e \in Linked /\ parent[e] = q /\ e \in Procs
            /\ optr[e] = At(K[q], i + 1) /\ yptr[e] = At(K[q], i - 1)
        <4>1. Placed(e, q, K[q], i)
          BY <1>13, <3>1 DEF Represents
        <4>2. q # current
          BY <1>1, FamilyAssumption DEF All
        <4> QED  BY <1>6, <4>1, <4>2 DEF Placed
      <3>3. \A m \in Places : At(K[p], m) # NULL => parent[At(K[p], m)] = p
        BY <1>1 DEF Represents, Placed
      <3>4. e # older /\ e # younger /\ e # z
        <4>1. e # NULL
          BY <1>13, <3>1
        <4> QED  BY <1>1, <1>9, <1>11, <2>2, <3>2, <3>3, <4>1
      <3> HIDE DEF e, older, younger
      <3> QED  BY <1>7, <3>1, <3>2, <3>4 DEF Placed
    <2> QED  BY <2>1, <2>2
  <1>14. ASSUME NEW q \in Linked'
         PROVE  parent'[q] \in All /\ \E i \in Places : At(K2[parent'[q]], i) = q
    <2>1. q \in Linked /\ q # z /\ q \in Procs
      BY <1>6, <1>14
    <2>2. parent[q] \in All /\ \E i \in Places : At(K[parent[q]], i) = q
      BY <2>1 DEF Represents
    <2>3. CASE parent[q] = p
      BY <1>4, <1>7, <2>1, <2>2, <2>3
    <2>4. CASE parent[q] # p
      BY <1>4, <1>7, <2>2, <2>4
    <2> QED  BY <2>3, <2>4
  <1>15. Represents(K2)'
    BY <1>4, <1>12, <1>13, <1>14 DEF Represents
  <1> QED  BY <1>15 DEF K2

\* One turn of the loop of do_exit: p, the first child of x, goes to the front
\* of initproc's list.
LEMMA AdoptLists ==
    ASSUME TypeOK, Population,
           NEW K \in [All -> Seq(Procs)], Represents(K), ExitAdopt,
           NEW x \in Procs, x = current, NEW p \in Procs, p = cptr[x]
    PROVE  /\ K[x] # <<>> /\ Head(K[x]) = p
           /\ Represents([K EXCEPT ![x] = Tail(@), ![initproc] = <<p>> \o @])'
  <1> DEFINE K2 == [K EXCEPT ![x] = Tail(@), ![initproc] = <<p>> \o @]
             r == initproc
  <1>1. /\ x \in All /\ r \in All /\ r \in Procs /\ r # x /\ x # NULL /\ p # NULL
        /\ current' = x /\ Linked' = Linked /\ r # current
    BY FamilyAssumption DEF ExitAdopt, All, Population, Linked
  <1>2. /\ Distinct(K[x]) /\ K[x] \in Seq(Procs) /\ At(K[x], 1) = p
        /\ Distinct(K[r]) /\ K[r] \in Seq(Procs) /\ At(K[r], 1) = cptr[r]
    BY <1>1 DEF Represents
  <1>3. K[x] # <<>> /\ Head(K[x]) = p
    <2>1. K[x] # <<>>
      BY <1>1, <1>2, EmptyAt
    <2> QED  BY <1>2, <2>1, TailLemma
  <1>4. /\ 1 \in Places
        /\ \A i \in Places : /\ i + 1 \in Places /\ i + 1 # 1 /\ (i + 1) - 1 = i
                             /\ i = 1 \/ (i - 1 \in Places /\ (i - 1) + 1 = i)
    BY DEF Places
  <1>5. Placed(p, x, K[x], 1)
    BY <1>1, <1>2, <1>4 DEF Represents
  <1>6. \A q \in All \ {x}, i \in Places : At(K[q], i) # p
    BY <1>1, <1>5 DEF Represents, Placed
  <1>7. /\ K2 \in [All -> Seq(Procs)]
        /\ \A q \in All \ {x, r} : K2[q] = K[q]
        /\ At(K2[r], 1) = p /\ At(K2[r], 0) = NULL /\ At(K[r], 0) = NULL
        /\ \A i \in Places : At(K2[r], i + 1) = At(K[r], i)
        /\ \A i \in Places : At(K2[x], i) = At(K[x], i + 1)
        /\ Distinct(K2[r]) /\ Distinct(K2[x])
    <2>1. K2[r] = <<p>> \o K[r] /\ K2[x] = Tail(K[x])
      BY <1>1
    <2>2. \A q \in All \ {x, r} : K2[q] = K[q]
      OBVIOUS
    <2>3. K2 \in [All -> Seq(Procs)]
      <3>1. <<p>> \o K[r] \in Seq(Procs) /\ Tail(K[x]) \in Seq(Procs)
        BY <1>2, <1>3, ConsLemma, TailLemma
      <3> QED  BY <3>1
    <2> HIDE DEF K2
    <2>4. At(K2[r], 0) = NULL /\ At(K[r], 0) = NULL
      BY DEF At
    <2>5. At(K2[r], 1) = p /\ \A i \in Places : At(K2[r], i + 1) = At(K[r], i)
      BY <1>2, <2>1, ConsLemma
    <2>6. \A i \in Places : At(K2[x], i) = At(K[x], i + 1)
      BY <1>2, <1>3, <2>1, TailLemma
    <2>7. \A i \in Places : At(K[r], i) # p
      BY <1>1, <1>6
    <2>8. Distinct(K2[r])
      BY <1>2, <2>1, <2>7, ConsDistinct
    <2>9. Distinct(K2[x])
      BY <1>2, <1>3, <2>1, TailDistinct
    <2> QED  BY <2>2, <2>3, <2>4, <2>5, <2>6, <2>8, <2>9
  <1> HIDE DEF K2
  <1>8. Linked \subseteq Procs
    BY LinkedAt
  <1>9. /\ \A q \in Procs : parent'[q] = IF q = p THEN r ELSE parent[q]
        /\ \A q \in Procs : optr'[q] = IF q = p THEN cptr[r] ELSE optr[q]
        /\ \A q \in Procs : yptr'[q] = IF q = p THEN NULL ELSE IF q = cptr[r] THEN p ELSE yptr[q]
        /\ \A q \in All : cptr'[q] = IF q = r THEN p ELSE IF q = x THEN optr[p] ELSE cptr[q]
    <2>1. \A q \in Procs : parent'[q] = IF q = p THEN r ELSE parent[q]
      BY DEF ExitAdopt, TypeOK
    <2>2. \A q \in Procs : optr'[q] = IF q = p THEN cptr[r] ELSE optr[q]
      BY DEF ExitAdopt, TypeOK
    <2>3. p # cptr[r]
      BY <1>1, <1>2, <1>4, <1>6
    <2>4. yptr' = [q \in Procs |-> CASE q = p -> NULL
                                      [] q = cptr[r] -> p
                                      [] OTHER -> yptr[q]]
      BY DEF ExitAdopt
    <2>5. \A q \in Procs : yptr'[q] = IF q = p THEN NULL ELSE IF q = cptr[r] THEN p ELSE yptr[q]
      BY <2>3, <2>4
    <2>6. \A q \in All : cptr'[q] = IF q = r THEN p ELSE IF q = x THEN optr[p] ELSE cptr[q]
      BY <1>1 DEF ExitAdopt, TypeOK
    <2> QED  BY <2>1, <2>2, <2>5, <2>6
  <1>10. optr[p] = At(K[x], 2) /\ parent[p] = x /\ p \in Linked
    <2>1. 1 + 1 = 2
      OBVIOUS
    <2> QED  BY <1>5, <2>1 DEF Placed
  <1>11. \A q \in All : Distinct(K2[q]) /\ cptr'[q] = At(K2[q], 1)
    <2>1. \A q \in All : Distinct(K[q]) /\ cptr[q] = At(K[q], 1)
      BY DEF Represents
    <2>2. At(K2[x], 1) = At(K[x], 2)
      BY <1>4, <1>7
    <2> QED  BY <1>1, <1>7, <1>9, <1>10, <2>1, <2>2
  <1>12. cptr[r] # NULL => parent[cptr[r]] = r /\ cptr[r] \in Procs
    BY <1>1, <1>2, <1>4, <1>8 DEF Represents, Placed
  <1>13. ASSUME NEW q \in All, NEW i \in Places, At(K2[q], i) # NULL
         PROVE  Placed(At(K2[q], i), q, K2[q], i)'
    <2>1. CASE q = r /\ i = 1
      <3>1. At(K2[r], i + 1) = cptr[r] /\ At(K2[r], i - 1) = NULL
        BY <1>2, <1>4, <1>7, <2>1
      <3> QED  BY <1>1, <1>7, <1>9, <1>10, <2>1, <3>1 DEF Placed
    <2>2. CASE q = r /\ i # 1
      <3> DEFINE j == i - 1
                 e == At(K[r], j)
      <3>1. j \in Places /\ i = j + 1 /\ At(K2[r], i) = e /\ At(K2[r], i + 1) = At(K[r], i)
        BY <1>4, <1>7, <2>2
      <3>2. /\ e \in Linked /\ parent[e] = r /\ e \in Procs /\ e # p
            /\ optr[e] = At(K[r], i) /\ yptr[e] = At(K[r], j - 1)
        <4>1. Placed(e, r, K[r], j)
          BY <1>1, <1>13, <2>2, <3>1 DEF Represents
        <4> QED  BY <1>1, <1>8, <1>10, <3>1, <4>1 DEF Placed
      <3>3. yptr'[e] = At(K2[r], i - 1)
        <4>1. CASE j = 1
          BY <1>2, <1>7, <1>9, <3>1, <3>2, <4>1
        <4>2. CASE j # 1
          <5>1. e # cptr[r]
            BY <1>2, <1>4, <1>13, <2>2, <3>1, <4>2 DEF Distinct
          <5>2. j - 1 \in Places /\ (j - 1) + 1 = i - 1
            BY <1>4, <3>1, <4>2
          <5>3. At(K2[r], i - 1) = At(K[r], j - 1)
            BY <1>7, <5>2
          <5> QED  BY <1>9, <3>2, <5>1, <5>3
        <4> QED  BY <4>1, <4>2
      <3> QED  BY <1>1, <1>9, <2>2, <3>1, <3>2, <3>3 DEF Placed
    <2>3. CASE q = x
      <3> DEFINE e == At(K[x], i + 1)
      <3>1. At(K2[x], i) = e /\ At(K2[x], i + 1) = At(K[x], (i + 1) + 1) /\ i + 1 \in Places
        BY <1>4, <1>7
      <3>2. /\ e \in Linked /\ parent[e] = x /\ e \in Procs /\ e # p /\ e # cptr[r]
            /\ optr[e] = At(K[x], (i + 1) + 1) /\ yptr[e] = At(K[x], i)
        <4>1. Placed(e, x, K[x], i + 1)
          BY <1>1, <1>13, <2>3, <3>1 DEF Represents
        <4>2. e # p
          BY <1>1, <1>2, <1>4, <3>1 DEF Distinct
        <4> QED  BY <1>1, <1>4, <1>8, <1>12, <1>13, <2>3, <3>1, <4>1, <4>2 DEF Placed
      <3>3. i # 1 => At(K2[x], i - 1) = At(K[x], i)
        BY <1>4, <1>7
      <3> QED  BY <1>1, <1>9, <2>3, <3>1, <3>2, <3>3 DEF Placed
    <2>4. CASE q # r /\ q # x
      <3> DEFINE e == At(K[q], i)
      <3>1. K2[q] = K[q] /\ At(K2[q], i) = e
        BY <1>7, <2>4
      <3>2. /\ e \in Linked /\ parent[e] = q /\ e \in Procs /\ e # p /\ e # cptr[r]
            /\ optr[e] = At(K[q], i + 1) /\ yptr[e] = At(K[q], i - 1)
        <4>1. Placed(e, q, K[q], i)
          BY <1>13, <3>1 DEF Represents
        <4> QED  BY <1>8, <1>10, <1>12, <1>13, <2>4, <3>1, <4>1 DEF Placed
      <3> QED  BY <1>1, <1>9, <2>4, <3>1, <3>2 DEF Placed
    <2> QED  BY <2>1, <2>2, <2>3, <2>4
  <1>14. ASSUME NEW q \in Linked'
         PROVE  parent'[q] \in All /\ \E i \in Places : At(K2[parent'[q]], i) = q
    <2>1. q \in Linked /\ q \in Procs
      BY <1>1, <1>8
    <2>2. PICK i \in Places : parent[q] \in All /\ At(K[parent[q]], i) = q
      BY <2>1 DEF Represents
    <2>3. CASE q = p
      BY <1>1, <1>4, <1>7, <1>9, <2>3
    <2>4. CASE q # p /\ parent[q] = x
      <3>1. i # 1
        BY <1>2, <2>2, <2>4
      <3>2. i - 1 \in Places /\ At(K2[x], i - 1) = q
        BY <1>4, <1>7, <2>2, <2>4, <3>1
      <3> QED  BY <1>1, <1>9, <2>1, <2>4, <3>2
    <2>5. CASE q # p /\ parent[q] = r
      <3>1. i + 1 \in Places /\ At(K2[r], i + 1) = q
        BY <1>4, <1>7, <2>2, <2>5
      <3> QED  BY <1>1, <1>9, <2>1, <2>5, <3>1
    <2>6. CASE q # p /\ parent[q] \notin {x, r}
      BY <1>7, <1>9, <2>1, <2>2, <2>6
    <2> QED  BY <2>3, <2>4, <2>5, <2>6
  <1>15. Represents(K2)'
    BY <1>7, <1>11, <1>13, <1>14 DEF Represents
  <1> QED  BY <1>3, <1>15 DEF K2

\* set_links puts c in front of proc_list, remove_links takes z out of it.
LEMMA SetLinksList ==
    ASSUME TypeOK, Population, NEW p \in Procs, NEW c \in Procs, SetLinks(p, c)
    PROVE  /\ proc_list' \in Seq(Procs) /\ Distinct(proc_list)'
           /\ Len(proc_list') = Len(proc_list) + 1
           /\ Linked' = Linked \cup {c}
  <1>1. proc_list' = <<c>> \o proc_list /\ proc_list \in Seq(Procs) /\ Distinct(proc_list) /\ c \notin Linked
    BY DEF SetLinks, TypeOK, Population
  <1>2. \A i \in Places : At(proc_list, i) # c
    BY <1>1, LinkedAt
  <1>3. /\ <<c>> \o proc_list \in Seq(Procs) /\ Distinct(<<c>> \o proc_list)
        /\ Len(<<c>> \o proc_list) = Len(proc_list) + 1
        /\ \A q \in Procs : (\E i \in Places : At(<<c>> \o proc_list, i) = q)
                             <=> q = c \/ \E i \in Places : At(proc_list, i) = q
    BY <1>1, <1>2, ConsLemma, ConsDistinct
  <1>4. Linked' = {q \in Procs : \E i \in Places : At(<<c>> \o proc_list, i) = q}
    <2> DEFINE new == <<c>> \o proc_list
    <2>1. Linked' = {new[i] : i \in DOMAIN new}
      BY <1>1 DEF Linked
    <2> HIDE DEF new
    <2>2. new \in Seq(Procs)
      BY <1>3 DEF new
    <2>3. {new[i] : i \in DOMAIN new} = {q \in Procs : \E i \in Places : At(new, i) = q}
      BY <2>2, ElementsAt
    <2> QED  BY <2>1, <2>3 DEF new
  <1>5. Linked' = Linked \cup {c}
    BY <1>1, <1>3, <1>4, LinkedAt
  <1> QED  BY <1>1, <1>3, <1>5

LEMMA ReapList ==
    ASSUME TypeOK, Population, NEW z \in Procs, Reap(z)
    PROVE  /\ proc_list' \in Seq(Procs) /\ Distinct(proc_list)'
           /\ Len(proc_list') = Len(proc_list) - 1
           /\ Linked' = Linked \ {z}
  <1>1. proc_list \in Seq(Procs) /\ Distinct(proc_list)
    BY DEF TypeOK, Population
  <1>2. PICK i \in DOMAIN proc_list : proc_list[i] = z /\ proc_list' = RemoveAt(proc_list, i)
    BY DEF Reap, RemoveLinks, Unlist
  <1>3. i \in 1 .. Len(proc_list)
    BY <1>1, <1>2
  <1>4. /\ RemoveAt(proc_list, i) \in Seq(Procs) /\ Distinct(RemoveAt(proc_list, i))
        /\ Len(RemoveAt(proc_list, i)) = Len(proc_list) - 1
        /\ \A q \in Procs : (\E j \in Places : At(RemoveAt(proc_list, i), j) = q)
                             <=> q # z /\ \E j \in Places : At(proc_list, j) = q
    BY <1>1, <1>2, <1>3, RemoveLemma, RemoveDistinct
  <1>5. Linked' = {q \in Procs : \E j \in Places : At(proc_list', j) = q}
    BY <1>2, <1>4, ElementsAt DEF Linked
  <1>6. Linked' = Linked \ {z}
    BY <1>2, <1>4, <1>5, LinkedAt
  <1> QED  BY <1>2, <1>4, <1>6

\* Where the parent of z has z.
LEMMA Place ==
    ASSUME TypeOK, Population, NEW K \in [All -> Seq(Procs)], Represents(K),
           NEW z \in Procs, Reap(z)
    PROVE  parent[z] \in Procs /\ \E k \in Places : At(K[parent[z]], k) = z
  BY DEF Reap, TypeOK, Represents

LEMMA SetLinksInv ==
    ASSUME Inv, NEW p \in Procs, NEW c \in Procs, SetLinks(p, c)
    PROVE  Inv'
  <1>1. TypeOK /\ Population /\ NoChildOfTheDead /\ Rooted
    BY DEF Inv
  <1>2. PICK K \in [All -> Seq(Procs)] : Represents(K)
    BY DEF Inv
  <1>3. /\ proc_list' \in Seq(Procs) /\ Distinct(proc_list)'
        /\ Len(proc_list') = Len(proc_list) + 1 /\ Linked' = Linked \cup {c}
    BY <1>1, SetLinksList
  <1>4. /\ p \in live /\ c \notin Linked /\ c # initproc /\ p # c /\ c # NULL
        /\ current = NULL /\ current' = NULL /\ live' = live \cup {c}
        /\ nr_process' = nr_process + 1 /\ Len(proc_list) \in Nat
        /\ parent' = [parent EXCEPT ![c] = p] /\ Linked \subseteq Procs
    BY <1>1, FamilyAssumption, LinkedAt DEF SetLinks, Population, TypeOK
  <1>5. TypeOK'
    <2>1. parent' \in [Procs -> All \cup {NULL}]
      BY <1>1, <1>4 DEF TypeOK, All
    <2>2. cptr' \in [All -> Procs \cup {NULL}]
      BY <1>1 DEF TypeOK, SetLinks, All
    <2>3. optr' \in [Procs -> Procs \cup {NULL}]
      BY <1>1 DEF TypeOK, SetLinks, All
    <2>4. yptr' \in [Procs -> Procs \cup {NULL}]
      <3>1. yptr' = [q \in Procs |-> CASE q = c -> NULL
                                        [] q = cptr[p] -> c
                                        [] OTHER -> yptr[q]]
        BY DEF SetLinks
      <3>2. ASSUME NEW q \in Procs PROVE yptr'[q] \in Procs \cup {NULL}
        <4>1. CASE q = c /\ q = cptr[p]
          <5>1. yptr'[q] \in {NULL, c}
            BY <3>1, <4>1
          <5> QED  BY <5>1
        <4>2. CASE ~(q = c /\ q = cptr[p])
          BY <1>1, <3>1, <4>2 DEF TypeOK
        <4> QED  BY <4>1, <4>2
      <3> QED  BY <3>1, <3>2
    <2> QED  BY <1>1, <1>3, <1>4, <2>1, <2>2, <2>3, <2>4 DEF TypeOK
  <1>6. Population'
    <2>1. parent'[initproc] = idleproc
      BY <1>1, <1>4, FamilyAssumption DEF Population, TypeOK
    <2> QED  BY <1>1, <1>3, <1>4, <2>1 DEF Population
  <1>7. NoChildOfTheDead'
    BY <1>1, <1>3, <1>4 DEF NoChildOfTheDead, TypeOK
  <1>8. Rooted'
    <2> SUFFICES ASSUME NEW S \in SUBSET (Linked' \ {initproc}), S # {}
                 PROVE  \E q \in S : parent'[q] \notin S
      BY DEF Rooted
    <2>1. \A q \in Procs : parent'[q] = IF q = c THEN p ELSE parent[q]
      BY <1>1, <1>4 DEF TypeOK
    <2>2. p \in Linked
      BY <1>1, <1>4 DEF Population
    <2>3. CASE S = {c}
      BY <1>4, <2>1, <2>3
    <2>4. CASE S # {c}
      <3>1. PICK q \in S \ {c} : parent[q] \notin S \ {c}
        <4>1. S \ {c} # {} /\ S \ {c} \in SUBSET (Linked \ {initproc})
          BY <1>3, <2>4
        <4> QED  BY <1>1, <4>1 DEF Rooted
      <3>2. q \in Linked \ {initproc}
        BY <1>3
      <3>3. parent[q] # c
        BY <1>1, <1>4, <3>2 DEF NoChildOfTheDead, Population
      <3> QED  BY <1>4, <2>1, <3>1, <3>2, <3>3
    <2> QED  BY <2>3, <2>4
  <1> DEFINE K2 == [K EXCEPT ![p] = <<c>> \o @]
  <1>9. Represents(K2)'
    BY <1>1, <1>2, <1>3, SetLinksLists
  <1> HIDE DEF K2
  <1>10. K2 \in [All -> Seq(Procs)]
    BY <1>9 DEF Represents
  <1> QED  BY <1>10, <1>5, <1>6, <1>7, <1>8, <1>9 DEF Inv

LEMMA ReapInv ==
    ASSUME Inv, NEW z \in Procs, Reap(z)
    PROVE  Inv'
  <1>1. TypeOK /\ Population /\ NoChildOfTheDead /\ Rooted
    BY DEF Inv
  <1>2. PICK K \in [All -> Seq(Procs)] : Represents(K)
    BY DEF Inv
  <1>3. /\ proc_list' \in Seq(Procs) /\ Distinct(proc_list)'
        /\ Len(proc_list') = Len(proc_list) - 1 /\ Linked' = Linked \ {z}
    BY <1>1, ReapList
  <1>4. /\ z \notin live /\ current = NULL /\ current' = NULL /\ live' = live
        /\ nr_process' = nr_process - 1 /\ Len(proc_list) \in Nat
        /\ parent' = parent /\ Linked \subseteq Procs
    BY <1>1, LinkedAt DEF Reap, RemoveLinks, TypeOK
  <1>5. TypeOK'
    <2>1. optr[z] \in Procs \cup {NULL} /\ yptr[z] \in Procs \cup {NULL}
      BY <1>1 DEF TypeOK
    <2>2. /\ yptr' = [q \in Procs |-> IF q = optr[z] THEN yptr[z] ELSE yptr[q]]
          /\ optr' = [q \in Procs |-> IF q = yptr[z] THEN optr[z] ELSE optr[q]]
          /\ cptr' = IF yptr[z] = NULL THEN [cptr EXCEPT ![parent[z]] = optr[z]] ELSE cptr
      BY DEF Reap, RemoveLinks
    <2> QED  BY <1>1, <1>3, <1>4, <2>1, <2>2 DEF TypeOK
  <1>6. Population'
    BY <1>1, <1>3, <1>4 DEF Population
  <1>7. NoChildOfTheDead'
    BY <1>1, <1>3, <1>4 DEF NoChildOfTheDead
  <1>8. Rooted'
    <2> SUFFICES ASSUME NEW S \in SUBSET (Linked' \ {initproc}), S # {}
                 PROVE  \E q \in S : parent'[q] \notin S
      BY DEF Rooted
    <2>1. S \in SUBSET (Linked \ {initproc})
      BY <1>3
    <2> QED  BY <1>1, <1>4, <2>1 DEF Rooted
  <1>9. PICK p \in Procs, k \in Places : p = parent[z] /\ At(K[p], k) = z
    BY <1>1, <1>2, Place
  <1> DEFINE K2 == [K EXCEPT ![p] = RemoveAt(@, k)]
  <1>10. Represents(K2)'
    BY <1>1, <1>2, <1>3, <1>9, ReapLists
  <1> HIDE DEF K2
  <1>11. K2 \in [All -> Seq(Procs)]
    BY <1>10 DEF Represents
  <1> QED  BY <1>11, <1>5, <1>6, <1>7, <1>8, <1>10 DEF Inv

LEMMA ExitBeginInv ==
    ASSUME Inv, NEW p \in Procs, ExitBegin(p)
    PROVE  Inv'
  <1>1. TypeOK /\ Population /\ NoChildOfTheDead /\ Rooted
    BY DEF Inv
  <1>2. PICK K \in [All -> Seq(Procs)] : Represents(K)
    BY DEF Inv
  <1>3. /\ proc_list' = proc_list /\ parent' = parent /\ cptr' = cptr /\ optr' = optr
        /\ yptr' = yptr /\ nr_process' = nr_process /\ Linked' = Linked
        /\ current = NULL /\ current' = p /\ live' = live \ {p} /\ p \in live
        /\ p # initproc /\ p # NULL
    BY FamilyAssumption DEF ExitBegin, pointers, Linked
  <1>4. TypeOK'
    BY <1>1, <1>3 DEF TypeOK
  <1>5. Population'
    BY <1>1, <1>3 DEF Population
  <1>6. NoChildOfTheDead'
    <2>1. \A q \in Linked \ {initproc} : parent[q] \in live
      <3>1. \A q \in Linked \ {initproc} : parent[q] \in live \/ parent[q] = NULL
        BY <1>1, <1>3 DEF NoChildOfTheDead
      <3>2. \A q \in Linked : parent[q] # NULL
        BY <1>2, FamilyAssumption DEF Represents, All
      <3> QED  BY <3>1, <3>2
    <2> QED  BY <1>3, <2>1 DEF NoChildOfTheDead
  <1>7. Rooted'
    BY <1>1, <1>3 DEF Rooted
  <1>8. Represents(K)'
    <2>1. ASSUME NEW q \in All, NEW i \in Places, At(K[q], i) # NULL
          PROVE  Placed(At(K[q], i), q, K[q], i)'
      <3>1. Placed(At(K[q], i), q, K[q], i) /\ q # current
        <4>1. q # current
          BY <1>3, FamilyAssumption DEF All
        <4> QED  BY <1>2, <2>1, <4>1 DEF Represents
      <3> QED  BY <1>3, <3>1 DEF Placed
    <2> QED  BY <1>2, <1>3, <2>1 DEF Represents
  <1> QED  BY <1>4, <1>5, <1>6, <1>7, <1>8 DEF Inv

LEMMA ExitAdoptInv ==
    ASSUME Inv, ExitAdopt
    PROVE  Inv'
  <1>1. TypeOK /\ Population /\ NoChildOfTheDead /\ Rooted
    BY DEF Inv
  <1>2. PICK K \in [All -> Seq(Procs)] : Represents(K)
    BY DEF Inv
  <1>3. current \in Procs /\ cptr[current] \in Procs
    BY <1>1 DEF TypeOK, ExitAdopt, All
  <1>4. PICK x \in Procs, p \in Procs : x = current /\ p = cptr[x]
    BY <1>3
  <1>5. /\ proc_list' = proc_list /\ Linked' = Linked /\ nr_process' = nr_process
        /\ live' = live /\ current' = current /\ parent' = [parent EXCEPT ![p] = initproc]
    BY <1>4 DEF ExitAdopt, Linked
  <1>6. Linked \subseteq Procs /\ initproc \in live /\ p # initproc
    <2>1. parent[p] = x /\ x # idleproc
      <3>1. At(K[x], 1) = p /\ p # NULL /\ x \in All /\ 1 \in Places
        BY <1>2, <1>4, FamilyAssumption DEF Represents, All, Places
      <3> QED  BY <1>2, <3>1, FamilyAssumption DEF Represents, Placed
    <2> QED  BY <1>1, <2>1, LinkedAt DEF Population
  <1>7. \A q \in Procs : parent'[q] = IF q = p THEN initproc ELSE parent[q]
    BY <1>1, <1>5 DEF TypeOK
  <1>8. TypeOK'
    <2>1. optr[p] \in Procs \cup {NULL} /\ cptr[initproc] \in Procs \cup {NULL}
      BY <1>1, FamilyAssumption DEF TypeOK, All
    <2>2. cptr' \in [All -> Procs \cup {NULL}] /\ optr' \in [Procs -> Procs \cup {NULL}]
      BY <1>1, <1>4, <2>1 DEF TypeOK, ExitAdopt, All
    <2>3. yptr' \in [Procs -> Procs \cup {NULL}]
      <3>1. yptr' = [q \in Procs |-> CASE q = p -> NULL
                                        [] q = cptr[initproc] -> p
                                        [] OTHER -> yptr[q]]
        BY <1>4 DEF ExitAdopt
      <3>2. ASSUME NEW q \in Procs PROVE yptr'[q] \in Procs \cup {NULL}
        <4>1. CASE q = p /\ q = cptr[initproc]
          <5>1. yptr'[q] \in {NULL, p}
            BY <3>1, <4>1
          <5> QED  BY <5>1
        <4>2. CASE ~(q = p /\ q = cptr[initproc])
          BY <1>1, <3>1, <4>2 DEF TypeOK
        <4> QED  BY <4>1, <4>2
      <3> QED  BY <3>1, <3>2
    <2>4. parent' \in [Procs -> All \cup {NULL}]
      BY <1>1, <1>5, FamilyAssumption DEF TypeOK, All
    <2> QED  BY <1>1, <1>5, <2>2, <2>3, <2>4 DEF TypeOK
  <1>9. Population'
    BY <1>1, <1>5, <1>6, <1>7, FamilyAssumption DEF Population
  <1>10. NoChildOfTheDead'
    BY <1>1, <1>5, <1>6, <1>7 DEF NoChildOfTheDead
  <1>11. Rooted'
    <2> SUFFICES ASSUME NEW S \in SUBSET (Linked \ {initproc}), S # {}
                 PROVE  \E q \in S : parent'[q] \notin S
      BY <1>5 DEF Rooted
    <2>1. CASE p \in S
      BY <1>7, <2>1
    <2>2. CASE p \notin S
      <3>1. PICK q \in S : parent[q] \notin S
        BY <1>1 DEF Rooted
      <3> QED  BY <1>6, <1>7, <2>2, <3>1
    <2> QED  BY <2>1, <2>2
  <1> DEFINE K2 == [K EXCEPT ![x] = Tail(@), ![initproc] = <<p>> \o @]
  <1>12. Represents(K2)'
    BY <1>1, <1>2, <1>4, AdoptLists
  <1> HIDE DEF K2
  <1>13. K2 \in [All -> Seq(Procs)]
    BY <1>12 DEF Represents
  <1> QED  BY <1>8, <1>9, <1>10, <1>11, <1>12, <1>13 DEF Inv

LEMMA ExitEndInv ==
    ASSUME Inv, ExitEnd
    PROVE  Inv'
  <1>1. TypeOK /\ Population /\ NoChildOfTheDead /\ Rooted
    BY DEF Inv
  <1>2. PICK K \in [All -> Seq(Procs)] : Represents(K)
    BY DEF Inv
  <1>3. /\ proc_list' = proc_list /\ parent' = parent /\ cptr' = cptr /\ optr' = optr
        /\ yptr' = yptr /\ nr_process' = nr_process /\ Linked' = Linked
        /\ current \in Procs /\ cptr[current] = NULL /\ current' = NULL /\ live' = live
    BY <1>1 DEF ExitEnd, pointers, Linked, TypeOK
  <1>4. \A i \in Places : At(K[current], i) = NULL
    <2>1. K[current] \in Seq(Procs) /\ At(K[current], 1) = NULL
      BY <1>2, <1>3 DEF Represents, All
    <2>2. K[current] = <<>>
      BY <2>1, EmptyAt
    <2> QED  BY <2>2 DEF At, Places
  <1>5. TypeOK'
    BY <1>1, <1>3 DEF TypeOK
  <1>6. Population'
    <2>1. NULL \notin live
      BY <1>1, FamilyAssumption DEF TypeOK
    <2> QED  BY <1>1, <1>3, <2>1 DEF Population
  <1>7. NoChildOfTheDead'
    <2>1. ASSUME NEW q \in Linked PROVE parent[q] # current
      BY <1>2, <1>4, FamilyAssumption, LinkedAt, <1>1 DEF Represents
    <2> QED  BY <1>1, <1>3, <2>1 DEF NoChildOfTheDead
  <1>8. Rooted'
    BY <1>1, <1>3 DEF Rooted
  <1>9. Represents(K)'
    <2>1. ASSUME NEW q \in All, NEW i \in Places, At(K[q], i) # NULL
          PROVE  Placed(At(K[q], i), q, K[q], i)'
      <3>1. Placed(At(K[q], i), q, K[q], i) /\ q # current
        BY <1>2, <1>4, <2>1 DEF Represents
      <3> QED  BY <1>3, <3>1 DEF Placed
    <2> QED  BY <1>2, <1>3, <2>1 DEF Represents
  <1> QED  BY <1>5, <1>6, <1>7, <1>8, <1>9 DEF Inv

LEMMA StepInv == Inv /\ [Next]_vars => Inv'
  <1> SUFFICES ASSUME Inv, [Next]_vars PROVE Inv'
    OBVIOUS
  <1>1. ASSUME NEW p \in Procs, NEW c \in Procs, SetLinks(p, c) PROVE Inv'
    BY <1>1, SetLinksInv
  <1>2. ASSUME NEW p \in Procs, Reap(p) PROVE Inv'
    BY <1>2, ReapInv
  <1>3. ASSUME NEW p \in Procs, ExitBegin(p) PROVE Inv'
    BY <1>3, ExitBeginInv
  <1>4. CASE ExitAdopt
    BY <1>4, ExitAdoptInv
  <1>5. CASE ExitEnd
    BY <1>5, ExitEndInv
  <1>6. CASE UNCHANGED vars
    <2>1. PICK K \in [All -> Seq(Procs)] : Represents(K)
      BY DEF Inv
    <2>2. Linked' = Linked
      BY <1>6 DEF vars, Linked
    <2>3. Represents(K)'
      BY <1>6, <2>1, <2>2 DEF vars, pointers, Represents, Placed
    <2>4. TypeOK' /\ Population' /\ NoChildOfTheDead' /\ Rooted'
      BY <1>6, <2>2 DEF Inv, vars, pointers, TypeOK, Population, NoChildOfTheDead, Rooted
    <2> QED  BY <2>3, <2>4 DEF Inv
  <1> QED  BY <1>1, <1>2, <1>3, <1>4, <1>5, <1>6 DEF Next

\* The pointers are lists, and stay so between two turns of the loop of do_exit.
THEOREM FamilyInvariance == Spec => []Inv
  <1> QED  BY InitInv, StepInv, PTL DEF Spec

----------------------------------------------------------------------------
(* The walk of do_wait finds the lists.                                    *)

LEMMA LeastNat ==
    ASSUME NEW S \in SUBSET Nat, S # {}
    PROVE  \E n \in S : \A m \in S : n <= m
  <1> DEFINE R == {ss \in Nat \X Nat : ss[1] < ss[2]}
  <1>1. IsWellFoundedOn(R, Nat)
    BY NatLessThanWellFounded DEF OpToRel
  <1> HIDE DEF R
  <1>2. PICK n \in S : \A m \in S : <<m, n>> \notin R
    BY <1>1, WFMin
  <1>3. \A m \in S : ~(m < n)
    BY <1>2 DEF R
  <1> QED  BY <1>3

\* Induction, as a fact about sets.
LEMMA SetInduction ==
    ASSUME NEW S, 0 \in S, \A n \in Nat : n \in S => n + 1 \in S
    PROVE  \A n \in Nat : n \in S
  <1> DEFINE T == {n \in Nat : n \notin S}
  <1>1. SUFFICES ASSUME T # {} PROVE FALSE
    OBVIOUS
  <1>2. PICK n \in T : \A m \in T : n <= m
    BY <1>1, LeastNat
  <1>3. n - 1 \in Nat /\ n - 1 \notin T
    BY <1>2
  <1> QED  BY <1>2, <1>3

\* A list without repetition has no more entries than there are processes.
LEMMA ShortList ==
    ASSUME NEW s \in Seq(Procs), Distinct(s)
    PROVE  /\ Cardinality(Procs) \in Nat
           /\ Len(s) \in Nat
           /\ Len(s) <= Cardinality(Procs)
  <1> DEFINE n == Cardinality(Procs)
             m == Len(s)
  <1>1. n \in Nat /\ IsFiniteSet(Procs) /\ m \in Nat
    BY FamilyAssumption, FS_CardinalityType
  <1>2. IsFiniteSet(1 .. m) /\ Cardinality(1 .. m) = m
    <2>1. IsFiniteSet(1 .. m) /\ Cardinality(1 .. m) = IF 1 > m THEN 0 ELSE m - 1 + 1
      <3>1. 1 \in Int /\ m \in Int
        BY <1>1
      <3> HIDE DEF m
      <3> QED  BY <3>1, FS_Interval
    <2> QED  BY <1>1, <2>1
  <1>3. ASSUME n < m PROVE FALSE
    <2>1. s \in [1 .. m -> Procs]
      OBVIOUS
    <2>2. PICK i \in 1 .. m, j \in 1 .. m : i # j /\ s[i] = s[j]
      BY <1>1, <1>2, <1>3, <2>1, FS_PigeonHole
    <2>3. i \in Places /\ j \in Places /\ At(s, i) = s[i] /\ At(s, j) = s[j] /\ s[i] # NULL
      BY <2>1, FamilyAssumption DEF At, Places
    <2> QED  BY <2>2, <2>3 DEF Distinct
  <1> QED  BY <1>1, <1>3

\* The recursion of the walk, which the list p has solves.
LEMMA StepsList ==
    ASSUME NEW K \in [All -> Seq(Procs)], Represents(K), NEW p \in All
    PROVE  Steps(p) = [i \in 1 .. Cardinality(Procs) + 1 |-> At(K[p], i)]
  <1> DEFINE n == Cardinality(Procs)
             L == K[p]
             W == [i \in 1 .. n + 1 |-> At(L, i)]
             w == Steps(p)
  <1>1. L \in Seq(Procs) /\ Distinct(L) /\ cptr[p] = At(L, 1)
    BY DEF Represents
  <1>2. n \in Nat
    BY FamilyAssumption, FS_CardinalityType
  <1>3. \A i \in Places : At(L, i + 1) = IF At(L, i) = NULL THEN NULL ELSE optr[At(L, i)]
    <2>1. ASSUME NEW i \in Places, At(L, i) # NULL PROVE optr[At(L, i)] = At(L, i + 1)
      BY <2>1 DEF Represents, Placed
    <2>2. ASSUME NEW i \in Places, At(L, i) = NULL PROVE At(L, i + 1) = NULL
      <3>1. Len(L) \in Nat /\ i \notin 1 .. Len(L)
        BY <1>1, <2>2, FamilyAssumption DEF At
      <3>2. i + 1 \notin 1 .. Len(L)
        BY <3>1 DEF Places
      <3> QED  BY <3>2 DEF At
    <2> QED  BY <2>1, <2>2
  <1> HIDE DEF n, L
  <1>4. W = [i \in 1 .. n + 1 |-> IF i = 1 THEN cptr[p]
                                ELSE IF W[i - 1] = NULL THEN NULL ELSE optr[W[i - 1]]]
    <2>1. ASSUME NEW i \in 1 .. n + 1, i # 1
          PROVE  At(L, i) = IF W[i - 1] = NULL THEN NULL ELSE optr[W[i - 1]]
      <3>1. i - 1 \in Places /\ i - 1 \in 1 .. n + 1 /\ (i - 1) + 1 = i
        BY <1>2, <2>1 DEF Places
      <3>2. W[i - 1] = At(L, i - 1)
        BY <3>1
      <3> HIDE DEF W
      <3> QED  BY <1>3, <3>1, <3>2
    <2> QED  BY <1>1, <2>1
  <1>5. w = [i \in 1 .. n + 1 |-> IF i = 1 THEN cptr[p]
                                ELSE IF w[i - 1] = NULL THEN NULL ELSE optr[w[i - 1]]]
    <2> HIDE DEF W
    <2> QED  BY <1>4 DEF Steps, n
  <1> HIDE DEF w
  <1> DEFINE S == {i \in Nat : i \in 1 .. n + 1 => w[i] = At(L, i)}
  <1>6. 0 \in S
    OBVIOUS
  <1>7. ASSUME NEW i \in Nat, i \in S PROVE i + 1 \in S
    <2>1. SUFFICES ASSUME i + 1 \in 1 .. n + 1 PROVE w[i + 1] = At(L, i + 1)
      OBVIOUS
    <2>2. CASE i = 0
      <3>1. i + 1 = 1
        BY <2>2
      <3> QED  BY <1>1, <1>5, <2>1, <3>1
    <2>3. CASE i # 0
      <3>1. i + 1 # 1 /\ (i + 1) - 1 = i /\ i \in 1 .. n + 1 /\ i \in Places
        BY <1>2, <2>1, <2>3 DEF Places
      <3>2. w[i + 1] = IF w[i] = NULL THEN NULL ELSE optr[w[i]]
        BY <1>5, <2>1, <3>1
      <3> QED  BY <1>3, <1>7, <3>1, <3>2
    <2> QED  BY <2>2, <2>3
  <1>8. \A i \in Nat : i \in S
    <2> HIDE DEF S
    <2> QED  BY <1>6, <1>7, SetInduction
  <1>9. \A i \in 1 .. n + 1 : w[i] = At(L, i)
    BY <1>2, <1>8
  <1>10. w = W
    BY <1>5, <1>9
  <1> QED  BY <1>10 DEF W, w, n, L

LEMMA WalkList ==
    ASSUME NEW K \in [All -> Seq(Procs)], Represents(K), NEW p \in All
    PROVE  Walk(p) = K[p]
  <1> DEFINE n == Cardinality(Procs)
             L == K[p]
             m == Len(L)
             w == Steps(p)
             ends == {i \in DOMAIN w : w[i] = NULL}
  <1>1. L \in Seq(Procs) /\ Distinct(L)
    BY DEF Represents
  <1>2. n \in Nat /\ m \in Nat /\ m <= n
    BY <1>1, ShortList
  <1>3. w = [i \in 1 .. n + 1 |-> At(L, i)]
    BY StepsList
  <1> HIDE DEF w
  <1>4. \A i \in 1 .. n + 1 : w[i] = IF i \in 1 .. m THEN L[i] ELSE NULL
    BY <1>3 DEF At
  <1>5. \A i \in 1 .. m : L[i] # NULL
    BY <1>1, FamilyAssumption
  <1> HIDE DEF L, m, n
  <1>6. ends = (m + 1) .. (n + 1)
    <2>1. DOMAIN w = 1 .. n + 1
      BY <1>3
    <2>2. \A i \in 1 .. n + 1 : w[i] = NULL <=> i \notin 1 .. m
      BY <1>4, <1>5
    <2>3. \A i : i \in (m + 1) .. (n + 1) <=> i \in 1 .. n + 1 /\ i \notin 1 .. m
      BY <1>2
    <2> QED  BY <2>1, <2>2, <2>3
  <1> HIDE DEF ends
  <1>7. ends # {} /\ Min(ends) - 1 = m
    <2>1. m + 1 \in ends /\ \A i \in ends : i \in Int /\ m + 1 <= i
      BY <1>2, <1>6
    <2>2. Min(ends) \in ends /\ \A i \in ends : Min(ends) <= i
      BY <2>1 DEF Min
    <2> QED  BY <1>2, <2>1, <2>2
  <1>8. Walk(p) = [i \in 1 .. m |-> w[i]]
    BY <1>7 DEF Walk, w, ends
  <1>9. \A i \in 1 .. m : w[i] = L[i]
    BY <1>2, <1>4
  <1>10. L = [i \in 1 .. m |-> L[i]]
    BY <1>1 DEF m
  <1> QED  BY <1>8, <1>9, <1>10 DEF L

----------------------------------------------------------------------------
(* The properties.                                                         *)

\* Whatever the family pointers are after forks, exits and reaps, in every order
\* and between two turns of the loop of do_exit: siblings face each other and
\* hang below one parent, do_wait meets each child once, nobody hangs below the
\* dead, and init_main finds the lists empty that it asserts.
THEOREM FamilyWellLinked == Spec => []WellLinked
  <1>1. Inv => WellLinked
    <2> SUFFICES ASSUME Inv PROVE WellLinked
      OBVIOUS
    <2>1. TypeOK /\ Population /\ NoChildOfTheDead /\ Rooted
      BY DEF Inv
    <2>2. PICK K \in [All -> Seq(Procs)] : Represents(K)
      BY DEF Inv
    <2>3. /\ 1 \in Places
          /\ \A i \in Places : /\ i + 1 \in Places /\ i + 1 # 1 /\ (i + 1) - 1 = i /\ i + 1 # i
                               /\ i = 1 \/ (i - 1 \in Places /\ (i - 1) + 1 = i)
      BY DEF Places
    <2>4. Linked \subseteq Procs /\ NULL \notin Procs /\ idleproc # NULL
      BY <2>1, LinkedAt, FamilyAssumption
    <2>5. \A p \in All : Distinct(K[p]) /\ cptr[p] = At(K[p], 1) /\ At(K[p], 0) = NULL
      BY <2>2 DEF Represents, At
    <2>6. \A p \in All, i \in Places :
             At(K[p], i) # NULL => Placed(At(K[p], i), p, K[p], i)
      BY <2>2 DEF Represents
    <2>7. \A q \in Linked : parent[q] \in All /\ \E i \in Places : At(K[parent[q]], i) = q
      BY <2>2 DEF Represents
    <2>8. ASSUME NEW p \in Linked
          PROVE  /\ optr[p] # NULL =>
                      /\ optr[p] \in Linked \ {p}
                      /\ yptr[optr[p]] = p
                      /\ parent[optr[p]] = parent[p]
                 /\ ~StaleYptr(p) =>
                      IF yptr[p] = NULL
                      THEN cptr[parent[p]] = p
                      ELSE /\ yptr[p] \in Linked
                           /\ optr[yptr[p]] = p
      <3>1. PICK i \in Places : At(K[parent[p]], i) = p
        BY <2>7
      <3>2. PICK r \in All : r = parent[p]
        BY <2>7
      <3>3. At(K[r], i) = p /\ p # NULL /\ Placed(p, r, K[r], i)
        BY <2>4, <2>6, <3>1, <3>2
      <3>4. ASSUME optr[p] # NULL
            PROVE  optr[p] \in Linked \ {p} /\ yptr[optr[p]] = p /\ parent[optr[p]] = r
        <4>1. optr[p] = At(K[r], i + 1) /\ Placed(optr[p], r, K[r], i + 1)
          BY <2>3, <2>6, <3>3, <3>4 DEF Placed
        <4>2. optr[p] # p
          BY <2>3, <2>5, <3>3, <4>1 DEF Distinct
        <4> QED  BY <2>3, <3>3, <4>1, <4>2 DEF Placed
      <3>5. ASSUME ~StaleYptr(p)
            PROVE  IF yptr[p] = NULL
                   THEN cptr[r] = p
                   ELSE yptr[p] \in Linked /\ optr[yptr[p]] = p
        <4>1. yptr[p] = At(K[r], i - 1)
          <5>1. i # 1 \/ r # current
            <6>1. CASE i = 1
              <7>1. cptr[r] = p
                BY <2>5, <3>3, <6>1
              <7>2. r = current => current # NULL /\ p = cptr[current]
                BY <2>4, <7>1 DEF All
              <7> QED  BY <3>5, <7>2 DEF StaleYptr
            <6> QED  BY <6>1
          <5> QED  BY <3>3, <5>1 DEF Placed
        <4>2. CASE i = 1
          BY <2>5, <3>3, <4>1, <4>2
        <4>3. CASE i # 1
          <5>1. i - 1 \in Places /\ (i - 1) + 1 = i
            BY <2>3, <4>3
          <5>2. At(K[r], i - 1) # NULL
            BY <3>3, <4>3, NoGap
          <5> QED  BY <2>6, <3>3, <4>1, <5>1, <5>2 DEF Placed
        <4> QED  BY <4>2, <4>3
      <3> QED  BY <3>2, <3>4, <3>5
    <2>9. ASSUME NEW p \in Linked \cup {idleproc}, cptr[p] # NULL
          PROVE  /\ cptr[p] \in Linked
                 /\ parent[cptr[p]] = p
                 /\ p # current => yptr[cptr[p]] = NULL
      <3>1. p \in All
        BY <2>4 DEF All
      <3>2. Placed(cptr[p], p, K[p], 1) /\ 1 - 1 = 0
        BY <2>3, <2>5, <2>6, <2>9, <3>1
      <3> QED  BY <2>5, <3>1, <3>2 DEF Placed
    <2>10. SiblingsLinked
      BY <2>8, <2>9 DEF SiblingsLinked
    <2>11. WalkFindsChildren
      <3> SUFFICES ASSUME NEW p \in Linked \cup {idleproc}
                   PROVE  /\ IsInjective(Walk(p))
                          /\ ToSet(Walk(p)) = {q \in Linked : parent[q] = p}
        BY DEF WalkFindsChildren
      <3>1. p \in All
        BY <2>4 DEF All
      <3>2. Walk(p) = K[p] /\ K[p] \in Seq(Procs)
        BY <2>2, <3>1, WalkList
      <3>3. \A i \in 1 .. Len(K[p]) : i \in Places /\ At(K[p], i) = K[p][i] /\ K[p][i] # NULL
        BY <2>4, <3>2 DEF At, Places
      <3>4. IsInjective(K[p])
        BY <2>5, <3>1, <3>2, <3>3 DEF IsInjective, Distinct
      <3>5. ToSet(K[p]) = {q \in Procs : \E i \in Places : At(K[p], i) = q}
        BY <3>2, ElementsAt DEF ToSet
      <3>6. \A q \in Procs : (\E i \in Places : At(K[p], i) = q) <=> q \in Linked /\ parent[q] = p
        BY <2>4, <2>6, <2>7, <3>1 DEF Placed
      <3> QED  BY <2>4, <3>2, <3>4, <3>5, <3>6
    <2>12. InitAssertions
      <3> SUFFICES ASSUME cptr[initproc] = NULL, current = NULL
                   PROVE  /\ yptr[initproc] = NULL
                          /\ optr[initproc] = NULL
                          /\ nr_process = 2
                          /\ proc_list = <<initproc>>
        BY DEF InitAssertions
      <3>1. initproc \in Linked /\ parent[initproc] = idleproc /\ idleproc \in All
            /\ initproc \in All /\ idleproc # current
        BY <2>1, <2>4 DEF Population, All
      <3>2. Linked = {initproc}
        <4>1. SUFFICES ASSUME Linked \ {initproc} # {} PROVE FALSE
          BY <3>1
        <4>2. PICK q \in Linked \ {initproc} : parent[q] \notin Linked \ {initproc}
          BY <2>1, <4>1 DEF Rooted
        <4>3. parent[q] = initproc
          <5>1. parent[q] # NULL
            BY <2>4, <2>7 DEF All
          <5> QED  BY <2>1, <4>2, <5>1 DEF NoChildOfTheDead, Population
        <4>4. K[initproc] = <<>>
          BY <2>5, <3>1, EmptyAt
        <4> QED  BY <2>4, <2>7, <4>2, <4>3, <4>4 DEF At
      <3>3. PICK i \in Places : At(K[idleproc], i) = initproc
        BY <2>7, <3>1
      <3>4. Placed(initproc, idleproc, K[idleproc], i) /\ initproc # NULL
        BY <2>4, <2>6, <3>1, <3>3
      <3>5. \A j \in Places : At(K[idleproc], j) # NULL => j = i
        <4>1. ASSUME NEW j \in Places, At(K[idleproc], j) # NULL PROVE j = i
          <5>1. At(K[idleproc], j) = initproc
            BY <2>6, <3>1, <3>2, <4>1 DEF Placed
          <5> QED  BY <2>5, <3>1, <3>3, <4>1, <5>1 DEF Distinct
        <4> QED  BY <4>1
      <3>6. i = 1
        <4>1. ASSUME i # 1 PROVE At(K[idleproc], i - 1) # NULL
          <5>1. K[idleproc] \in Seq(Procs) /\ At(K[idleproc], i) # NULL
            BY <3>1, <3>3, <3>4
          <5> QED  BY <4>1, <5>1, NoGap
        <4>2. i - 1 # i
          BY DEF Places
        <4> QED  BY <2>3, <3>5, <4>1, <4>2
      <3>7. optr[initproc] = NULL /\ yptr[initproc] = NULL
        BY <2>3, <2>5, <3>1, <3>4, <3>5, <3>6 DEF Placed
      <3>8. proc_list = <<initproc>>
        <4>1. proc_list \in Seq(Procs) /\ Distinct(proc_list)
          BY <2>1 DEF TypeOK, Population
        <4> DEFINE n == Len(proc_list)
        <4>2. n \in Nat /\ \A j \in 1 .. n : proc_list[j] = initproc
          <5>1. \A j \in 1 .. n : proc_list[j] \in Linked
            BY <4>1 DEF Linked
          <5> QED  BY <3>2, <4>1, <5>1
        <4>3. \A j \in 1 .. n : j \in Places /\ At(proc_list, j) = initproc
          BY <4>2 DEF At, Places
        <4>4. \A j, k \in 1 .. n : j = k
          BY <3>4, <4>1, <4>3 DEF Distinct
        <4>5. n # 0
          <5>1. \E j \in 1 .. n : proc_list[j] = initproc
            BY <3>1, <4>1 DEF Linked
          <5> QED  BY <4>2, <5>1
        <4>6. n = 1
          <5>1. 1 \in 1 .. n /\ n \in 1 .. n
            BY <4>2, <4>5
          <5> QED  BY <4>4, <5>1
        <4> QED  BY <4>1, <4>2, <4>6
      <3>9. nr_process = 2
        <4>1. Len(proc_list) = 1
          BY <3>8
        <4> QED  BY <2>1, <4>1 DEF Population
      <3> QED  BY <3>7, <3>8, <3>9
    <2> QED  BY <2>1, <2>10, <2>11, <2>12 DEF WellLinked
  <1> QED  BY <1>1, FamilyInvariance, PTL

----------------------------------------------------------------------------
(* Family implements FamilyTree.                                           *)

KidsAre(K) == Kids = [p \in Procs |-> K[p]]

LEMMA KidsList ==
    Inv => \A K \in [All -> Seq(Procs)] : Represents(K) => KidsAre(K)
  <1> SUFFICES ASSUME Inv, NEW K \in [All -> Seq(Procs)], Represents(K)
               PROVE  KidsAre(K)
    OBVIOUS
  <1>1. TypeOK /\ Population /\ NoChildOfTheDead
    BY DEF Inv
  <1>2. ASSUME NEW p \in Procs, p \notin Linked PROVE K[p] = <<>>
    <2>1. p \notin live /\ p # current /\ K[p] \in Seq(Procs) /\ 1 \in Places
      BY <1>1, <1>2, FamilyAssumption DEF Population, All, Places
    <2>2. At(K[p], 1) = NULL
      BY <1>1, <2>1, Childless
    <2> QED  BY <2>1, <2>2, EmptyAt
  <1>3. \A p \in Procs : p \in Linked => Walk(p) = K[p]
    BY WalkList DEF All
  <1> QED  BY <1>2, <1>3 DEF KidsAre, Kids

LEMMA InitKids == Init => Lists!Init
  <1> SUFFICES ASSUME Init PROVE Lists!Init
    OBVIOUS
  <1>1. Inv
    BY InitInv
  <1>2. PICK K \in [All -> Seq(Procs)] : Represents(K)
    BY <1>1 DEF Inv
  <1>3. KidsAre(K)
    BY <1>1, <1>2, KidsList
  <1>4. ASSUME NEW p \in Procs PROVE K[p] = <<>>
    <2>1. cptr[p] = NULL /\ p \in All
      BY FamilyAssumption DEF Init, All
    <2>2. At(K[p], 1) = NULL /\ K[p] \in Seq(Procs)
      BY <1>2, <2>1 DEF Represents
    <2> QED  BY <2>2, EmptyAt
  <1> QED  BY <1>3, <1>4 DEF Lists!Init, KidsAre

LEMMA BearStep ==
    ASSUME Inv, NEW K \in [All -> Seq(Procs)], KidsAre(K), Represents(K),
           NEW p \in Procs, NEW c \in Procs, SetLinks(p, c),
           KidsAre([K EXCEPT ![p] = <<c>> \o @])'
    PROVE  Lists!Bear(p, c)
  <1>1. c \notin Linked
    BY DEF SetLinks
  <1>2. Kids' = [Kids EXCEPT ![p] = <<c>> \o @]
    BY DEF KidsAre, All
  <1>3. ASSUME NEW q \in Procs, NEW i \in DOMAIN Kids[q], Kids[q][i] = c PROVE FALSE
    <2>1. Kids[q] = K[q] /\ q \in All /\ K[q] \in Seq(Procs)
      BY DEF KidsAre, All
    <2>2. i \in Places /\ At(K[q], i) = c /\ c # NULL
      BY <1>3, <2>1, FamilyAssumption DEF At, Places
    <2> QED  BY <1>1, <2>1, <2>2 DEF Represents, Placed
  <1> QED  BY <1>2, <1>3 DEF Lists!Bear, Lists!Listed, Lists!ListedIn

LEMMA BuryStep ==
    ASSUME NEW K \in [All -> Seq(Procs)], KidsAre(K),
           NEW p \in Procs, NEW z \in Procs, NEW k \in Places, At(K[p], k) = z,
           KidsAre([K EXCEPT ![p] = RemoveAt(@, k)])'
    PROVE  Lists!Bury(p, z)
  <1>1. Kids' = [Kids EXCEPT ![p] = RemoveAt(@, k)]
    BY DEF KidsAre, All
  <1>2. Kids[p] = K[p] /\ K[p] \in Seq(Procs)
    BY DEF KidsAre, All
  <1>3. k \in DOMAIN Kids[p] /\ Kids[p][k] = z
    BY <1>2, FamilyAssumption DEF At
  <1>4. Lists!RemoveAt(Kids[p], k) = RemoveAt(Kids[p], k)
    BY DEF RemoveAt, Lists!RemoveAt
  <1>5. Kids' = [Kids EXCEPT ![p] = Lists!RemoveAt(@, k)]
    BY <1>1, <1>4
  <1> QED  BY <1>3, <1>5 DEF Lists!Bury

LEMMA AdoptStep ==
    ASSUME NEW K \in [All -> Seq(Procs)], KidsAre(K),
           NEW x \in Procs, NEW p \in Procs, x # initproc, K[x] # <<>>, Head(K[x]) = p,
           KidsAre([K EXCEPT ![x] = Tail(@), ![initproc] = <<p>> \o @])'
    PROVE  Lists!Adopt(x)
  <1>1. initproc \in Procs
    BY FamilyAssumption
  <1>2. Kids[x] = K[x]
    BY DEF KidsAre
  <1>3. Kids' = [Kids EXCEPT ![x] = Tail(@), ![initproc] = <<p>> \o @]
    BY <1>1 DEF KidsAre, All
  <1> QED  BY <1>2, <1>3 DEF Lists!Adopt

LEMMA StepKids == Inv /\ [Next]_vars => [Lists!Next]_Kids
  <1>1. (Inv => \A K \in [All -> Seq(Procs)] : Represents(K) => KidsAre(K))'
    BY KidsList, PTL
  <1> SUFFICES ASSUME Inv, [Next]_vars PROVE [Lists!Next]_Kids
    OBVIOUS
  <1>2. Inv'
    BY StepInv
  <1>3. TypeOK /\ Population /\ NoChildOfTheDead
    BY DEF Inv
  <1>4. PICK K \in [All -> Seq(Procs)] : Represents(K)
    BY DEF Inv
  <1>5. KidsAre(K)
    BY <1>4, KidsList
  <1>6. ASSUME NEW p \in Procs, NEW c \in Procs, SetLinks(p, c) PROVE Lists!Next
    <2> DEFINE K2 == [K EXCEPT ![p] = <<c>> \o @]
    <2>1. Represents(K2)'
      BY <1>3, <1>4, <1>6, SetLinksList, SetLinksLists
    <2>2. KidsAre(K2)'
      <3> HIDE DEF K2
      <3>1. K2 \in [All -> Seq(Procs)]
        BY <2>1 DEF Represents
      <3> QED  BY <1>1, <1>2, <2>1, <3>1
    <2>3. Lists!Bear(p, c)
      BY <1>4, <1>5, <1>6, <2>2, BearStep
    <2> QED  BY <2>3 DEF Lists!Next
  <1>7. ASSUME NEW z \in Procs, Reap(z) PROVE Lists!Next
    <2>1. PICK p \in Procs, k \in Places : p = parent[z] /\ At(K[p], k) = z
      BY <1>3, <1>4, <1>7, Place
    <2> DEFINE K2 == [K EXCEPT ![p] = RemoveAt(@, k)]
    <2>2. Represents(K2)'
      BY <1>3, <1>4, <1>7, <2>1, ReapList, ReapLists
    <2>3. KidsAre(K2)'
      <3> HIDE DEF K2
      <3>1. K2 \in [All -> Seq(Procs)]
        BY <2>2 DEF Represents
      <3> QED  BY <1>1, <1>2, <2>2, <3>1
    <2>4. Lists!Bury(p, z)
      BY <1>5, <2>1, <2>3, BuryStep
    <2> QED  BY <2>4 DEF Lists!Next
  <1>8. CASE ExitAdopt
    <2>1. current \in Procs /\ cptr[current] \in Procs /\ current # initproc
      BY <1>3, <1>8 DEF TypeOK, ExitAdopt, All, Population
    <2>2. PICK x \in Procs, p \in Procs : x = current /\ p = cptr[x]
      BY <2>1
    <2> DEFINE K2 == [K EXCEPT ![x] = Tail(@), ![initproc] = <<p>> \o @]
    <2>3. K[x] # <<>> /\ Head(K[x]) = p /\ Represents(K2)'
      BY <1>3, <1>4, <1>8, <2>2, AdoptLists
    <2>4. KidsAre(K2)'
      <3> HIDE DEF K2
      <3>1. K2 \in [All -> Seq(Procs)]
        BY <2>3 DEF Represents
      <3> QED  BY <1>1, <1>2, <2>3, <3>1
    <2>5. Lists!Adopt(x)
      BY <1>5, <2>1, <2>2, <2>3, <2>4, AdoptStep
    <2> QED  BY <2>5 DEF Lists!Next
  <1>9. ASSUME UNCHANGED <<proc_list, cptr, optr>> PROVE UNCHANGED Kids
    BY <1>9 DEF Kids, Walk, Steps, Linked
  <1>10. ASSUME NEW p \in Procs, ExitBegin(p) PROVE UNCHANGED Kids
    BY <1>9, <1>10 DEF ExitBegin, pointers
  <1>11. CASE ExitEnd
    BY <1>9, <1>11 DEF ExitEnd, pointers
  <1>12. CASE UNCHANGED vars
    BY <1>9, <1>12 DEF vars, pointers
  <1> QED  BY <1>6, <1>7, <1>8, <1>10, <1>11, <1>12 DEF Next

\* The pointers implement lists of children: a fork puts the child in front of
\* its parent's, a wait takes one out, and each turn of the loop of do_exit
\* moves the first child of the exiting process to the front of initproc's.
THEOREM FamilyRefinement == Spec => ImplementsLists
  <1>1. Spec => Lists!Init /\ [][Lists!Next]_Kids
    BY InitKids, StepKids, FamilyInvariance, PTL DEF Spec
  <1> QED  BY <1>1 DEF ImplementsLists, Lists!Spec

==============================================================================
