----------------------------- MODULE List_proofs -----------------------------
(***************************************************************************)
(* DoublyLinked holds in every list, for any heads and any entries.  It is *)
(* inductive together with the types: what an operation changes are the    *)
(* pointers of one entry and the two pointers that face it.  And the       *)
(* pointers implement the sequences of Rings.                              *)
(***************************************************************************)
EXTENDS List, SequenceTheorems, FiniteSetTheorems, WellFoundedInduction, TLAPS

TypeOK ==
    /\ next \in [Elements -> Elements]
    /\ prev \in [Elements -> Elements]
    /\ linked \in SUBSET Entries

Inv == TypeOK /\ DoublyLinked

LEMMA InitInv == Init => Inv
  BY DEF Init, Inv, TypeOK, DoublyLinked, InList, Elements

\* An entry that is put between two neighbours is in the list, and nothing
\* else has changed for the others.
LEMMA InsertInv ==
    ASSUME Inv, NEW elm \in Entries, elm \notin linked,
           NEW p \in Heads \cup linked, list_insert(elm, p, next[p]),
           linked' = linked \cup {elm}
    PROVE  Inv'
<1> DEFINE n == next[p]
<1>1. /\ p \in Elements /\ elm \in Elements /\ n \in Elements
      /\ n \in Heads \cup linked /\ prev[n] = p /\ elm # p /\ elm # n
  BY ListAssumption DEF Inv, TypeOK, DoublyLinked, InList, Elements
<1>2. /\ next' = [next EXCEPT ![p] = elm, ![elm] = n]
      /\ prev' = [prev EXCEPT ![n] = elm, ![elm] = p]
  BY DEF list_insert
<1>3. TypeOK'
  BY <1>1, <1>2 DEF Inv, TypeOK
<1>4. ASSUME NEW x \in (Heads \cup linked)'
      PROVE  /\ InList(next[x])' /\ InList(prev[x])'
             /\ (prev[next[x]] = x)' /\ (next[prev[x]] = x)'
  <2>1. CASE x = elm
    BY <2>1, <1>1, <1>2 DEF Inv, TypeOK, InList
  <2>2. CASE x # elm
    <3>1. /\ x \in Heads \cup linked /\ x \in Elements
          /\ next[x] \in Heads \cup linked /\ prev[x] \in Heads \cup linked
          /\ prev[next[x]] = x /\ next[prev[x]] = x
      BY <2>2 DEF Inv, TypeOK, DoublyLinked, InList, Elements
    <3>2. /\ next[x] # elm /\ prev[x] # elm
          /\ next[x] \in Elements /\ prev[x] \in Elements
      BY <3>1, ListAssumption DEF Inv, TypeOK, Elements
    <3>3. next'[x] = (IF x = p THEN elm ELSE next[x])
      BY <1>1, <1>2, <2>2, <3>1 DEF Inv, TypeOK
    <3>4. prev'[x] = (IF x = n THEN elm ELSE prev[x])
      BY <1>1, <1>2, <2>2, <3>1 DEF Inv, TypeOK
    <3>5. prev'[next'[x]] = x
      BY <1>1, <1>2, <3>1, <3>2, <3>3 DEF Inv, TypeOK
    <3>6. next'[prev'[x]] = x
      BY <1>1, <1>2, <3>1, <3>2, <3>4 DEF Inv, TypeOK
    <3> QED
      BY <3>1, <3>3, <3>4, <3>5, <3>6 DEF InList
  <2> QED
    BY <2>1, <2>2
<1> QED
  BY <1>3, <1>4 DEF Inv, DoublyLinked

\* The neighbours of an entry that is taken out become neighbours; what its
\* own pointers are after it does not matter.
LEMMA DeleteInv ==
    ASSUME Inv, NEW elm \in linked, TypeOK',
           linked' = linked \ {elm},
           \A x \in Elements \ {elm} :
               /\ next'[x] = (IF x = prev[elm] THEN next[elm] ELSE next[x])
               /\ prev'[x] = (IF x = next[elm] THEN prev[elm] ELSE prev[x])
    PROVE  Inv'
<1>1. /\ elm \in Elements
      /\ prev[next[elm]] = elm /\ next[prev[elm]] = elm
      /\ next[elm] \in Heads \cup linked /\ prev[elm] \in Heads \cup linked
  BY DEF Inv, TypeOK, DoublyLinked, InList, Elements
<1>2. ASSUME NEW x \in (Heads \cup linked)'
      PROVE  /\ InList(next[x])' /\ InList(prev[x])'
             /\ (prev[next[x]] = x)' /\ (next[prev[x]] = x)'
  <2>1. /\ x \in Heads \cup linked /\ x \in Elements \ {elm}
        /\ next[x] \in Heads \cup linked /\ prev[x] \in Heads \cup linked
        /\ prev[next[x]] = x /\ next[prev[x]] = x
    BY ListAssumption DEF Inv, TypeOK, DoublyLinked, InList, Elements
  <2>2. x = prev[elm] <=> next[x] = elm
    BY <1>1, <2>1
  <2>3. x = next[elm] <=> prev[x] = elm
    BY <1>1, <2>1
  <2>4. /\ next'[x] \in Heads \cup (linked \ {elm})
        /\ prev'[x] \in Heads \cup (linked \ {elm})
    BY <1>1, <2>1, <2>2, <2>3, ListAssumption DEF Inv, TypeOK, DoublyLinked, InList, Elements
  <2>5. next'[x] \in Elements \ {elm} /\ prev'[x] \in Elements \ {elm}
    BY <2>4, ListAssumption DEF Inv, TypeOK, Elements
  <2>6. prev'[next'[x]] = x
    BY <1>1, <2>1, <2>2, <2>5
  <2>7. next'[prev'[x]] = x
    BY <1>1, <2>1, <2>3, <2>5
  <2> QED
    BY <2>4, <2>6, <2>7 DEF InList
<1> QED
  BY <1>2 DEF Inv, DoublyLinked

LEMMA NextInv == Inv /\ [Next]_vars => Inv'
<1> SUFFICES ASSUME Inv, [Next]_vars PROVE Inv'
  OBVIOUS
<1>1. ASSUME NEW elm \in Entries, NEW x \in Elements, list_add_before(x, elm)
      PROVE  Inv'
  <2>1. /\ prev[x] \in Heads \cup linked /\ next[prev[x]] = x /\ elm \notin linked
        /\ list_insert(elm, prev[x], x) /\ linked' = linked \cup {elm}
    BY <1>1 DEF list_add_before, Inv, DoublyLinked, InList
  <2> QED
    BY <2>1, InsertInv
<1>2. ASSUME NEW elm \in Entries, NEW x \in Elements, list_add_after(x, elm)
      PROVE  Inv'
  BY <1>2, InsertInv DEF list_add_after, InList
<1>3. ASSUME NEW elm \in Entries, list_del(elm)
      PROVE  Inv'
  <2>1. /\ elm \in linked /\ elm \in Elements
        /\ next' = [next EXCEPT ![prev[elm]] = next[elm]]
        /\ prev' = [prev EXCEPT ![next[elm]] = prev[elm]]
        /\ linked' = linked \ {elm}
    BY <1>3 DEF list_del, Elements
  <2>2. next[elm] \in Elements /\ prev[elm] \in Elements
    BY <2>1 DEF Inv, TypeOK
  <2>3. TypeOK'
    BY <2>1, <2>2 DEF Inv, TypeOK
  <2>4. \A x \in Elements \ {elm} :
            /\ next'[x] = (IF x = prev[elm] THEN next[elm] ELSE next[x])
            /\ prev'[x] = (IF x = next[elm] THEN prev[elm] ELSE prev[x])
    BY <2>1, <2>2 DEF Inv, TypeOK
  <2> QED
    BY <2>1, <2>3, <2>4, DeleteInv
<1>4. ASSUME NEW elm \in Entries, list_del_init(elm)
      PROVE  Inv'
  <2>1. /\ elm \in linked /\ elm \in Elements
        /\ next' = [next EXCEPT ![prev[elm]] = next[elm], ![elm] = elm]
        /\ prev' = [prev EXCEPT ![next[elm]] = prev[elm], ![elm] = elm]
        /\ linked' = linked \ {elm}
    BY <1>4 DEF list_del_init, Elements
  <2>2. next[elm] \in Elements /\ prev[elm] \in Elements
    BY <2>1 DEF Inv, TypeOK
  <2>3. TypeOK'
    BY <2>1, <2>2 DEF Inv, TypeOK
  <2>4. \A x \in Elements \ {elm} :
            /\ next'[x] = (IF x = prev[elm] THEN next[elm] ELSE next[x])
            /\ prev'[x] = (IF x = next[elm] THEN prev[elm] ELSE prev[x])
    BY <2>1, <2>2 DEF Inv, TypeOK
  <2> QED
    BY <2>1, <2>3, <2>4, DeleteInv
<1>5. CASE UNCHANGED vars
  BY <1>5 DEF vars, Inv, TypeOK, DoublyLinked, InList
<1> QED
  BY <1>1, <1>2, <1>3, <1>4, <1>5 DEF Next

\* list.h: whatever is added and deleted, the elements of a list are linked
\* both ways, and an entry that was taken out is never reached from them.
THEOREM ListsLinked == Spec => []DoublyLinked
<1>1. Inv => DoublyLinked
  BY DEF Inv
<1> QED
  BY InitInv, NextInv, <1>1, PTL DEF Spec

----------------------------------------------------------------------------
(* Rings.                                                                  *)

\* Place j of the ring of h with the entries L: h is at 0 and behind the last.
Node(h, L, j) == IF j \in 1 .. Len(L) THEN L[j] ELSE h

LEMMA InsertLemma ==
    ASSUME NEW s \in Seq(Entries), NEW k \in 1 .. Len(s) + 1, NEW e \in Entries, NEW h
    PROVE  /\ Seqs!InsertAt(s, k, e) \in Seq(Entries)
           /\ Len(Seqs!InsertAt(s, k, e)) = Len(s) + 1
           /\ \A j \in 0 .. Len(s) + 2 :
                Node(h, Seqs!InsertAt(s, k, e), j) =
                    IF j < k THEN Node(h, s, j) ELSE IF j = k THEN e ELSE Node(h, s, j - 1)
  <1> DEFINE n == Len(s)
             a == SubSeq(s, 1, k - 1)
             b == SubSeq(s, k, n)
             c == a \o <<e>>
             new == c \o b
  <1>1. n \in Nat /\ k \in Nat /\ 1 <= k /\ k <= n + 1 /\ \A i \in 1 .. n : s[i] \in Entries
    OBVIOUS
  <1>2. /\ a \in Seq(Entries) /\ Len(a) = k - 1
        /\ \A i \in 1 .. k - 1 : a[i] = s[i]
    <2>1. 1 \in Int /\ k - 1 \in Int /\ \A i \in 1 .. k - 1 : s[i] \in Entries
      BY <1>1
    <2>2. /\ a \in Seq(Entries)
          /\ Len(a) = IF 1 <= k - 1 THEN (k - 1) - 1 + 1 ELSE 0
          /\ \A i \in 1 .. (k - 1) - 1 + 1 : a[i] = s[1 + i - 1]
      BY <2>1, SubSeqProperties
    <2> HIDE DEF a
    <2>3. \A i \in 1 .. k - 1 : 1 + i - 1 = i /\ i \in 1 .. (k - 1) - 1 + 1
      BY <1>1
    <2> QED  BY <1>1, <2>2, <2>3
  <1>3. /\ b \in Seq(Entries) /\ Len(b) = n - k + 1
        /\ \A i \in 1 .. n - k + 1 : b[i] = s[k + i - 1]
    <2>1. k \in Int /\ n \in Int /\ \A i \in k .. n : s[i] \in Entries
      BY <1>1
    <2>2. /\ b \in Seq(Entries)
          /\ Len(b) = IF k <= n THEN n - k + 1 ELSE 0
          /\ \A i \in 1 .. n - k + 1 : b[i] = s[k + i - 1]
      BY <2>1, SubSeqProperties
    <2> HIDE DEF b
    <2> QED  BY <1>1, <2>2
  <1> HIDE DEF a, b
  <1>4. <<e>> \in Seq(Entries) /\ Len(<<e>>) = 1 /\ <<e>>[1] = e
    OBVIOUS
  <1>5. /\ c \in Seq(Entries) /\ Len(c) = k
        /\ \A i \in 1 .. k : c[i] = IF i = k THEN e ELSE s[i]
    <2>1. /\ c \in Seq(Entries) /\ Len(c) = (k - 1) + 1
          /\ \A i \in 1 .. (k - 1) + 1 : c[i] = IF i <= k - 1 THEN a[i] ELSE <<e>>[i - (k - 1)]
      BY <1>2, <1>4, ConcatProperties
    <2> HIDE DEF c
    <2>2. c[k] = e
      <3>1. k \in 1 .. (k - 1) + 1 /\ ~(k <= k - 1) /\ k - (k - 1) = 1
        BY <1>1
      <3>2. c[k] = <<e>>[k - (k - 1)]
        BY <2>1, <3>1
      <3> QED  BY <1>4, <3>1, <3>2
    <2>3. \A i \in 1 .. k : i # k => c[i] = s[i]
      BY <1>1, <1>2, <2>1
    <2> QED  BY <1>1, <2>1, <2>2, <2>3
  <1> HIDE DEF c
  <1>6. /\ new \in Seq(Entries) /\ Len(new) = n + 1
        /\ \A i \in 1 .. n + 1 : new[i] = IF i <= k THEN c[i] ELSE b[i - k]
    <2>1. /\ new \in Seq(Entries) /\ Len(new) = k + (n - k + 1)
          /\ \A i \in 1 .. k + (n - k + 1) : new[i] = IF i <= k THEN c[i] ELSE b[i - k]
      BY <1>3, <1>5, ConcatProperties
    <2>2. k + (n - k + 1) = n + 1
      BY <1>1
    <2> QED  BY <2>1, <2>2
  <1> HIDE DEF new
  <1>7. ASSUME NEW j \in 0 .. n + 2
        PROVE  Node(h, new, j) = IF j < k THEN Node(h, s, j)
                                 ELSE IF j = k THEN e ELSE Node(h, s, j - 1)
    <2>1. CASE j = 0
      BY <1>1, <1>6, <2>1 DEF Node
    <2>2. CASE j # 0 /\ j <= k
      <3>1. j \in 1 .. n + 1 /\ j \in 1 .. k /\ new[j] = c[j]
        BY <1>1, <1>6, <2>2
      <3>2. j < k => j \in 1 .. n
        BY <1>1, <2>2
      <3>3. j < k \/ j = k
        BY <1>1, <2>2
      <3> QED  BY <1>5, <1>6, <3>1, <3>2, <3>3 DEF Node
    <2>3. CASE ~(j <= k) /\ j # n + 2
      <3>1. j \in 1 .. n + 1 /\ j - 1 \in 1 .. n /\ j - k \in 1 .. n - k + 1 /\ k + (j - k) - 1 = j - 1
        BY <1>1, <2>3
      <3>2. new[j] = s[j - 1]
        BY <1>3, <1>6, <2>3, <3>1
      <3> QED  BY <1>1, <1>6, <2>3, <3>1, <3>2 DEF Node
    <2>4. CASE j = n + 2
      BY <1>1, <1>6, <2>4 DEF Node
    <2> QED  BY <2>1, <2>2, <2>3, <2>4
  <1>8. Seqs!InsertAt(s, k, e) = new
    BY DEF Seqs!InsertAt, new, c, b, a
  <1> QED  BY <1>6, <1>7, <1>8

LEMMA RemoveLemma ==
    ASSUME NEW s \in Seq(Entries), NEW k \in 1 .. Len(s), NEW h
    PROVE  /\ Seqs!RemoveAt(s, k) \in Seq(Entries)
           /\ Len(Seqs!RemoveAt(s, k)) = Len(s) - 1
           /\ \A j \in 0 .. Len(s) :
                Node(h, Seqs!RemoveAt(s, k), j) =
                    IF j < k THEN Node(h, s, j) ELSE Node(h, s, j + 1)
  <1> DEFINE n == Len(s)
             a == SubSeq(s, 1, k - 1)
             b == SubSeq(s, k + 1, n)
             new == a \o b
  <1>1. n \in Nat /\ k \in Nat /\ 1 <= k /\ k <= n /\ \A i \in 1 .. n : s[i] \in Entries
    OBVIOUS
  <1>2. /\ a \in Seq(Entries) /\ Len(a) = k - 1
        /\ \A i \in 1 .. k - 1 : a[i] = s[i]
    <2>1. 1 \in Int /\ k - 1 \in Int /\ \A i \in 1 .. k - 1 : s[i] \in Entries
      BY <1>1
    <2>2. /\ a \in Seq(Entries)
          /\ Len(a) = IF 1 <= k - 1 THEN (k - 1) - 1 + 1 ELSE 0
          /\ \A i \in 1 .. (k - 1) - 1 + 1 : a[i] = s[1 + i - 1]
      BY <2>1, SubSeqProperties
    <2> HIDE DEF a
    <2>3. \A i \in 1 .. k - 1 : 1 + i - 1 = i /\ i \in 1 .. (k - 1) - 1 + 1
      BY <1>1
    <2> QED  BY <1>1, <2>2, <2>3
  <1>3. /\ b \in Seq(Entries) /\ Len(b) = n - k
        /\ \A i \in 1 .. n - k : b[i] = s[k + i]
    <2>1. k + 1 \in Int /\ n \in Int /\ \A i \in k + 1 .. n : s[i] \in Entries
      BY <1>1
    <2>2. /\ b \in Seq(Entries)
          /\ Len(b) = IF k + 1 <= n THEN n - (k + 1) + 1 ELSE 0
          /\ \A i \in 1 .. n - (k + 1) + 1 : b[i] = s[(k + 1) + i - 1]
      BY <2>1, SubSeqProperties
    <2> HIDE DEF b
    <2>3. \A i \in 1 .. n - k : (k + 1) + i - 1 = k + i /\ i \in 1 .. n - (k + 1) + 1
      BY <1>1
    <2>4. Len(b) = n - k
      BY <1>1, <2>2
    <2> QED  BY <2>2, <2>3, <2>4
  <1> HIDE DEF a, b
  <1>4. /\ new \in Seq(Entries) /\ Len(new) = n - 1
        /\ \A i \in 1 .. n - 1 : new[i] = IF i <= k - 1 THEN a[i] ELSE b[i - (k - 1)]
    BY <1>1, <1>2, <1>3, ConcatProperties
  <1> HIDE DEF new
  <1>5. ASSUME NEW j \in 0 .. n
        PROVE  Node(h, new, j) = IF j < k THEN Node(h, s, j) ELSE Node(h, s, j + 1)
    <2>1. CASE j = 0
      BY <1>1, <1>4, <2>1 DEF Node
    <2>2. CASE j # 0 /\ j < k
      <3>1. j \in 1 .. n - 1 /\ j \in 1 .. n /\ j <= k - 1 /\ j \in 1 .. k - 1
        BY <1>1, <2>2
      <3> QED  BY <1>2, <1>4, <2>2, <3>1 DEF Node
    <2>3. CASE ~(j < k) /\ j # n
      <3>1. /\ j \in 1 .. n - 1 /\ j + 1 \in 1 .. n /\ ~(j <= k - 1)
            /\ j - (k - 1) \in 1 .. n - k /\ k + (j - (k - 1)) = j + 1
        BY <1>1, <2>3
      <3> QED  BY <1>3, <1>4, <2>3, <3>1 DEF Node
    <2>4. CASE j = n
      BY <1>1, <1>4, <2>4 DEF Node
    <2> QED  BY <2>1, <2>2, <2>3, <2>4
  <1>6. Seqs!RemoveAt(s, k) = new
    BY DEF Seqs!RemoveAt, new, a, b
  <1> QED  BY <1>4, <1>5, <1>6

\* The pointers are the rings of the lists K, of which each linked entry is in
\* one, once.
Represents(K) ==
    /\ K \in [Heads -> Seq(Entries)]
    /\ \A h \in Heads, i \in Nat : i <= Len(K[h]) =>
        /\ next[Node(h, K[h], i)] = Node(h, K[h], i + 1)
        /\ prev[Node(h, K[h], i + 1)] = Node(h, K[h], i)
    /\ \A e \in Entries :
        e \in linked <=> \E h \in Heads : \E i \in 1 .. Len(K[h]) : K[h][i] = e
    /\ \A g, h \in Heads : \A i \in 1 .. Len(K[g]), j \in 1 .. Len(K[h]) :
        K[g][i] = K[h][j] => g = h /\ i = j

LEMMA NodeFacts ==
    ASSUME NEW K, Represents(K), NEW h \in Heads
    PROVE  /\ K[h] \in Seq(Entries) /\ Len(K[h]) \in Nat
           /\ \A i \in 0 .. Len(K[h]) + 1 :
                /\ Node(h, K[h], i) \in Elements
                /\ Node(h, K[h], i) \in Heads \cup (linked \cap Entries)
                /\ Node(h, K[h], i) \in Heads => i \notin 1 .. Len(K[h])
           /\ \A i, j \in 0 .. Len(K[h]) : Node(h, K[h], i) = Node(h, K[h], j) => i = j
           /\ \A i, j \in 1 .. Len(K[h]) + 1 : Node(h, K[h], i) = Node(h, K[h], j) => i = j
           /\ \A g \in Heads \ {h} : \A i \in 0 .. Len(K[g]) + 1, j \in 0 .. Len(K[h]) + 1 :
                Node(g, K[g], i) # Node(h, K[h], j)
  <1>1. \A g \in Heads : /\ K[g] \in Seq(Entries) /\ Len(K[g]) \in Nat
                         /\ \A i \in 1 .. Len(K[g]) : K[g][i] \in Entries /\ K[g][i] \in linked
    BY DEF Represents
  <1>2. \A g \in Heads : g \notin Entries
    BY ListAssumption
  <1>3. \A g \in Heads : \A i \in 1 .. Len(K[g]), j \in 1 .. Len(K[h]) :
          K[g][i] = K[h][j] => g = h /\ i = j
    BY DEF Represents
  <1>4. \A i, j \in 0 .. Len(K[h]) : Node(h, K[h], i) = Node(h, K[h], j) => i = j
    <2> SUFFICES ASSUME NEW i \in 0 .. Len(K[h]), NEW j \in 0 .. Len(K[h]),
                        Node(h, K[h], i) = Node(h, K[h], j)
                 PROVE  i = j
      OBVIOUS
    <2>1. (i = 0 \/ i \in 1 .. Len(K[h])) /\ (j = 0 \/ j \in 1 .. Len(K[h])) /\ 0 \notin 1 .. Len(K[h])
      BY <1>1
    <2> QED  BY <1>1, <1>2, <1>3, <2>1 DEF Node
  <1>5. \A i, j \in 1 .. Len(K[h]) + 1 : Node(h, K[h], i) = Node(h, K[h], j) => i = j
    <2> SUFFICES ASSUME NEW i \in 1 .. Len(K[h]) + 1, NEW j \in 1 .. Len(K[h]) + 1,
                        Node(h, K[h], i) = Node(h, K[h], j)
                 PROVE  i = j
      OBVIOUS
    <2> DEFINE m == Len(K[h])
    <2>1. (i = m + 1 \/ i \in 1 .. m) /\ (j = m + 1 \/ j \in 1 .. m) /\ m + 1 \notin 1 .. m
      BY <1>1
    <2> QED  BY <1>1, <1>2, <1>3, <2>1 DEF Node
  <1>6. \A i \in 0 .. Len(K[h]) + 1 :
          /\ Node(h, K[h], i) \in Elements
          /\ Node(h, K[h], i) \in Heads \cup (linked \cap Entries)
          /\ Node(h, K[h], i) \in Heads => i \notin 1 .. Len(K[h])
    BY <1>1, <1>2 DEF Node, Elements
  <1>7. \A g \in Heads \ {h} : \A i \in 0 .. Len(K[g]) + 1, j \in 0 .. Len(K[h]) + 1 :
          Node(g, K[g], i) # Node(h, K[h], j)
    BY <1>1, <1>2, <1>3 DEF Node
  <1> QED  BY <1>1, <1>4, <1>5, <1>6, <1>7

\* Where an entry or head is, seen from before and from behind it.
LEMMA Somewhere ==
    ASSUME NEW K, Represents(K), NEW x \in Heads \cup (linked \cap Entries)
    PROVE  \E h \in Heads :
             /\ \E k \in 1 .. Len(K[h]) + 1 :
                  x = Node(h, K[h], k) /\ prev[x] = Node(h, K[h], k - 1)
             /\ \E k \in 1 .. Len(K[h]) + 1 :
                  x = Node(h, K[h], k - 1) /\ next[x] = Node(h, K[h], k)
  <1>1. \A h \in Heads, i \in Nat : i <= Len(K[h]) =>
          /\ next[Node(h, K[h], i)] = Node(h, K[h], i + 1)
          /\ prev[Node(h, K[h], i + 1)] = Node(h, K[h], i)
    BY DEF Represents
  <1>2. \A h \in Heads : Len(K[h]) \in Nat
    BY DEF Represents
  <1>3. CASE x \in Heads
    <2> DEFINE m == Len(K[x])
    <2>1. x = Node(x, K[x], 0) /\ x = Node(x, K[x], m + 1) /\ m \in Nat
      BY <1>2, <1>3 DEF Node
    <2>2. prev[x] = Node(x, K[x], m)
      BY <1>1, <1>3, <2>1
    <2>3. next[x] = Node(x, K[x], 1)
      <3>1. 0 \in Nat /\ 0 <= m /\ 0 + 1 = 1
        BY <2>1
      <3>2. next[Node(x, K[x], 0)] = Node(x, K[x], 0 + 1)
        BY <1>1, <1>3, <3>1
      <3> QED  BY <2>1, <3>1, <3>2
    <2>4. m + 1 \in 1 .. m + 1 /\ 1 \in 1 .. m + 1 /\ (m + 1) - 1 = m /\ 1 - 1 = 0
      BY <2>1
    <2> HIDE DEF m
    <2>5. \E k \in 1 .. m + 1 : x = Node(x, K[x], k) /\ prev[x] = Node(x, K[x], k - 1)
      BY <2>1, <2>2, <2>4
    <2>6. \E k \in 1 .. m + 1 : x = Node(x, K[x], k - 1) /\ next[x] = Node(x, K[x], k)
      BY <2>1, <2>3, <2>4
    <2> QED  BY <1>3, <2>5, <2>6 DEF m
  <1>4. CASE x \in linked \cap Entries
    <2>0. PICK h \in Heads : \E i \in 1 .. Len(K[h]) : K[h][i] = x
      BY <1>4 DEF Represents
    <2>1. PICK i \in 1 .. Len(K[h]) : K[h][i] = x
      BY <2>0
    <2> DEFINE m == Len(K[h])
    <2>2. x = Node(h, K[h], i) /\ m \in Nat
      BY <1>2, <2>1 DEF Node
    <2>3. /\ i \in 1 .. m + 1 /\ i + 1 \in 1 .. m + 1 /\ (i + 1) - 1 = i
          /\ i \in Nat /\ i <= m /\ i - 1 \in Nat /\ i - 1 <= m /\ (i - 1) + 1 = i
      BY <2>1, <2>2
    <2>4. prev[x] = Node(h, K[h], i - 1) /\ next[x] = Node(h, K[h], i + 1)
      BY <1>1, <2>2, <2>3
    <2> HIDE DEF m
    <2>5. \E k \in 1 .. m + 1 : x = Node(h, K[h], k) /\ prev[x] = Node(h, K[h], k - 1)
      BY <2>2, <2>3, <2>4
    <2>6. \E k \in 1 .. m + 1 : x = Node(h, K[h], k - 1) /\ next[x] = Node(h, K[h], k)
      BY <2>2, <2>3, <2>4
    <2> QED  BY <2>5, <2>6 DEF m
  <1> QED  BY <1>3, <1>4

\* An entry put between places k - 1 and k of h.
LEMMA InsertRings ==
    ASSUME TypeOK, NEW K, Represents(K), NEW h \in Heads, NEW k \in 1 .. Len(K[h]) + 1,
           NEW e \in Entries, e \notin linked,
           list_insert(e, Node(h, K[h], k - 1), Node(h, K[h], k)),
           linked' = linked \cup {e}
    PROVE  Represents([K EXCEPT ![h] = Seqs!InsertAt(@, k, e)])'
  <1> DEFINE K2 == [K EXCEPT ![h] = Seqs!InsertAt(@, k, e)]
             m == Len(K[h])
             N(j) == Node(h, K[h], j)
             N2(j) == Node(h, K2[h], j)
  <1>1. /\ K \in [Heads -> Seq(Entries)] /\ K[h] \in Seq(Entries) /\ m \in Nat
        /\ k \in Nat /\ 1 <= k /\ k <= m + 1
    BY DEF Represents
  <1>2. /\ K2 \in [Heads -> Seq(Entries)] /\ Len(K2[h]) = m + 1
        /\ \A g \in Heads \ {h} : K2[g] = K[g]
        /\ \A j \in 0 .. m + 2 : N2(j) = IF j < k THEN N(j) ELSE IF j = k THEN e ELSE N(j - 1)
    <2>1. K2[h] = Seqs!InsertAt(K[h], k, e)
      BY <1>1
    <2>2. Seqs!InsertAt(K[h], k, e) \in Seq(Entries) /\ Len(Seqs!InsertAt(K[h], k, e)) = m + 1
      BY <1>1, InsertLemma
    <2>3. \A j \in 0 .. m + 2 : N2(j) = IF j < k THEN N(j) ELSE IF j = k THEN e ELSE N(j - 1)
      BY <1>1, <2>1, InsertLemma
    <2> QED  BY <1>1, <2>1, <2>2, <2>3
  <1> HIDE DEF K2
  <1>3. /\ \A i \in 0 .. m + 1 : N(i) \in Elements /\ N(i) \in Heads \cup (linked \cap Entries)
        /\ \A i, j \in 0 .. m : N(i) = N(j) => i = j
        /\ \A i, j \in 1 .. m + 1 : N(i) = N(j) => i = j
        /\ \A g \in Heads \ {h} : \A i \in 0 .. Len(K[g]) + 1, j \in 0 .. m + 1 :
             Node(g, K[g], i) # N(j)
    BY NodeFacts
  <1>4. e \in Elements /\ e \notin Heads
    BY ListAssumption DEF Elements
  <1>5. /\ \A x \in Elements : next'[x] = IF x = e THEN N(k) ELSE IF x = N(k - 1) THEN e ELSE next[x]
        /\ \A x \in Elements : prev'[x] = IF x = e THEN N(k - 1) ELSE IF x = N(k) THEN e ELSE prev[x]
    BY <1>1, <1>3, <1>4 DEF list_insert, TypeOK
  <1>6. \A i \in Nat : i <= m => next[N(i)] = N(i + 1) /\ prev[N(i + 1)] = N(i)
    BY DEF Represents
  <1>7. \A i \in 0 .. m + 1 : N(i) # e
    BY <1>3, <1>4
  <1>8. ASSUME NEW i \in Nat, i <= m + 1
        PROVE  next'[N2(i)] = N2(i + 1) /\ prev'[N2(i + 1)] = N2(i)
    <2> HIDE DEF N, N2
    <2>1. i \in 0 .. m + 2 /\ i + 1 \in 0 .. m + 2
      BY <1>1, <1>8
    <2>2. CASE i + 1 < k
      <3>1. i < k /\ i \in 0 .. m /\ i + 1 \in 1 .. m + 1 /\ i # k - 1 /\ i + 1 # k /\ k - 1 \in 0 .. m /\ k \in 1 .. m + 1
        BY <1>1, <2>2
      <3>2. N2(i) = N(i) /\ N2(i + 1) = N(i + 1)
        BY <1>2, <2>1, <2>2, <3>1
      <3>3. N(i) # N(k - 1) /\ N(i + 1) # N(k)
        BY <1>3, <3>1
      <3>4. i \in 0 .. m + 1 /\ i + 1 \in 0 .. m + 1 /\ i <= m
        BY <1>1, <3>1
      <3> QED  BY <1>3, <1>5, <1>6, <1>7, <3>2, <3>3, <3>4
    <2>3. CASE i + 1 = k
      <3>1. i = k - 1 /\ i < k /\ ~(i + 1 < k) /\ i \in 0 .. m + 1 /\ k \in 0 .. m + 1 /\ i # k
        BY <1>1, <2>3
      <3>2. N2(i) = N(k - 1) /\ N2(i + 1) = e
        BY <1>2, <2>1, <2>3, <3>1
      <3> QED  BY <1>3, <1>4, <1>5, <1>7, <3>1, <3>2
    <2>4. CASE i = k
      <3>1. ~(i < k) /\ ~(i + 1 < k) /\ i + 1 # k /\ (i + 1) - 1 = k /\ k \in 0 .. m + 1
        BY <1>1, <2>4
      <3>2. N2(i) = e /\ N2(i + 1) = N(k)
        BY <1>2, <2>1, <2>4, <3>1
      <3> QED  BY <1>3, <1>4, <1>5, <1>7, <3>1, <3>2
    <2>5. CASE i > k
      <3>1. /\ ~(i < k) /\ i # k /\ ~(i + 1 < k) /\ i + 1 # k /\ (i + 1) - 1 = i
            /\ i - 1 \in 0 .. m /\ i \in 1 .. m + 1 /\ (i - 1) + 1 = i /\ i - 1 # k - 1
            /\ k - 1 \in 0 .. m /\ k \in 1 .. m + 1 /\ i - 1 \in Nat /\ i - 1 <= m
            /\ i - 1 \in 0 .. m + 1 /\ i \in 0 .. m + 1
        BY <1>1, <1>8, <2>5
      <3>2. N2(i) = N(i - 1) /\ N2(i + 1) = N(i)
        BY <1>2, <2>1, <3>1
      <3>3. N(i - 1) # N(k - 1) /\ N(i) # N(k)
        BY <1>3, <2>5, <3>1
      <3>4. next[N(i - 1)] = N(i) /\ prev[N(i)] = N(i - 1)
        BY <1>6, <3>1
      <3> QED  BY <1>3, <1>5, <1>7, <3>1, <3>2, <3>3, <3>4
    <2>6. i + 1 < k \/ i + 1 = k \/ i = k \/ i > k
      BY <1>1
    <2> QED  BY <2>2, <2>3, <2>4, <2>5, <2>6
  <1>9. ASSUME NEW g \in Heads \ {h}, NEW i \in Nat, i <= Len(K[g])
        PROVE  /\ next'[Node(g, K[g], i)] = Node(g, K[g], i + 1)
               /\ prev'[Node(g, K[g], i + 1)] = Node(g, K[g], i)
    <2>1. /\ next[Node(g, K[g], i)] = Node(g, K[g], i + 1)
          /\ prev[Node(g, K[g], i + 1)] = Node(g, K[g], i)
      BY <1>9 DEF Represents
    <2>2. i \in 0 .. Len(K[g]) + 1 /\ i + 1 \in 0 .. Len(K[g]) + 1 /\ k \in 0 .. m + 1 /\ k - 1 \in 0 .. m + 1
      BY <1>1, <1>9 DEF Represents
    <2>3. /\ Node(g, K[g], i) \notin {N(k), N(k - 1), e} /\ Node(g, K[g], i) \in Elements
          /\ Node(g, K[g], i + 1) \notin {N(k), N(k - 1), e} /\ Node(g, K[g], i + 1) \in Elements
      <3>1. \A j \in 0 .. Len(K[g]) + 1 :
              Node(g, K[g], j) \in Elements /\ Node(g, K[g], j) \in Heads \cup (linked \cap Entries)
        BY NodeFacts
      <3> QED  BY <1>3, <1>4, <2>2, <3>1
    <2> QED  BY <1>5, <2>1, <2>3
  <1>10. \A j \in 1 .. m + 1 : K2[h][j] = IF j < k THEN K[h][j] ELSE IF j = k THEN e ELSE K[h][j - 1]
    <2> SUFFICES ASSUME NEW j \in 1 .. m + 1
                 PROVE  K2[h][j] = IF j < k THEN K[h][j] ELSE IF j = k THEN e ELSE K[h][j - 1]
      OBVIOUS
    <2>1. K2[h][j] = N2(j) /\ j \in 0 .. m + 2
      BY <1>1, <1>2 DEF Node
    <2>2. /\ j < k => j \in 1 .. m
          /\ ~(j < k) /\ j # k => j - 1 \in 1 .. m
      BY <1>1
    <2>3. N2(j) = IF j < k THEN N(j) ELSE IF j = k THEN e ELSE N(j - 1)
      BY <1>2, <2>1
    <2>4. /\ j < k => N(j) = K[h][j]
          /\ ~(j < k) /\ j # k => N(j - 1) = K[h][j - 1]
      BY <2>2 DEF Node
    <2> HIDE DEF N, N2
    <2> QED  BY <2>1, <2>3, <2>4
  <1>11. ASSUME NEW x \in Entries
         PROVE  x \in linked' <=> \E g \in Heads : \E i \in 1 .. Len(K2[g]) : K2[g][i] = x
    <2>1. x \in linked <=> \E g \in Heads : \E i \in 1 .. Len(K[g]) : K[g][i] = x
      BY DEF Represents
    <2>2. K2[h][k] = e /\ k \in 1 .. m + 1
      BY <1>1, <1>10
    <2>3. ASSUME NEW i \in 1 .. m PROVE \E j \in 1 .. m + 1 : K2[h][j] = K[h][i]
      <3>1. CASE i < k
        BY <1>1, <1>10, <3>1
      <3>2. CASE ~(i < k)
        <4>1. i + 1 \in 1 .. m + 1 /\ ~(i + 1 < k) /\ i + 1 # k /\ (i + 1) - 1 = i
          BY <1>1, <3>2
        <4> QED  BY <1>10, <4>1
      <3> QED  BY <3>1, <3>2
    <2>4. ASSUME NEW i \in 1 .. m + 1, i # k PROVE \E j \in 1 .. m : K2[h][i] = K[h][j]
      <3>1. CASE i < k
        <4>1. i \in 1 .. m
          BY <1>1, <3>1
        <4> QED  BY <1>10, <3>1, <4>1
      <3>2. CASE ~(i < k)
        <4>1. i - 1 \in 1 .. m
          BY <1>1, <2>4, <3>2
        <4> QED  BY <1>10, <2>4, <3>2, <4>1
      <3> QED  BY <3>1, <3>2
    <2>5. ASSUME x \in linked' PROVE \E g \in Heads : \E i \in 1 .. Len(K2[g]) : K2[g][i] = x
      <3>1. CASE x = e
        BY <1>2, <2>2, <3>1
      <3>2. CASE x # e
        <4>0. PICK g \in Heads : \E i \in 1 .. Len(K[g]) : K[g][i] = x
          BY <2>1, <2>5, <3>2
        <4>1. PICK i \in 1 .. Len(K[g]) : K[g][i] = x
          BY <4>0
        <4>2. CASE g = h
          BY <1>2, <2>3, <4>1, <4>2
        <4>3. CASE g # h
          BY <1>2, <4>1, <4>3
        <4> QED  BY <4>2, <4>3
      <3> QED  BY <3>1, <3>2
    <2>6. ASSUME NEW g \in Heads, NEW i \in 1 .. Len(K2[g]), K2[g][i] = x PROVE x \in linked'
      <3>1. CASE g = h /\ i = k
        BY <2>2, <2>6, <3>1
      <3>2. CASE g = h /\ i # k
        BY <1>2, <2>1, <2>4, <2>6, <3>2
      <3>3. CASE g # h
        BY <1>2, <2>1, <2>6, <3>3
      <3> QED  BY <3>1, <3>2, <3>3
    <2> QED  BY <2>5, <2>6
  <1>12. ASSUME NEW f \in Heads, NEW g \in Heads,
                NEW i \in 1 .. Len(K2[f]), NEW j \in 1 .. Len(K2[g]), K2[f][i] = K2[g][j]
         PROVE  f = g /\ i = j
    <2>1. \A a, b \in Heads : \A u \in 1 .. Len(K[a]), v \in 1 .. Len(K[b]) :
            K[a][u] = K[b][v] => a = b /\ u = v
      BY DEF Represents
    <2>2. \A a \in Heads : \A u \in 1 .. Len(K[a]) : K[a][u] # e
      BY DEF Represents
    <2> DEFINE old(u) == IF u < k THEN u ELSE u - 1
    <2>3. \A u \in 1 .. m + 1 : u # k => old(u) \in 1 .. m /\ K2[h][u] = K[h][old(u)]
      BY <1>1, <1>10
    <2>4. K2[h][k] = e
      BY <1>1, <1>10
    <2>5. \A u, v \in 1 .. m + 1 : u # k /\ v # k /\ old(u) = old(v) => u = v
      BY <1>1
    <2> HIDE DEF old
    <2>6. CASE f = h /\ g = h
      <3>1. i \in 1 .. m + 1 /\ j \in 1 .. m + 1 /\ K2[h][i] = K2[h][j]
        BY <1>2, <1>12, <2>6
      <3>2. CASE i = k \/ j = k
        BY <2>2, <2>3, <2>4, <2>6, <3>1, <3>2
      <3>3. CASE i # k /\ j # k
        <4>1. old(i) \in 1 .. m /\ old(j) \in 1 .. m /\ K[h][old(i)] = K[h][old(j)]
          BY <2>3, <3>1, <3>3
        <4>2. old(i) = old(j)
          BY <2>1, <4>1
        <4> QED  BY <2>5, <2>6, <3>1, <3>3, <4>2
      <3> QED  BY <3>2, <3>3
    <2>7. CASE f = h /\ g # h
      <3>1. i \in 1 .. m + 1 /\ j \in 1 .. Len(K[g]) /\ K2[h][i] = K[g][j]
        BY <1>2, <1>12, <2>7
      <3>2. i # k
        BY <2>2, <2>4, <3>1
      <3>3. old(i) \in 1 .. m /\ K[h][old(i)] = K[g][j]
        BY <2>3, <3>1, <3>2
      <3> QED  BY <2>1, <2>7, <3>1, <3>3
    <2>8. CASE f # h /\ g = h
      <3>1. j \in 1 .. m + 1 /\ i \in 1 .. Len(K[f]) /\ K2[h][j] = K[f][i]
        BY <1>2, <1>12, <2>8
      <3>2. j # k
        BY <2>2, <2>4, <3>1
      <3>3. old(j) \in 1 .. m /\ K[h][old(j)] = K[f][i]
        BY <2>3, <3>1, <3>2
      <3> QED  BY <2>1, <2>8, <3>1, <3>3
    <2>9. CASE f # h /\ g # h
      <3>1. K2[f] = K[f] /\ K2[g] = K[g]
        BY <1>2, <2>9
      <3> QED  BY <1>12, <2>1, <3>1
    <2> QED  BY <2>6, <2>7, <2>8, <2>9
  <1>13. Represents(K2)'
    <2>1. ASSUME NEW g \in Heads, NEW i \in Nat, i <= Len(K2[g])
          PROVE  /\ next'[Node(g, K2[g], i)] = Node(g, K2[g], i + 1)
                 /\ prev'[Node(g, K2[g], i + 1)] = Node(g, K2[g], i)
      BY <1>2, <1>8, <1>9, <2>1
    <2> QED  BY <1>2, <1>11, <1>12, <2>1 DEF Represents
  <1> QED  BY <1>13 DEF K2

\* The k-th entry of h taken out: its neighbours become neighbours, whatever
\* becomes of its own pointers.
LEMMA DeleteRings ==
    ASSUME TypeOK, NEW K, Represents(K), NEW h \in Heads, NEW k \in 1 .. Len(K[h]),
           NEW e \in Entries, e = K[h][k], linked' = linked \ {e},
           \A x \in Elements \ {e} :
               /\ next'[x] = (IF x = prev[e] THEN next[e] ELSE next[x])
               /\ prev'[x] = (IF x = next[e] THEN prev[e] ELSE prev[x])
    PROVE  Represents([K EXCEPT ![h] = Seqs!RemoveAt(@, k)])'
  <1> DEFINE K2 == [K EXCEPT ![h] = Seqs!RemoveAt(@, k)]
             m == Len(K[h])
             N(j) == Node(h, K[h], j)
             N2(j) == Node(h, K2[h], j)
  <1>1. /\ K \in [Heads -> Seq(Entries)] /\ K[h] \in Seq(Entries) /\ m \in Nat
        /\ k \in Nat /\ 1 <= k /\ k <= m
    BY DEF Represents
  <1>2. /\ K2 \in [Heads -> Seq(Entries)] /\ Len(K2[h]) = m - 1
        /\ \A g \in Heads \ {h} : K2[g] = K[g]
        /\ \A j \in 0 .. m : N2(j) = IF j < k THEN N(j) ELSE N(j + 1)
    <2>1. K2[h] = Seqs!RemoveAt(K[h], k)
      BY <1>1
    <2>2. Seqs!RemoveAt(K[h], k) \in Seq(Entries) /\ Len(Seqs!RemoveAt(K[h], k)) = m - 1
      BY <1>1, RemoveLemma
    <2>3. \A j \in 0 .. m : N2(j) = IF j < k THEN N(j) ELSE N(j + 1)
      BY <1>1, <2>1, RemoveLemma
    <2> QED  BY <1>1, <2>1, <2>2, <2>3
  <1> HIDE DEF K2
  <1>3. /\ \A i \in 0 .. m + 1 : N(i) \in Elements
        /\ \A i, j \in 0 .. m : N(i) = N(j) => i = j
        /\ \A i, j \in 1 .. m + 1 : N(i) = N(j) => i = j
        /\ \A g \in Heads \ {h} : \A i \in 0 .. Len(K[g]) + 1, j \in 0 .. m + 1 :
             Node(g, K[g], i) # N(j)
    BY NodeFacts
  <1>4. \A i \in Nat : i <= m => next[N(i)] = N(i + 1) /\ prev[N(i + 1)] = N(i)
    BY DEF Represents
  <1>5. /\ e = N(k) /\ next[e] = N(k + 1) /\ prev[e] = N(k - 1)
        /\ k - 1 \in 0 .. m /\ k \in 0 .. m /\ k \in 1 .. m + 1 /\ k + 1 \in 1 .. m + 1
    <2>1. e = N(k)
      BY <1>1 DEF Node
    <2>2. k - 1 \in Nat /\ k - 1 <= m /\ (k - 1) + 1 = k
      BY <1>1
    <2>3. next[N(k)] = N(k + 1)
      BY <1>1, <1>4
    <2>4. prev[N(k)] = N(k - 1)
      BY <1>4, <2>2
    <2>5. k - 1 \in 0 .. m /\ k \in 0 .. m /\ k \in 1 .. m + 1 /\ k + 1 \in 1 .. m + 1
      BY <1>1
    <2> HIDE DEF N
    <2> QED  BY <2>1, <2>3, <2>4, <2>5
  <1>6. \A x \in Elements \ {e} :
          /\ next'[x] = (IF x = N(k - 1) THEN N(k + 1) ELSE next[x])
          /\ prev'[x] = (IF x = N(k + 1) THEN N(k - 1) ELSE prev[x])
    BY <1>5
  <1>7. ASSUME NEW i \in Nat, i <= m - 1
        PROVE  next'[N2(i)] = N2(i + 1) /\ prev'[N2(i + 1)] = N2(i)
    <2> HIDE DEF N, N2
    <2>1. i \in 0 .. m /\ i + 1 \in 0 .. m
      BY <1>1, <1>7
    <2>2. CASE i + 1 < k
      <3>1. /\ i < k /\ i \in 0 .. m /\ i + 1 \in 1 .. m + 1 /\ i # k /\ i # k - 1 /\ i + 1 # k /\ i + 1 # k + 1
            /\ i <= m /\ i \in 0 .. m + 1 /\ i + 1 \in 0 .. m + 1
        BY <1>1, <2>2
      <3>2. N2(i) = N(i) /\ N2(i + 1) = N(i + 1)
        BY <1>2, <2>1, <2>2, <3>1
      <3>3. N(i) # N(k - 1) /\ N(i) # e /\ N(i + 1) # N(k + 1) /\ N(i + 1) # e
        BY <1>3, <1>5, <3>1
      <3> QED  BY <1>3, <1>4, <1>6, <3>1, <3>2, <3>3
    <2>3. CASE i + 1 = k
      <3>1. /\ i = k - 1 /\ i < k /\ ~(i + 1 < k) /\ k - 1 \in 0 .. m + 1 /\ k + 1 \in 0 .. m + 1
            /\ k - 1 # k /\ k # k + 1
        BY <1>1, <2>3
      <3>2. N2(i) = N(k - 1) /\ N2(i + 1) = N(k + 1)
        BY <1>2, <2>1, <2>3, <3>1
      <3>3. N(k - 1) # e /\ N(k + 1) # e
        BY <1>3, <1>5, <3>1
      <3> QED  BY <1>3, <1>6, <3>1, <3>2, <3>3
    <2>4. CASE ~(i + 1 <= k)
      <3>1. /\ ~(i < k) /\ ~(i + 1 < k) /\ i + 1 \in 0 .. m /\ i + 1 \in 1 .. m + 1 /\ (i + 1) + 1 \in 1 .. m + 1
            /\ i + 1 # k /\ i + 1 # k - 1 /\ (i + 1) + 1 # k + 1 /\ (i + 1) + 1 # k
            /\ i + 1 \in Nat /\ i + 1 <= m /\ i + 1 \in 0 .. m + 1 /\ (i + 1) + 1 \in 0 .. m + 1
        BY <1>1, <1>7, <2>4
      <3>2. N2(i) = N(i + 1) /\ N2(i + 1) = N((i + 1) + 1)
        BY <1>2, <2>1, <3>1
      <3>3. /\ N(i + 1) # N(k - 1) /\ N(i + 1) # e
            /\ N((i + 1) + 1) # N(k + 1) /\ N((i + 1) + 1) # e
        BY <1>3, <1>5, <3>1
      <3>4. next[N(i + 1)] = N((i + 1) + 1) /\ prev[N((i + 1) + 1)] = N(i + 1)
        BY <1>4, <3>1
      <3> QED  BY <1>3, <1>6, <3>1, <3>2, <3>3, <3>4
    <2>5. i + 1 < k \/ i + 1 = k \/ ~(i + 1 <= k)
      BY <1>1
    <2> QED  BY <2>2, <2>3, <2>4, <2>5
  <1>8. ASSUME NEW g \in Heads \ {h}, NEW i \in Nat, i <= Len(K[g])
        PROVE  /\ next'[Node(g, K[g], i)] = Node(g, K[g], i + 1)
               /\ prev'[Node(g, K[g], i + 1)] = Node(g, K[g], i)
    <2>1. /\ next[Node(g, K[g], i)] = Node(g, K[g], i + 1)
          /\ prev[Node(g, K[g], i + 1)] = Node(g, K[g], i)
      BY <1>8 DEF Represents
    <2>2. /\ i \in 0 .. Len(K[g]) + 1 /\ i + 1 \in 0 .. Len(K[g]) + 1
          /\ k \in 0 .. m + 1 /\ k - 1 \in 0 .. m + 1 /\ k + 1 \in 0 .. m + 1
      BY <1>1, <1>8 DEF Represents
    <2>3. \A j \in 0 .. Len(K[g]) + 1 : Node(g, K[g], j) \in Elements
      BY NodeFacts
    <2>4. /\ Node(g, K[g], i) \notin {N(k + 1), N(k - 1), e} /\ Node(g, K[g], i) \in Elements
          /\ Node(g, K[g], i + 1) \notin {N(k + 1), N(k - 1), e} /\ Node(g, K[g], i + 1) \in Elements
      <3> HIDE DEF N
      <3> QED  BY <1>3, <1>5, <2>2, <2>3
    <2> QED  BY <1>6, <2>1, <2>4
  <1>9. \A j \in 1 .. m - 1 : K2[h][j] = IF j < k THEN K[h][j] ELSE K[h][j + 1]
    <2> SUFFICES ASSUME NEW j \in 1 .. m - 1
                 PROVE  K2[h][j] = IF j < k THEN K[h][j] ELSE K[h][j + 1]
      OBVIOUS
    <2>1. K2[h][j] = N2(j) /\ j \in 0 .. m /\ j \in 1 .. m /\ j + 1 \in 1 .. m
      BY <1>1, <1>2 DEF Node
    <2>2. N2(j) = IF j < k THEN N(j) ELSE N(j + 1)
      BY <1>2, <2>1
    <2>3. N(j) = K[h][j] /\ N(j + 1) = K[h][j + 1]
      BY <2>1 DEF Node
    <2> HIDE DEF N, N2
    <2> QED  BY <2>1, <2>2, <2>3
  <1>10. \A a, b \in Heads : \A u \in 1 .. Len(K[a]), v \in 1 .. Len(K[b]) :
           K[a][u] = K[b][v] => a = b /\ u = v
    BY DEF Represents
  <1> DEFINE old(u) == IF u < k THEN u ELSE u + 1
  <1>11. /\ \A u \in 1 .. m - 1 : old(u) \in 1 .. m /\ old(u) # k /\ K2[h][u] = K[h][old(u)]
         /\ \A u, v \in 1 .. m - 1 : old(u) = old(v) => u = v
         /\ \A u \in 1 .. m : u # k => \E v \in 1 .. m - 1 : old(v) = u
    <2>1. \A u \in 1 .. m - 1 : old(u) \in 1 .. m /\ old(u) # k
      BY <1>1
    <2>2. \A u \in 1 .. m - 1 : K2[h][u] = K[h][old(u)]
      BY <1>9
    <2>3. \A u, v \in 1 .. m - 1 : old(u) = old(v) => u = v
      BY <1>1
    <2>4. ASSUME NEW u \in 1 .. m, u # k PROVE \E v \in 1 .. m - 1 : old(v) = u
      <3>1. CASE u < k
        <4>1. u \in 1 .. m - 1 /\ old(u) = u
          BY <1>1, <3>1
        <4> QED  BY <4>1
      <3>2. CASE ~(u < k)
        <4>1. u - 1 \in 1 .. m - 1 /\ old(u - 1) = u
          BY <1>1, <2>4, <3>2
        <4> QED  BY <4>1
      <3> QED  BY <3>1, <3>2
    <2> QED  BY <2>1, <2>2, <2>3, <2>4
  <1> HIDE DEF old
  <1>12. ASSUME NEW x \in Entries
         PROVE  x \in linked' <=> \E g \in Heads : \E i \in 1 .. Len(K2[g]) : K2[g][i] = x
    <2>1. x \in linked <=> \E g \in Heads : \E i \in 1 .. Len(K[g]) : K[g][i] = x
      BY DEF Represents
    <2>2. ASSUME x \in linked' PROVE \E g \in Heads : \E i \in 1 .. Len(K2[g]) : K2[g][i] = x
      <3>0. PICK g \in Heads : \E i \in 1 .. Len(K[g]) : K[g][i] = x
        BY <2>1, <2>2
      <3>1. PICK i \in 1 .. Len(K[g]) : K[g][i] = x
        BY <3>0
      <3>2. CASE g = h
        <4>1. i # k
          BY <2>2, <3>1, <3>2
        <4>2. PICK v \in 1 .. m - 1 : old(v) = i
          BY <1>11, <3>2, <4>1
        <4> QED  BY <1>2, <1>11, <3>1, <3>2, <4>2
      <3>3. CASE g # h
        BY <1>2, <3>1, <3>3
      <3> QED  BY <3>2, <3>3
    <2>3. ASSUME NEW g \in Heads, NEW i \in 1 .. Len(K2[g]), K2[g][i] = x PROVE x \in linked'
      <3>1. CASE g = h
        <4>1. old(i) \in 1 .. m /\ old(i) # k /\ K[h][old(i)] = x
          BY <1>2, <1>11, <2>3, <3>1
        <4>2. x # e
          BY <1>10, <4>1
        <4> QED  BY <2>1, <4>1, <4>2
      <3>2. CASE g # h
        <4>1. i \in 1 .. Len(K[g]) /\ K[g][i] = x
          BY <1>2, <2>3, <3>2
        <4>2. x # e
          BY <1>10, <3>2, <4>1
        <4> QED  BY <2>1, <4>1, <4>2
      <3> QED  BY <3>1, <3>2
    <2> QED  BY <2>2, <2>3
  <1>13. ASSUME NEW f \in Heads, NEW g \in Heads,
                NEW i \in 1 .. Len(K2[f]), NEW j \in 1 .. Len(K2[g]), K2[f][i] = K2[g][j]
         PROVE  f = g /\ i = j
    <2>1. CASE f = h /\ g = h
      <3>1. i \in 1 .. m - 1 /\ j \in 1 .. m - 1
        BY <1>2, <2>1
      <3>2. old(i) \in 1 .. m /\ old(j) \in 1 .. m /\ K[h][old(i)] = K[h][old(j)]
        BY <1>11, <1>13, <2>1, <3>1
      <3>3. old(i) = old(j)
        BY <1>10, <3>2
      <3> QED  BY <1>11, <2>1, <3>1, <3>3
    <2>2. CASE f = h /\ g # h
      <3>1. i \in 1 .. m - 1 /\ j \in 1 .. Len(K[g]) /\ K2[g] = K[g]
        BY <1>2, <2>2
      <3>2. old(i) \in 1 .. m /\ K[h][old(i)] = K[g][j]
        BY <1>11, <1>13, <2>2, <3>1
      <3> QED  BY <1>10, <2>2, <3>1, <3>2
    <2>3. CASE f # h /\ g = h
      <3>1. j \in 1 .. m - 1 /\ i \in 1 .. Len(K[f]) /\ K2[f] = K[f]
        BY <1>2, <2>3
      <3>2. old(j) \in 1 .. m /\ K[h][old(j)] = K[f][i]
        BY <1>11, <1>13, <2>3, <3>1
      <3> QED  BY <1>10, <2>3, <3>1, <3>2
    <2>4. CASE f # h /\ g # h
      BY <1>2, <1>10, <1>13, <2>4
    <2> QED  BY <2>1, <2>2, <2>3, <2>4
  <1>14. Represents(K2)'
    <2>1. ASSUME NEW g \in Heads, NEW i \in Nat, i <= Len(K2[g])
          PROVE  /\ next'[Node(g, K2[g], i)] = Node(g, K2[g], i + 1)
                 /\ prev'[Node(g, K2[g], i + 1)] = Node(g, K2[g], i)
      BY <1>2, <1>7, <1>8, <2>1
    <2> QED  BY <1>2, <1>12, <1>13, <2>1 DEF Represents
  <1> QED  BY <1>14 DEF K2

----------------------------------------------------------------------------
(* Walking the rings.                                                      *)

LEMMA LeastNat ==
    ASSUME NEW S \in SUBSET Nat, S # {}
    PROVE  \E n \in S : \A m \in S : n <= m
  <1> DEFINE R == {ss \in Nat \X Nat : ss[1] < ss[2]}
  <1>1. IsWellFoundedOn(R, Nat)
    BY NatLessThanWellFounded DEF OpToRel
  <1> HIDE DEF R
  <1>2. PICK n \in S : \A m \in S : <<m, n>> \notin R
    BY <1>1, WFMin
  <1>3. \A m \in S : ~(m < n)
    BY <1>2 DEF R
  <1> QED  BY <1>3

LEMMA SetInduction ==
    ASSUME NEW S, 0 \in S, \A n \in Nat : n \in S => n + 1 \in S
    PROVE  \A n \in Nat : n \in S
  <1> DEFINE T == {n \in Nat : n \notin S}
  <1>1. SUFFICES ASSUME T # {} PROVE FALSE
    OBVIOUS
  <1>2. PICK n \in T : \A m \in T : n <= m
    BY <1>1, LeastNat
  <1>3. n - 1 \in Nat /\ n - 1 \notin T
    BY <1>2
  <1> QED  BY <1>2, <1>3

\* i steps from h lead to place i, as long as the ring has not closed.
LEMMA BehindNode ==
    ASSUME NEW K, Represents(K), NEW h \in Heads, NEW i \in 0 .. Len(K[h]) + 1
    PROVE  Behind(h, i) = Node(h, K[h], i)
  <1> DEFINE N(j) == Node(h, K[h], j)
             W == [j \in 0 .. i |-> N(j)]
  <1>1. Len(K[h]) \in Nat /\ i \in Nat /\ N(0) = h
    BY DEF Represents, Node
  <1>2. \A j \in Nat : j <= Len(K[h]) => next[N(j)] = N(j + 1)
    BY DEF Represents
  <1> HIDE DEF N
  <1>3. W = [j \in 0 .. i |-> IF j = 0 THEN h ELSE next[W[j - 1]]]
    <2>1. ASSUME NEW j \in 0 .. i, j # 0 PROVE N(j) = next[W[j - 1]]
      <3>1. j - 1 \in 0 .. i /\ j - 1 \in Nat /\ j - 1 <= Len(K[h]) /\ (j - 1) + 1 = j
        BY <1>1, <2>1
      <3>2. W[j - 1] = N(j - 1)
        BY <3>1
      <3> HIDE DEF W
      <3> QED  BY <1>2, <3>1, <3>2
    <2> QED  BY <1>1, <2>1
  <1> HIDE DEF W
  <1> DEFINE at[j \in 0 .. i] == IF j = 0 THEN h ELSE next[at[j - 1]]
  <1>4. at = [j \in 0 .. i |-> IF j = 0 THEN h ELSE next[at[j - 1]]]
    BY <1>3
  <1>5. Behind(h, i) = at[i]
    BY DEF Behind
  <1> HIDE DEF at
  <1> DEFINE S == {j \in Nat : j <= i => at[j] = N(j)}
  <1>6. 0 \in S
    BY <1>1, <1>4
  <1>7. ASSUME NEW j \in Nat, j \in S PROVE j + 1 \in S
    <2>1. SUFFICES ASSUME j + 1 <= i PROVE at[j + 1] = N(j + 1)
      OBVIOUS
    <2>2. j + 1 \in 0 .. i /\ j + 1 # 0 /\ (j + 1) - 1 = j /\ j <= i /\ j <= Len(K[h])
      BY <1>1, <2>1
    <2>3. at[j] = N(j)
      BY <1>7, <2>2
    <2>4. at[j + 1] = next[at[j]]
      BY <1>4, <2>2
    <2> QED  BY <1>2, <2>2, <2>3, <2>4
  <1>8. \A j \in Nat : j \in S
    <2> HIDE DEF S
    <2> QED  BY <1>6, <1>7, SetInduction
  <1>9. at[i] = N(i)
    BY <1>1, <1>8
  <1> QED  BY <1>5, <1>9 DEF N

\* A ring has no more places than there are elements.
LEMMA ShortRing ==
    ASSUME NEW K, Represents(K), NEW h \in Heads
    PROVE  Cardinality(Elements) \in Nat /\ Len(K[h]) + 1 <= Cardinality(Elements)
  <1> DEFINE n == Cardinality(Elements)
             m == Len(K[h])
             W == [j \in 0 .. m |-> Node(h, K[h], j)]
  <1>1. n \in Nat /\ IsFiniteSet(Elements) /\ m \in Nat
    BY ListAssumption, FS_CardinalityType DEF Elements, Represents
  <1>2. IsFiniteSet(0 .. m) /\ Cardinality(0 .. m) = m + 1
    <2>1. 0 \in Int /\ m \in Int
      BY <1>1
    <2> HIDE DEF m
    <2>2. IsFiniteSet(0 .. m) /\ Cardinality(0 .. m) = IF 0 > m THEN 0 ELSE m - 0 + 1
      BY <2>1, FS_Interval
    <2> QED  BY <1>1, <2>2
  <1>3. W \in [0 .. m -> Elements] /\ \A i, j \in 0 .. m : W[i] = W[j] => i = j
    <2>1. \A j \in 0 .. m : j \in 0 .. m + 1
      BY <1>1
    <2> QED  BY <2>1, NodeFacts
  <1>4. ASSUME n < m + 1 PROVE FALSE
    <2> HIDE DEF W
    <2>1. PICK i \in 0 .. m, j \in 0 .. m : i # j /\ W[i] = W[j]
      BY <1>1, <1>2, <1>3, <1>4, FS_PigeonHole
    <2> QED  BY <1>3, <2>1
  <1> QED  BY <1>1, <1>4

LEMMA WalkList ==
    ASSUME NEW K, Represents(K), NEW h \in Heads
    PROVE  Walk(h) = K[h]
  <1> DEFINE L == K[h]
             m == Len(L)
             n == Cardinality(Elements)
             back == {i \in 1 .. n : Behind(h, i) = h}
  <1>1. m \in Nat /\ n \in Nat /\ m + 1 <= n /\ L \in Seq(Entries)
    BY ShortRing DEF Represents
  <1>2. \A i \in 0 .. m + 1 : Behind(h, i) = Node(h, L, i)
    BY BehindNode
  <1>3. \A i \in 1 .. m : Behind(h, i) = L[i] /\ L[i] # h
    <2>1. \A i \in 1 .. m : i \in 0 .. m + 1
      BY <1>1
    <2>2. \A i \in 1 .. m : L[i] \in Entries
      BY <1>1
    <2> QED  BY <1>2, <2>1, <2>2, ListAssumption DEF Node
  <1>4. Behind(h, m + 1) = h
    <2>1. m + 1 \in 0 .. m + 1 /\ m + 1 \notin 1 .. m
      BY <1>1
    <2> QED  BY <1>2, <2>1 DEF Node
  <1> HIDE DEF L, m, n
  <1>5. m + 1 \in back /\ \A i \in back : i \in Int /\ m + 1 <= i
    <2>1. ASSUME NEW i \in back PROVE i \in Int /\ m + 1 <= i
      <3>1. i \in Int /\ 1 <= i
        BY <1>1
      <3>2. i \notin 1 .. m
        BY <1>3
      <3> QED  BY <1>1, <3>1, <3>2
    <2> QED  BY <1>1, <1>4, <2>1
  <1> HIDE DEF back
  <1>6. back # {} /\ Min(back) - 1 = m
    <2>1. Min(back) \in back /\ \A i \in back : Min(back) <= i
      BY <1>5 DEF Min
    <2> QED  BY <1>1, <1>5, <2>1
  <1>7. Walk(h) = [i \in 1 .. m |-> Behind(h, i)]
    BY <1>6 DEF Walk, back, n
  <1>8. L = [i \in 1 .. m |-> L[i]]
    BY <1>1 DEF m
  <1> QED  BY <1>3, <1>7, <1>8 DEF L

----------------------------------------------------------------------------
(* List implements Rings.                                                  *)

RingInv == TypeOK /\ \E K : Represents(K)

LEMMA InitRings == Init => RingInv
  <1> SUFFICES ASSUME Init PROVE RingInv
    OBVIOUS
  <1>1. TypeOK
    BY InitInv DEF Inv
  <1> DEFINE K == [h \in Heads |-> << >>]
  <1>2. K \in [Heads -> Seq(Entries)] /\ \A h \in Heads : Len(K[h]) = 0 /\ \A i : Node(h, K[h], i) = h
    BY DEF Node
  <1>3. \A h \in Heads : next[h] = h /\ prev[h] = h
    BY DEF Init, Elements
  <1>4. linked = {} /\ \A h \in Heads : 1 .. Len(K[h]) = {}
    BY <1>2 DEF Init
  <1> HIDE DEF K
  <1>5. Represents(K)
    BY <1>2, <1>3, <1>4 DEF Represents
  <1> QED  BY <1>1, <1>5 DEF RingInv

\* The lists after a step: what it does to K, which the lists are.
StepTo(K, K2) ==
    /\ Represents(K2)'
    /\ \/ \E h \in Heads, e \in Entries :
            /\ e \notin linked
            /\ \E k \in 1 .. Len(K[h]) + 1 : K2 = [K EXCEPT ![h] = Seqs!InsertAt(@, k, e)]
       \/ \E h \in Heads, e \in Entries :
            \E k \in 1 .. Len(K[h]) : K[h][k] = e /\ K2 = [K EXCEPT ![h] = Seqs!RemoveAt(@, k)]
       \/ K2 = K

LEMMA NextRings ==
    ASSUME TypeOK, NEW K, Represents(K), [Next]_vars
    PROVE  \E K2 : StepTo(K, K2)
  <1>1. ASSUME NEW e \in Entries, NEW x \in Elements, list_add_before(x, e)
        PROVE  \E K2 : StepTo(K, K2)
    <2>1. x \in Heads \cup (linked \cap Entries) /\ e \notin linked /\ linked' = linked \cup {e}
      BY <1>1 DEF list_add_before, InList, TypeOK
    <2>2. PICK h \in Heads : \E k \in 1 .. Len(K[h]) + 1 :
              x = Node(h, K[h], k) /\ prev[x] = Node(h, K[h], k - 1)
      BY <2>1, Somewhere
    <2>3. PICK k \in 1 .. Len(K[h]) + 1 : x = Node(h, K[h], k) /\ prev[x] = Node(h, K[h], k - 1)
      BY <2>2
    <2>4. list_insert(e, Node(h, K[h], k - 1), Node(h, K[h], k))
      BY <1>1, <2>3 DEF list_add_before, list_insert
    <2> DEFINE K2 == [K EXCEPT ![h] = Seqs!InsertAt(@, k, e)]
    <2>5. Represents(K2)'
      BY <2>1, <2>4, InsertRings
    <2> QED  BY <2>1, <2>5 DEF StepTo
  <1>2. ASSUME NEW e \in Entries, NEW x \in Elements, list_add_after(x, e)
        PROVE  \E K2 : StepTo(K, K2)
    <2>1. x \in Heads \cup (linked \cap Entries) /\ e \notin linked /\ linked' = linked \cup {e}
      BY <1>2 DEF list_add_after, InList, TypeOK
    <2>2. PICK h \in Heads : \E k \in 1 .. Len(K[h]) + 1 :
              x = Node(h, K[h], k - 1) /\ next[x] = Node(h, K[h], k)
      BY <2>1, Somewhere
    <2>3. PICK k \in 1 .. Len(K[h]) + 1 : x = Node(h, K[h], k - 1) /\ next[x] = Node(h, K[h], k)
      BY <2>2
    <2>4. list_insert(e, Node(h, K[h], k - 1), Node(h, K[h], k))
      BY <1>2, <2>3 DEF list_add_after, list_insert
    <2> DEFINE K2 == [K EXCEPT ![h] = Seqs!InsertAt(@, k, e)]
    <2>5. Represents(K2)'
      BY <2>1, <2>4, InsertRings
    <2> QED  BY <2>1, <2>5 DEF StepTo
  <1>3. ASSUME NEW e \in Entries, list_del(e) \/ list_del_init(e)
        PROVE  \E K2 : StepTo(K, K2)
    <2>1. e \in linked /\ e \in Elements /\ linked' = linked \ {e}
      BY <1>3 DEF list_del, list_del_init, Elements
    <2>2. \A x \in Elements \ {e} :
              /\ next'[x] = (IF x = prev[e] THEN next[e] ELSE next[x])
              /\ prev'[x] = (IF x = next[e] THEN prev[e] ELSE prev[x])
      BY <1>3, <2>1 DEF list_del, list_del_init, TypeOK
    <2>3. PICK h \in Heads : \E k \in 1 .. Len(K[h]) : K[h][k] = e
      BY <2>1 DEF Represents
    <2>4. PICK k \in 1 .. Len(K[h]) : K[h][k] = e
      BY <2>3
    <2> DEFINE K2 == [K EXCEPT ![h] = Seqs!RemoveAt(@, k)]
    <2>5. Represents(K2)'
      BY <2>1, <2>2, <2>4, DeleteRings
    <2> QED  BY <2>4, <2>5 DEF StepTo
  <1>4. CASE UNCHANGED vars
    <2>1. Represents(K)'
      BY <1>4 DEF vars, Represents
    <2> QED  BY <2>1 DEF StepTo
  <1> QED  BY <1>1, <1>2, <1>3, <1>4 DEF Next

ListsAre(K) == lists = [h \in Heads |-> K[h]]

LEMMA ListsList == \A K : Represents(K) => ListsAre(K)
  BY WalkList DEF ListsAre, lists

LEMMA StepRings == RingInv /\ Inv /\ [Next]_vars => RingInv' /\ [Seqs!Next]_lists
  <1>1. (\A K : Represents(K) => ListsAre(K))'
    BY ListsList, PTL
  <1> SUFFICES ASSUME RingInv, Inv, [Next]_vars PROVE RingInv' /\ [Seqs!Next]_lists
    OBVIOUS
  <1>2. TypeOK'
    BY NextInv DEF Inv
  <1>3. PICK K : Represents(K)
    BY DEF RingInv
  <1>4. PICK K2 : StepTo(K, K2)
    BY <1>3, NextRings DEF RingInv
  <1>5. Represents(K2)'
    BY <1>4 DEF StepTo
  <1>6. RingInv'
    BY <1>2, <1>5 DEF RingInv
  <1>7. /\ lists = K
        /\ lists' = [h \in Heads |-> K2[h]]
        /\ K \in [Heads -> Seq(Entries)]
    <2>1. ListsAre(K) /\ ListsAre(K2)'
      BY <1>1, <1>3, <1>5, ListsList
    <2>2. K \in [Heads -> Seq(Entries)]
      BY <1>3 DEF Represents
    <2> QED  BY <2>1, <2>2 DEF ListsAre
  <1>8. ASSUME NEW h \in Heads, NEW e \in Entries, e \notin linked, NEW k \in 1 .. Len(K[h]) + 1,
               K2 = [K EXCEPT ![h] = Seqs!InsertAt(@, k, e)]
        PROVE  Seqs!Next
    <2>1. lists' = [lists EXCEPT ![h] = Seqs!InsertAt(@, k, e)]
      BY <1>7, <1>8
    <2>2. Seqs!Insert(h, e)
      BY <1>7, <2>1 DEF Seqs!Insert
    <2>3. Seqs!Free(e)
      <3>1. ASSUME NEW g \in Heads PROVE e \notin Seqs!ToSet(lists[g])
        <4>1. lists[g] = K[g] /\ DOMAIN K[g] = 1 .. Len(K[g])
          BY <1>7
        <4>2. \A i \in 1 .. Len(K[g]) : K[g][i] # e
          BY <1>3, <1>8 DEF Represents
        <4> QED  BY <4>1, <4>2 DEF Seqs!ToSet
      <3> QED  BY <3>1 DEF Seqs!Free
    <2> QED  BY <2>2, <2>3 DEF Seqs!Next
  <1>9. ASSUME NEW h \in Heads, NEW e \in Entries, NEW k \in 1 .. Len(K[h]), K[h][k] = e,
               K2 = [K EXCEPT ![h] = Seqs!RemoveAt(@, k)]
        PROVE  Seqs!Next
    <2>1. lists' = [lists EXCEPT ![h] = Seqs!RemoveAt(@, k)]
      BY <1>7, <1>9
    <2>2. k \in DOMAIN lists[h] /\ lists[h][k] = e
      BY <1>7, <1>9
    <2>3. Seqs!Delete(h, e)
      BY <2>1, <2>2 DEF Seqs!Delete
    <2> QED  BY <2>3 DEF Seqs!Next
  <1>10. K2 = K => UNCHANGED lists
    <2>1. K = [h \in Heads |-> K[h]]
      BY <1>7
    <2> QED  BY <1>7, <2>1
  <1> QED  BY <1>4, <1>6, <1>8, <1>9, <1>10 DEF StepTo

\* The pointers of list.h implement sequences: entries are put next to others
\* and taken out, and the others keep their order, for any lists and entries.
THEOREM ListRefinement == Spec => ImplementsRings
  <1>1. Init => Seqs!Init
    <2> SUFFICES ASSUME Init PROVE Seqs!Init
      OBVIOUS
    <2>1. PICK K : Represents(K)
      BY InitRings DEF RingInv
    <2>2. \A h \in Heads : K[h] = <<>>
      <3> SUFFICES ASSUME NEW h \in Heads PROVE K[h] = <<>>
        OBVIOUS
      <3>1. K[h] \in Seq(Entries) /\ \A i \in 1 .. Len(K[h]) : K[h][i] \notin linked
        BY <2>1 DEF Init, Represents
      <3>2. \A i \in 1 .. Len(K[h]) : K[h][i] \in linked
        BY <2>1, <3>1 DEF Represents
      <3>3. Len(K[h]) = 0
        BY <3>1, <3>2
      <3> QED  BY <3>1, <3>3, EmptySeq
    <2>3. ListsAre(K)
      BY <2>1, ListsList
    <2> QED  BY <2>2, <2>3 DEF ListsAre, Seqs!Init
  <1>2. RingInv /\ Inv /\ [Next]_vars => [StepOfRings]_vars
    BY StepRings DEF StepOfRings
  <1>3. Spec => [](RingInv /\ Inv)
    BY InitRings, StepRings, InitInv, NextInv, PTL DEF Spec
  <1> QED  BY <1>1, <1>2, <1>3, PTL DEF Spec, ImplementsRings

==============================================================================
