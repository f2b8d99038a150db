--------------------------- MODULE Context_proofs ---------------------------
(***************************************************************************)
(* Whatever runs finds its own registers (OwnRegisters of Context), for    *)
(* any processes and stacks of any depth.  What makes it inductive is the  *)
(* shape of a kernel stack, and that the frames on it hold, level by       *)
(* level, what the process held.                                           *)
(***************************************************************************)
EXTENDS Context, SequenceTheorems, TLAPS

----------------------------------------------------------------------------
(* Types                                                                   *)

Eaxs == {Junk, 0, pid}
Ebxs == {Junk, Zeroed} \cup {Mark(p, n) : p \in Procs, n \in Nat}
Regs == [eax : Eaxs, ebx : Ebxs]

Frames == [kind : {"frame"}, eax : Eaxs, ebx : Ebxs,
           at : {"user", "kernel", "tail", "entry"}, fl_if : BOOLEAN]
Traps == [kind : {"trap"}, otf : Nat]
Runs == [kind : {"run"}, at : {"back", "kernel"}, flag : BOOLEAN]
Items == Frames \cup Traps \cup Runs

Running == {"user", "kernel", "tail", "entry", "back", "trapret", "switched", "forkret"}
Saving == [at : {"none", "switched", "forkret"}, esp : Nat, ebx : Ebxs]

TypeOK ==
    /\ current \in Procs /\ esp0 = current
    /\ eax \in Eaxs /\ ebx \in Ebxs
    /\ at \in Running
    /\ esp \in Nat
    /\ fl_if \in BOOLEAN
    /\ stack \in [Procs -> Seq(Items)]
    /\ tf \in [Procs -> Nat]
    /\ context \in [Procs -> Saving]
    /\ held \in [Procs -> Seq(Regs)]

----------------------------------------------------------------------------
(* Stacks                                                                  *)

\* Frames of user code lie at the top, an interrupted entry and an activation
\* of trap() have a frame above them, and what proc_run keeps is the last.
Shape(s) ==
    \A i \in 1 .. Len(s) :
        /\ s[i].kind = "frame" /\ s[i].at = "user" => i = 1
        /\ s[i].kind = "frame" /\ s[i].at = "entry" => i > 1 /\ s[i-1].kind = "frame"
        /\ s[i].kind = "frame" /\ s[i].at = "tail" => i > 1
        /\ s[i].kind = "trap" => i > 1 /\ s[i-1].kind = "frame"
        /\ s[i].kind = "run" =>
            i = Len(s) /\ (s[i].at = "back" => i > 1 /\ s[i-1].kind = "frame")

NoRuns(s) == \A i \in 1 .. Len(s) : s[i].kind # "run"

NoTraps(s, i, j) == \A k \in i .. j : s[k].kind # "trap"

\* proc->tf and the chain of old ones: the frame of the latest activation of
\* trap(), of the one before it, and so on.
Chain(s, t) ==
    /\ \A j \in 1 .. Len(s) : s[j].kind = "trap" /\ NoTraps(s, j + 1, Len(s)) => t = j - 1
    /\ \A i \in 1 .. Len(s), j \in 1 .. Len(s) :
        j < i /\ s[i].kind = "trap" /\ s[j].kind = "trap" /\ NoTraps(s, j + 1, i - 1)
            => s[i].otf = j - 1

\* The k-th frame, at place f[k], holds the registers of level k.
Saves(s, h, f) ==
    /\ f \in Seq(Nat)
    /\ Len(h) = Len(f) + 1
    /\ \A k \in 1 .. Len(f) :
        /\ f[k] \in 1 .. Len(s)
        /\ s[f[k]].kind = "frame"
        /\ s[f[k]].eax = h[k].eax /\ s[f[k]].ebx = h[k].ebx
    /\ \A k, l \in 1 .. Len(f) : k < l => f[k] < f[l]
    /\ \A i \in 1 .. Len(s) : s[i].kind = "frame" => \E k \in 1 .. Len(f) : f[k] = i

Saved(s, h) == \E f \in Seq(Nat) : Saves(s, h, f)

Sound(s, h, t) == Shape(s) /\ Chain(s, t) /\ Saved(s, h)

\* Where a process can be with that stack: a is the code, e the words in use
\* and b the register that a switch saves.
Poised(s, h, t, a, e, b) ==
    /\ e = Len(s)
    /\ a = "switched" => e > 0 /\ s[e].kind = "run" /\ h[Len(h)].ebx = b
    /\ a # "switched" => NoRuns(s)
    /\ a \in {"entry", "back", "trapret"} => e > 0 /\ s[e].kind = "frame"
    /\ a = "forkret" => e = 1 /\ s[1].kind = "frame" /\ t = 1
    /\ a = "tail" => e > 0
    /\ a = "user" => e = 0

Stacks == \A p \in Procs : held[p] # <<>> => Sound(stack[p], held[p], tf[p])

OnCpu ==
    /\ held[current] # <<>>
    /\ context[current].at = "none"
    /\ Poised(stack[current], held[current], tf[current], at, esp, ebx)

OffCpu ==
    \A p \in Procs : context[p].at # "none" =>
        /\ held[p] # <<>>
        /\ Poised(stack[p], held[p], tf[p], context[p].at, context[p].esp, context[p].ebx)

\* The registers are those of the level that runs.
Owned ==
    at \in {"user", "kernel", "tail", "entry", "back"} =>
        held[current][Len(held[current])] = Now

Inv == TypeOK /\ Stacks /\ OnCpu /\ OffCpu /\ Owned

----------------------------------------------------------------------------
(* Items, and sequences that grow and shrink at their end.                 *)

LEMMA ItemKinds ==
    \A x \in Items :
        /\ x.kind = "frame" <=> x \in Frames
        /\ x.kind = "trap" <=> x \in Traps
        /\ x.kind = "run" <=> x \in Runs
  BY DEF Items, Frames, Traps, Runs

LEMMA PushLemma ==
    ASSUME NEW S, NEW s \in Seq(S), NEW x \in S
    PROVE  /\ Append(s, x) \in Seq(S)
           /\ Len(s) \in Nat /\ Len(Append(s, x)) = Len(s) + 1
           /\ Append(s, x)[Len(s) + 1] = x
           /\ \A i \in 1 .. Len(s) : Append(s, x)[i] = s[i]
  OBVIOUS

LEMMA PopLemma ==
    ASSUME NEW S, NEW s \in Seq(S), Len(s) > 0
    PROVE  /\ SubSeq(s, 1, Len(s) - 1) \in Seq(S)
           /\ Len(s) \in Nat \ {0} /\ Len(SubSeq(s, 1, Len(s) - 1)) = Len(s) - 1
           /\ \A i \in 1 .. Len(s) - 1 : SubSeq(s, 1, Len(s) - 1)[i] = s[i]
  <1> DEFINE n == Len(s)
             q == SubSeq(s, 1, n - 1)
  <1>1. n \in Nat \ {0} /\ 1 \in Int /\ n - 1 \in Int /\ \A i \in 1 .. n - 1 : s[i] \in S
    OBVIOUS
  <1>2. /\ q \in Seq(S)
        /\ Len(q) = IF 1 <= n - 1 THEN (n - 1) - 1 + 1 ELSE 0
        /\ \A i \in 1 .. (n - 1) - 1 + 1 : q[i] = s[1 + i - 1]
    BY <1>1, SubSeqProperties
  <1> HIDE DEF n, q
  <1>3. Len(q) = n - 1 /\ \A i \in 1 .. n - 1 : q[i] = s[i]
    BY <1>1, <1>2
  <1> QED  BY <1>1, <1>2, <1>3 DEF n, q

LEMMA WholeLemma ==
    ASSUME NEW S, NEW s \in Seq(S) PROVE SubSeq(s, 1, Len(s)) = s
  OBVIOUS

\* n is s with one item more.
Extends(n, s) == Len(n) = Len(s) + 1 /\ \A i \in 1 .. Len(s) : n[i] = s[i]

LEMMA PushExtends ==
    ASSUME NEW s \in Seq(Items), NEW x \in Items
    PROVE  /\ Append(s, x) \in Seq(Items) /\ Extends(Append(s, x), s)
           /\ Append(s, x)[Len(s) + 1] = x
  BY PushLemma DEF Extends

LEMMA PopExtends ==
    ASSUME NEW s \in Seq(Items), Len(s) > 0
    PROVE  SubSeq(s, 1, Len(s) - 1) \in Seq(Items) /\ Extends(s, SubSeq(s, 1, Len(s) - 1))
  BY PopLemma DEF Extends

LEMMA ShapeGrows ==
    ASSUME NEW s \in Seq(Items), NEW n \in Seq(Items), Extends(n, s),
           Shape(s), NoRuns(s),
           LET x == n[Len(n)]
               onFrame == Len(s) > 0 /\ s[Len(s)].kind = "frame" IN
           /\ x.kind = "frame" => /\ x.at = "user" => Len(s) = 0
                                  /\ x.at = "entry" => onFrame
                                  /\ x.at = "tail" => Len(s) > 0
           /\ x.kind = "trap" => onFrame
           /\ x.kind = "run" => (x.at = "back" => onFrame)
    PROVE  Shape(n) /\ (n[Len(n)].kind # "run" => NoRuns(n))
  <1>1. Len(s) \in Nat /\ Len(n) = Len(s) + 1 /\ Len(n) \in 1 .. Len(n)
    BY DEF Extends
  <1>2. \A i \in 1 .. Len(s) : n[i] = s[i]
    BY DEF Extends
  <1>3. \A i \in 1 .. Len(n) : i \in 1 .. Len(s) \/ i = Len(n)
    BY <1>1
  <1>4. Shape(n)
    <2> SUFFICES ASSUME NEW i \in 1 .. Len(n)
                 PROVE  /\ n[i].kind = "frame" /\ n[i].at = "user" => i = 1
                        /\ n[i].kind = "frame" /\ n[i].at = "entry"
                                => i > 1 /\ n[i-1].kind = "frame"
                        /\ n[i].kind = "frame" /\ n[i].at = "tail" => i > 1
                        /\ n[i].kind = "trap" => i > 1 /\ n[i-1].kind = "frame"
                        /\ n[i].kind = "run" => i = Len(n)
                            /\ (n[i].at = "back" => i > 1 /\ n[i-1].kind = "frame")
      BY DEF Shape
    <2>1. CASE i = Len(n)
      BY <1>1, <1>2, <2>1
    <2>2. CASE i \in 1 .. Len(s)
      <3>1. n[i] = s[i] /\ (i > 1 => i - 1 \in 1 .. Len(s) /\ n[i-1] = s[i-1])
        BY <1>1, <1>2, <2>2
      <3> QED  BY <2>2, <3>1 DEF Shape, NoRuns
    <2> QED  BY <1>3, <2>1, <2>2
  <1> QED  BY <1>2, <1>3, <1>4 DEF NoRuns

LEMMA ShapeShrinks ==
    ASSUME NEW s \in Seq(Items), NEW n \in Seq(Items), Extends(n, s), Shape(n)
    PROVE  Shape(s) /\ NoRuns(s)
  <1>1. Len(s) \in Nat /\ Len(n) = Len(s) + 1 /\ \A i \in 1 .. Len(s) : n[i] = s[i]
    BY DEF Extends
  <1>2. ASSUME NEW i \in 1 .. Len(s)
        PROVE  /\ i \in 1 .. Len(n) /\ i # Len(n) /\ n[i] = s[i]
               /\ i > 1 => n[i-1] = s[i-1]
    BY <1>1
  <1>3. NoRuns(s)
    BY <1>2 DEF Shape, NoRuns
  <1>4. Shape(s)
    BY <1>2, <1>3 DEF Shape, NoRuns
  <1> QED  BY <1>3, <1>4

\* Only activations of trap() matter to the chain.
LEMMA ChainKeeps ==
    ASSUME NEW s \in Seq(Items), NEW n \in Seq(Items), NEW t \in Nat, Extends(n, s),
           n[Len(n)].kind # "trap"
    PROVE  Chain(n, t) <=> Chain(s, t)
  <1>1. Len(s) \in Nat /\ Len(n) = Len(s) + 1 /\ \A i \in 1 .. Len(s) : n[i] = s[i]
    BY DEF Extends
  <1>2. \A i \in 1 .. Len(n) : n[i].kind = "trap" => i \in 1 .. Len(s)
    BY <1>1
  <1>3. \A i \in 1 .. Len(s) : i \in 1 .. Len(n)
    BY <1>1
  <1>4. \A j \in 1 .. Len(s) : NoTraps(n, j + 1, Len(n)) <=> NoTraps(s, j + 1, Len(s))
    BY <1>1 DEF NoTraps
  <1>5. \A i \in 1 .. Len(s), j \in 1 .. Len(s) :
            NoTraps(n, j + 1, i - 1) <=> NoTraps(s, j + 1, i - 1)
    BY <1>1 DEF NoTraps
  <1>6. ASSUME Chain(n, t) PROVE Chain(s, t)
    BY <1>1, <1>3, <1>4, <1>5, <1>6 DEF Chain
  <1>7. ASSUME Chain(s, t) PROVE Chain(n, t)
    BY <1>1, <1>2, <1>4, <1>5, <1>7 DEF Chain
  <1> QED  BY <1>6, <1>7

\* trap() begins on the frame at the end of s, or returns to it.
LEMMA ChainOfTrap ==
    ASSUME NEW s \in Seq(Items), NEW n \in Seq(Items), NEW t \in Nat, Extends(n, s),
           n[Len(n)].kind = "trap", n[Len(n)].otf = t
    PROVE  /\ Chain(s, t) => Chain(n, Len(s))
           /\ \A u : Chain(n, u) => Chain(s, t) /\ u = Len(s)
  <1>1. Len(s) \in Nat /\ Len(n) = Len(s) + 1 /\ \A i \in 1 .. Len(s) : n[i] = s[i]
    BY DEF Extends
  <1>2. /\ \A i \in 1 .. Len(n) : i \in 1 .. Len(s) \/ i = Len(n)
        /\ \A i \in 1 .. Len(s) : i \in 1 .. Len(n) /\ i < Len(n)
        /\ Len(n) \in 1 .. Len(n) /\ Len(n) - 1 = Len(s)
    BY <1>1
  <1>3. \A j \in 1 .. Len(s) :
            /\ ~NoTraps(n, j + 1, Len(n))
            /\ NoTraps(n, j + 1, Len(n) - 1) <=> NoTraps(s, j + 1, Len(s))
    BY <1>1 DEF NoTraps
  <1>4. \A i \in 1 .. Len(s), j \in 1 .. Len(s) :
            NoTraps(n, j + 1, i - 1) <=> NoTraps(s, j + 1, i - 1)
    BY <1>1 DEF NoTraps
  <1>5. ASSUME Chain(s, t) PROVE Chain(n, Len(s))
    <2>1. ASSUME NEW j \in 1 .. Len(n), n[j].kind = "trap", NoTraps(n, j + 1, Len(n))
          PROVE  Len(s) = j - 1
      BY <1>1, <1>2, <1>3, <2>1
    <2>2. ASSUME NEW i \in 1 .. Len(n), NEW j \in 1 .. Len(n), j < i,
                 n[i].kind = "trap", n[j].kind = "trap", NoTraps(n, j + 1, i - 1)
          PROVE  n[i].otf = j - 1
      <3>1. j \in 1 .. Len(s) /\ s[j].kind = "trap"
        BY <1>1, <1>2, <2>2
      <3>2. CASE i = Len(n)
        BY <1>3, <1>5, <2>2, <3>1, <3>2 DEF Chain
      <3>3. CASE i \in 1 .. Len(s)
        BY <1>1, <1>4, <1>5, <2>2, <3>1, <3>3 DEF Chain
      <3> QED  BY <1>2, <3>2, <3>3
    <2> QED  BY <2>1, <2>2 DEF Chain
  <1>6. ASSUME NEW u, Chain(n, u) PROVE Chain(s, t) /\ u = Len(s)
    <2>1. NoTraps(n, Len(n) + 1, Len(n))
      BY <1>1 DEF NoTraps
    <2>2. u = Len(s)
      BY <1>2, <1>6, <2>1 DEF Chain
    <2>3. ASSUME NEW j \in 1 .. Len(s), s[j].kind = "trap", NoTraps(s, j + 1, Len(s))
          PROVE  t = j - 1
      BY <1>1, <1>2, <1>3, <1>6, <2>3 DEF Chain
    <2>4. ASSUME NEW i \in 1 .. Len(s), NEW j \in 1 .. Len(s), j < i,
                 s[i].kind = "trap", s[j].kind = "trap", NoTraps(s, j + 1, i - 1)
          PROVE  s[i].otf = j - 1
      BY <1>1, <1>2, <1>4, <1>6, <2>4 DEF Chain
    <2> QED  BY <2>2, <2>3, <2>4 DEF Chain
  <1> QED  BY <1>5, <1>6

\* The last frame of a stack is that of the level below the one that runs.
LEMMA LastFrame ==
    ASSUME NEW s \in Seq(Items), NEW h \in Seq(Regs), NEW f \in Seq(Nat), Saves(s, h, f),
           NEW n \in 1 .. Len(s), s[n].kind = "frame",
           \A i \in n + 1 .. Len(s) : s[i].kind # "frame"
    PROVE  /\ Len(f) \in Nat \ {0} /\ Len(h) = Len(f) + 1 /\ f[Len(f)] = n
           /\ s[n].eax = h[Len(h) - 1].eax /\ s[n].ebx = h[Len(h) - 1].ebx
  <1>1. PICK k \in 1 .. Len(f) : f[k] = n
    BY DEF Saves
  <1>2. Len(f) \in Nat /\ Len(s) \in Nat /\ k <= Len(f) /\ Len(f) \in 1 .. Len(f)
    BY <1>1
  <1>3. /\ f[Len(f)] \in 1 .. Len(s) /\ s[f[Len(f)]].kind = "frame"
        /\ k < Len(f) => n < f[Len(f)]
    BY <1>1, <1>2 DEF Saves
  <1>4. k = Len(f)
    BY <1>2, <1>3
  <1> QED  BY <1>1, <1>2, <1>4 DEF Saves

\* The top level may change.
LEMMA TopChanges ==
    ASSUME NEW s \in Seq(Items), NEW h \in Seq(Regs), NEW g \in Seq(Regs), Saved(s, h),
           Len(g) = Len(h), \A k \in 1 .. Len(h) - 1 : g[k] = h[k]
    PROVE  Saved(s, g)
  <1>1. PICK f \in Seq(Nat) : Saves(s, h, f)
    BY DEF Saved
  <1>2. Len(f) \in Nat /\ Len(h) = Len(f) + 1
    BY <1>1 DEF Saves
  <1>3. Saves(s, g, f)
    BY <1>1, <1>2 DEF Saves
  <1> QED  BY <1>3 DEF Saved

LEMMA SavedLen ==
    ASSUME NEW s \in Seq(Items), NEW h \in Seq(Regs), Saved(s, h)
    PROVE  Len(h) \in Nat \ {0}
  <1>1. PICK f \in Seq(Nat) : Saves(s, h, f)
    BY DEF Saved
  <1> QED  BY <1>1 DEF Saves

\* A trap saves the registers of the level that it interrupts, and begins one.
LEMMA SavedGrows ==
    ASSUME NEW s \in Seq(Items), NEW n \in Seq(Items), Extends(n, s),
           NEW h \in Seq(Regs), NEW r \in Regs, Saved(s, h), n[Len(n)].kind = "frame",
           n[Len(n)].eax = h[Len(h)].eax, n[Len(n)].ebx = h[Len(h)].ebx
    PROVE  Saved(n, Append(h, r))
  <1> DEFINE g == Append(h, r)
  <1>1. Len(s) \in Nat /\ Len(n) = Len(s) + 1 /\ \A i \in 1 .. Len(s) : n[i] = s[i]
    BY DEF Extends
  <1>2. /\ \A i \in 1 .. Len(n) : i \in 1 .. Len(s) \/ i = Len(n)
        /\ \A i \in 1 .. Len(s) : i \in 1 .. Len(n)
        /\ Len(n) \in 1 .. Len(n) /\ Len(s) + 1 \in Nat
    BY <1>1
  <1>3. /\ g \in Seq(Regs) /\ Len(h) \in Nat /\ Len(g) = Len(h) + 1
        /\ \A i \in 1 .. Len(h) : g[i] = h[i]
    BY PushLemma
  <1>4. PICK f \in Seq(Nat) : Saves(s, h, f)
    BY DEF Saved
  <1> DEFINE e == Append(f, Len(s) + 1)
  <1>5. /\ e \in Seq(Nat) /\ Len(f) \in Nat /\ Len(e) = Len(f) + 1
        /\ e[Len(f) + 1] = Len(s) + 1 /\ \A k \in 1 .. Len(f) : e[k] = f[k]
    BY <1>2, PushLemma
  <1>6. /\ \A k \in 1 .. Len(e) : k \in 1 .. Len(f) \/ k = Len(f) + 1
        /\ \A k \in 1 .. Len(f) : k \in 1 .. Len(e)
        /\ Len(f) + 1 \in 1 .. Len(e)
    BY <1>5
  <1>7. Len(h) = Len(f) + 1 /\ Len(g) = Len(e) + 1
        /\ \A k \in 1 .. Len(f) + 1 : g[k] = h[k]
    BY <1>3, <1>4, <1>5 DEF Saves
  <1> HIDE DEF e, g
  <1>8. ASSUME NEW k \in 1 .. Len(e)
        PROVE  /\ e[k] \in 1 .. Len(n) /\ n[e[k]].kind = "frame"
               /\ n[e[k]].eax = g[k].eax /\ n[e[k]].ebx = g[k].ebx
    <2>1. CASE k = Len(f) + 1
      BY <1>1, <1>2, <1>5, <1>6, <1>7, <2>1
    <2>2. CASE k \in 1 .. Len(f)
      <3>1. f[k] \in 1 .. Len(s) /\ s[f[k]].kind = "frame"
            /\ s[f[k]].eax = h[k].eax /\ s[f[k]].ebx = h[k].ebx
        BY <1>4, <2>2 DEF Saves
      <3>2. g[k] = h[k]
        BY <1>5, <1>7, <2>2
      <3> QED  BY <1>1, <1>2, <1>5, <2>2, <3>1, <3>2
    <2> QED  BY <1>6, <2>1, <2>2
  <1>9. ASSUME NEW k \in 1 .. Len(e), NEW l \in 1 .. Len(e), k < l PROVE e[k] < e[l]
    <2> k \in 1 .. Len(f)
      <3> l <= Len(f) + 1 /\ Len(f) \in Nat
        BY <1>5
      <3> QED  BY <1>9
    <2>1. k \in 1 .. Len(f) /\ e[k] = f[k]
      BY <1>5
    <2>2. f[k] \in 1 .. Len(s)
      BY <1>4, <2>1 DEF Saves
    <2>3. CASE l = Len(f) + 1
      BY <1>1, <1>5, <2>1, <2>2, <2>3
    <2>4. CASE l \in 1 .. Len(f)
      BY <1>4, <1>5, <1>9, <2>1, <2>4 DEF Saves
    <2> QED  BY <1>6, <2>3, <2>4
  <1>10. ASSUME NEW i \in 1 .. Len(n), n[i].kind = "frame"
         PROVE  \E k \in 1 .. Len(e) : e[k] = i
    <2>1. CASE i = Len(n)
      BY <1>1, <1>5, <1>6, <2>1
    <2>2. CASE i \in 1 .. Len(s)
      <3>1. PICK k \in 1 .. Len(f) : f[k] = i
        BY <1>1, <1>4, <1>10, <2>2 DEF Saves
      <3> QED  BY <1>5, <1>6, <3>1
    <2> QED  BY <1>2, <2>1, <2>2
  <1>11. Saves(n, g, e)
    BY <1>5, <1>7, <1>8, <1>9, <1>10 DEF Saves
  <1>12. Saved(n, g)
    BY <1>5, <1>11 DEF Saved
  <1> QED  BY <1>12 DEF g

\* What is not a frame saves nothing.
LEMMA SavedKeeps ==
    ASSUME NEW s \in Seq(Items), NEW n \in Seq(Items), Extends(n, s),
           NEW h \in Seq(Regs), n[Len(n)].kind # "frame"
    PROVE  Saved(n, h) <=> Saved(s, h)
  <1>1. Len(s) \in Nat /\ Len(n) = Len(s) + 1 /\ \A i \in 1 .. Len(s) : n[i] = s[i]
    BY DEF Extends
  <1>2. /\ \A i \in 1 .. Len(n) : n[i].kind = "frame" => i \in 1 .. Len(s)
        /\ \A i \in 1 .. Len(s) : i \in 1 .. Len(n)
    BY <1>1
  <1>3. \A f \in Seq(Nat) : Saves(n, h, f) <=> Saves(s, h, f)
    <2> SUFFICES ASSUME NEW f \in Seq(Nat)
                 PROVE  Saves(n, h, f) <=> Saves(s, h, f)
      OBVIOUS
    <2>1. ASSUME Saves(n, h, f) PROVE Saves(s, h, f)
      <3>1. \A k \in 1 .. Len(f) : f[k] \in 1 .. Len(s) /\ s[f[k]] = n[f[k]]
        BY <1>1, <1>2, <2>1 DEF Saves
      <3> QED  BY <1>1, <1>2, <2>1, <3>1 DEF Saves
    <2>2. ASSUME Saves(s, h, f) PROVE Saves(n, h, f)
      BY <1>1, <1>2, <2>2 DEF Saves
    <2> QED  BY <2>1, <2>2
  <1> QED  BY <1>3 DEF Saved

\* __trapret takes the registers of the level that goes on.
LEMMA SavedShrinks ==
    ASSUME NEW s \in Seq(Items), NEW n \in Seq(Items), Extends(n, s),
           NEW h \in Seq(Regs), Saved(n, h), n[Len(n)].kind = "frame"
    PROVE  /\ Len(h) \in Nat \ {0, 1} /\ Front(h) \in Seq(Regs)
           /\ Len(Front(h)) = Len(h) - 1 /\ Saved(s, Front(h))
           /\ Front(h)[Len(h) - 1] = h[Len(h) - 1]
           /\ n[Len(n)].eax = h[Len(h) - 1].eax /\ n[Len(n)].ebx = h[Len(h) - 1].ebx
  <1> DEFINE g == Front(h)
  <1>1. Len(s) \in Nat /\ Len(n) = Len(s) + 1 /\ \A i \in 1 .. Len(s) : n[i] = s[i]
    BY DEF Extends
  <1>2. /\ \A i \in 1 .. Len(s) : i \in 1 .. Len(n) /\ i < Len(n)
        /\ Len(n) \in 1 .. Len(n)
        /\ \A i \in Len(n) + 1 .. Len(n) : n[i].kind # "frame"
    BY <1>1
  <1>3. PICK f \in Seq(Nat) : Saves(n, h, f)
    BY DEF Saved
  <1>4. /\ Len(f) \in Nat \ {0} /\ Len(h) = Len(f) + 1 /\ f[Len(f)] = Len(n)
        /\ n[Len(n)].eax = h[Len(h) - 1].eax /\ n[Len(n)].ebx = h[Len(h) - 1].ebx
    BY <1>2, <1>3, LastFrame
  <1>5. /\ g \in Seq(Regs) /\ Len(g) = Len(h) - 1 /\ \A i \in 1 .. Len(h) - 1 : g[i] = h[i]
    BY <1>4, PopLemma DEF Front
  <1> DEFINE e == SubSeq(f, 1, Len(f) - 1)
  <1>6. /\ e \in Seq(Nat) /\ Len(e) = Len(f) - 1 /\ \A i \in 1 .. Len(f) - 1 : e[i] = f[i]
    BY <1>4, PopLemma
  <1> HIDE DEF e, g
  <1>7. ASSUME NEW k \in 1 .. Len(e)
        PROVE  k \in 1 .. Len(f) /\ k < Len(f) /\ e[k] = f[k] /\ g[k] = h[k]
    BY <1>4, <1>5, <1>6
  <1>8. ASSUME NEW k \in 1 .. Len(e)
        PROVE  e[k] \in 1 .. Len(s) /\ n[e[k]] = s[e[k]]
    <2>1. f[k] \in 1 .. Len(n) /\ Len(f) \in 1 .. Len(f)
      BY <1>3, <1>4, <1>7 DEF Saves
    <2>2. f[k] < f[Len(f)]
      BY <1>3, <1>7, <2>1 DEF Saves
    <2> QED  BY <1>1, <1>4, <1>7, <2>1, <2>2
  <1>9. ASSUME NEW k \in 1 .. Len(e)
        PROVE  /\ s[e[k]].kind = "frame"
               /\ s[e[k]].eax = g[k].eax /\ s[e[k]].ebx = g[k].ebx
    <2>1. n[f[k]].kind = "frame" /\ n[f[k]].eax = h[k].eax /\ n[f[k]].ebx = h[k].ebx
      BY <1>3, <1>7 DEF Saves
    <2> QED  BY <1>7, <1>8, <2>1
  <1>10. ASSUME NEW k \in 1 .. Len(e), NEW l \in 1 .. Len(e), k < l PROVE e[k] < e[l]
    BY <1>3, <1>7, <1>10 DEF Saves
  <1>11. ASSUME NEW i \in 1 .. Len(s), s[i].kind = "frame"
         PROVE  \E k \in 1 .. Len(e) : e[k] = i
    <2>1. PICK k \in 1 .. Len(f) : f[k] = i
      BY <1>1, <1>2, <1>3, <1>11 DEF Saves
    <2>2. k # Len(f)
      BY <1>2, <1>4, <2>1
    <2>3. k \in 1 .. Len(f) - 1
      BY <1>4, <2>2
    <2>4. k \in 1 .. Len(e) /\ e[k] = i
      BY <1>4, <1>6, <2>1, <2>3
    <2> QED  BY <2>4
  <1>12. Len(g) = Len(e) + 1
    BY <1>4, <1>5, <1>6
  <1>13. Saves(s, g, e)
    BY <1>6, <1>8, <1>9, <1>10, <1>11, <1>12 DEF Saves
  <1>14. Saved(s, g)
    BY <1>6, <1>13 DEF Saved
  <1>15. g[Len(h) - 1] = h[Len(h) - 1]
    BY <1>4, <1>5
  <1>16. Len(h) \in Nat \ {0, 1}
    BY <1>4
  <1> QED  BY <1>4, <1>5, <1>14, <1>15, <1>16 DEF g

----------------------------------------------------------------------------
(* What the code does to a stack.                                          *)

LEMMA PushFrame ==
    ASSUME NEW s \in Seq(Items), NEW h \in Seq(Regs), NEW t \in Nat, NEW x \in Frames,
           NEW r \in Regs, Sound(s, h, t), NoRuns(s),
           x.at = "user" => Len(s) = 0,
           x.at = "entry" => Len(s) > 0 /\ s[Len(s)].kind = "frame",
           x.at = "tail" => Len(s) > 0,
           x.eax = h[Len(h)].eax, x.ebx = h[Len(h)].ebx
    PROVE  Sound(Append(s, x), Append(h, r), t) /\ NoRuns(Append(s, x))
  <1> DEFINE n == Append(s, x)
  <1>1. x \in Items /\ x.kind = "frame"
    BY DEF Items, Frames
  <1>2. n \in Seq(Items) /\ Extends(n, s) /\ n[Len(n)] = x
    BY <1>1, PushExtends DEF Extends
  <1> HIDE DEF n
  <1>3. Shape(n) /\ NoRuns(n)
    BY <1>1, <1>2, ShapeGrows DEF Sound
  <1>4. Chain(n, t)
    BY <1>1, <1>2, ChainKeeps DEF Sound
  <1>5. Saved(n, Append(h, r))
    BY <1>1, <1>2, SavedGrows DEF Sound
  <1> QED  BY <1>3, <1>4, <1>5 DEF n, Sound

LEMMA PopFrame ==
    ASSUME NEW s \in Seq(Items), NEW h \in Seq(Regs), NEW t \in Nat, Sound(s, h, t),
           Len(s) > 0, s[Len(s)].kind = "frame"
    PROVE  LET q == SubSeq(s, 1, Len(s) - 1) IN
           /\ Sound(q, Front(h), t) /\ NoRuns(q)
           /\ Len(h) \in Nat \ {0, 1} /\ Front(h) \in Seq(Regs)
           /\ Len(Front(h)) = Len(h) - 1 /\ Front(h)[Len(h) - 1] = h[Len(h) - 1]
           /\ s[Len(s)].eax = h[Len(h) - 1].eax /\ s[Len(s)].ebx = h[Len(h) - 1].ebx
  <1> DEFINE q == SubSeq(s, 1, Len(s) - 1)
  <1>1. q \in Seq(Items) /\ Extends(s, q)
    BY PopExtends
  <1> HIDE DEF q
  <1>2. Shape(q) /\ NoRuns(q)
    BY <1>1, ShapeShrinks DEF Sound
  <1>3. Chain(q, t)
    BY <1>1, ChainKeeps DEF Sound
  <1>4. /\ Saved(q, Front(h)) /\ Len(h) \in Nat \ {0, 1} /\ Front(h) \in Seq(Regs)
        /\ Len(Front(h)) = Len(h) - 1 /\ Front(h)[Len(h) - 1] = h[Len(h) - 1]
        /\ s[Len(s)].eax = h[Len(h) - 1].eax /\ s[Len(s)].ebx = h[Len(h) - 1].ebx
    BY <1>1, SavedShrinks DEF Sound
  <1> QED  BY <1>2, <1>3, <1>4 DEF q, Sound

LEMMA PushTrap ==
    ASSUME NEW s \in Seq(Items), NEW h \in Seq(Regs), NEW t \in Nat, NEW x \in Traps,
           Sound(s, h, t), NoRuns(s), Len(s) > 0, s[Len(s)].kind = "frame", x.otf = t
    PROVE  Sound(Append(s, x), h, Len(s)) /\ NoRuns(Append(s, x))
  <1> DEFINE n == Append(s, x)
  <1>1. x \in Items /\ x.kind = "trap"
    BY DEF Items, Traps
  <1>2. n \in Seq(Items) /\ Extends(n, s) /\ n[Len(n)] = x
    BY <1>1, PushExtends DEF Extends
  <1> HIDE DEF n
  <1>3. Shape(n) /\ NoRuns(n)
    BY <1>1, <1>2, ShapeGrows DEF Sound
  <1>4. Chain(n, Len(s))
    BY <1>1, <1>2, ChainOfTrap DEF Sound
  <1>5. Saved(n, h)
    BY <1>1, <1>2, SavedKeeps DEF Sound
  <1> QED  BY <1>3, <1>4, <1>5 DEF n, Sound

LEMMA PopTrap ==
    ASSUME NEW s \in Seq(Items), NEW h \in Seq(Regs), NEW t \in Nat, Sound(s, h, t),
           Len(s) > 0, s[Len(s)].kind = "trap"
    PROVE  LET q == SubSeq(s, 1, Len(s) - 1) IN
           /\ s[Len(s)].otf \in Nat
           /\ Sound(q, h, s[Len(s)].otf) /\ NoRuns(q)
           /\ Len(q) > 0 /\ q[Len(q)] = s[Len(s) - 1] /\ q[Len(q)].kind = "frame"
  <1> DEFINE q == SubSeq(s, 1, Len(s) - 1)
  <1>1. q \in Seq(Items) /\ Extends(s, q) /\ Len(s) \in 1 .. Len(s)
    BY PopExtends
  <1>2. s[Len(s)] \in Items
    BY <1>1
  <1>3. s[Len(s)].otf \in Nat
    BY <1>2, ItemKinds DEF Traps
  <1>4. Len(s) > 1 /\ s[Len(s) - 1].kind = "frame"
    BY <1>1 DEF Sound, Shape
  <1>5. Len(q) = Len(s) - 1 /\ Len(q) \in 1 .. Len(q) /\ Len(s) - 1 \in 1 .. Len(s) - 1
    BY <1>1, <1>4 DEF Extends
  <1>6. q[Len(q)] = s[Len(s) - 1]
    BY <1>1, <1>5 DEF Extends
  <1> HIDE DEF q
  <1>7. Shape(q) /\ NoRuns(q)
    BY <1>1, ShapeShrinks DEF Sound
  <1>8. Chain(q, s[Len(s)].otf)
    BY <1>1, <1>3, ChainOfTrap DEF Sound
  <1>9. Saved(q, h)
    BY <1>1, SavedKeeps DEF Sound
  <1>10. Len(q) > 0 /\ q[Len(q)].kind = "frame"
    BY <1>4, <1>5, <1>6
  <1> QED  BY <1>3, <1>6, <1>7, <1>8, <1>9, <1>10 DEF q, Sound

LEMMA PushRun ==
    ASSUME NEW s \in Seq(Items), NEW h \in Seq(Regs), NEW t \in Nat, NEW x \in Runs,
           Sound(s, h, t), NoRuns(s),
           x.at = "back" => Len(s) > 0 /\ s[Len(s)].kind = "frame"
    PROVE  Sound(Append(s, x), h, t)
  <1> DEFINE n == Append(s, x)
  <1>1. x \in Items /\ x.kind = "run"
    BY DEF Items, Runs
  <1>2. n \in Seq(Items) /\ Extends(n, s) /\ n[Len(n)] = x
    BY <1>1, PushExtends DEF Extends
  <1> HIDE DEF n
  <1>3. Shape(n)
    BY <1>1, <1>2, ShapeGrows DEF Sound
  <1>4. Chain(n, t)
    BY <1>1, <1>2, ChainKeeps DEF Sound
  <1>5. Saved(n, h)
    BY <1>1, <1>2, SavedKeeps DEF Sound
  <1> QED  BY <1>3, <1>4, <1>5 DEF n, Sound

LEMMA PopRun ==
    ASSUME NEW s \in Seq(Items), NEW h \in Seq(Regs), NEW t \in Nat, Sound(s, h, t),
           Len(s) > 0, s[Len(s)].kind = "run"
    PROVE  LET q == SubSeq(s, 1, Len(s) - 1) IN
           /\ s[Len(s)] \in Runs
           /\ Sound(q, h, t) /\ NoRuns(q)
           /\ s[Len(s)].at = "back" => Len(q) > 0 /\ q[Len(q)].kind = "frame"
  <1> DEFINE q == SubSeq(s, 1, Len(s) - 1)
  <1>1. q \in Seq(Items) /\ Extends(s, q) /\ Len(s) \in 1 .. Len(s)
    BY PopExtends
  <1>2. s[Len(s)] \in Runs
    BY <1>1, ItemKinds
  <1>3. ASSUME s[Len(s)].at = "back" PROVE Len(q) > 0 /\ q[Len(q)].kind = "frame"
    <2>1. Len(s) > 1 /\ s[Len(s) - 1].kind = "frame"
      BY <1>1, <1>3 DEF Sound, Shape
    <2>2. Len(q) = Len(s) - 1 /\ Len(q) \in 1 .. Len(q)
      BY <1>1, <2>1 DEF Extends
    <2> QED  BY <1>1, <2>1, <2>2 DEF Extends
  <1> HIDE DEF q
  <1>4. Shape(q) /\ NoRuns(q)
    BY <1>1, ShapeShrinks DEF Sound
  <1>5. Chain(q, t)
    BY <1>1, ChainKeeps DEF Sound
  <1>6. Saved(q, h)
    BY <1>1, SavedKeeps DEF Sound
  <1> QED  BY <1>2, <1>3, <1>4, <1>5, <1>6 DEF q, Sound

\* proc->tf is the frame below the activation of trap() that runs.
LEMMA TopTrap ==
    ASSUME NEW s \in Seq(Items), NEW h \in Seq(Regs), NEW t \in Nat, Sound(s, h, t),
           Len(s) > 0, s[Len(s)].kind = "trap"
    PROVE  /\ NoRuns(s)
           /\ t = Len(s) - 1 /\ t \in 1 .. Len(s) /\ Len(s) \in 1 .. Len(s)
           /\ s[t] \in Frames
           /\ Len(h) \in Nat \ {0, 1}
           /\ s[t].eax = h[Len(h) - 1].eax /\ s[t].ebx = h[Len(h) - 1].ebx
  <1>1. Len(s) \in Nat /\ Len(s) \in 1 .. Len(s)
    OBVIOUS
  <1>2. Len(s) > 1 /\ s[Len(s) - 1].kind = "frame"
    BY <1>1 DEF Sound, Shape
  <1>3. NoTraps(s, Len(s) + 1, Len(s))
    BY <1>1 DEF NoTraps
  <1>4. t = Len(s) - 1
    BY <1>1, <1>3 DEF Sound, Chain
  <1>5. t \in 1 .. Len(s) /\ \A i \in t + 1 .. Len(s) : i = Len(s)
    BY <1>1, <1>2, <1>4
  <1>6. s[t] \in Frames
    BY <1>2, <1>4, <1>5, ItemKinds
  <1>7. PICK f \in Seq(Nat) : Saves(s, h, f)
    BY DEF Sound, Saved
  <1>8. /\ Len(f) \in Nat \ {0} /\ Len(h) = Len(f) + 1
        /\ s[t].eax = h[Len(h) - 1].eax /\ s[t].ebx = h[Len(h) - 1].ebx
    BY <1>2, <1>4, <1>5, <1>7, LastFrame
  <1>9. NoRuns(s)
    BY <1>1 DEF Sound, Shape, NoRuns
  <1> QED  BY <1>1, <1>4, <1>5, <1>6, <1>8, <1>9

\* The handler of a call writes into the frame below its activation of trap().
LEMMA Rewrite ==
    ASSUME NEW s \in Seq(Items), NEW h \in Seq(Regs), NEW t \in Nat, Sound(s, h, t),
           Len(s) > 0, s[Len(s)].kind = "trap",
           NEW n \in Seq(Items), Len(n) = Len(s), n[t] \in Frames,
           n[t].at = s[t].at \/ (n[t].at = "user" /\ t = 1),
           \A i \in 1 .. Len(s) : i # t => n[i] = s[i],
           NEW g \in Seq(Regs), Len(g) = Len(h),
           \A k \in 1 .. Len(h) : k # Len(h) - 1 => g[k] = h[k],
           n[t].eax = g[Len(h) - 1].eax, n[t].ebx = g[Len(h) - 1].ebx
    PROVE  Sound(n, g, t) /\ NoRuns(n)
  <1>1. /\ NoRuns(s) /\ t = Len(s) - 1 /\ t \in 1 .. Len(s) /\ Len(s) \in 1 .. Len(s)
        /\ s[t] \in Frames /\ Len(h) \in Nat \ {0, 1}
    BY TopTrap
  <1>2. n[t].kind = "frame" /\ s[t].kind = "frame"
    BY <1>1 DEF Frames
  <1>3. \A i \in 1 .. Len(s) : n[i].kind = s[i].kind
    BY <1>1, <1>2
  <1>4. NoRuns(n)
    BY <1>1, <1>3 DEF NoRuns
  <1>5. Shape(n)
    <2> SUFFICES ASSUME NEW i \in 1 .. Len(n)
                 PROVE  /\ n[i].kind = "frame" /\ n[i].at = "user" => i = 1
                        /\ n[i].kind = "frame" /\ n[i].at = "entry"
                                => i > 1 /\ n[i-1].kind = "frame"
                        /\ n[i].kind = "frame" /\ n[i].at = "tail" => i > 1
                        /\ n[i].kind = "trap" => i > 1 /\ n[i-1].kind = "frame"
      BY <1>4 DEF Shape, NoRuns
    <2>1. i > 1 => i - 1 \in 1 .. Len(s) /\ n[i-1].kind = s[i-1].kind
      <3>1. i \in 1 .. Len(s) /\ Len(s) \in Nat
        OBVIOUS
      <3>2. i > 1 => i - 1 \in 1 .. Len(s)
        BY <3>1
      <3> QED  BY <1>3, <3>2
    <2>2. n[i].kind = s[i].kind
      BY <1>3
    <2>3. CASE i # t
      <3>1. n[i] = s[i]
        BY <2>3
      <3> QED  BY <2>1, <2>2, <3>1 DEF Sound, Shape
    <2>4. CASE i = t /\ n[t].at = s[t].at
      BY <2>1, <2>2, <2>4 DEF Sound, Shape
    <2>5. CASE i = t /\ n[t].at = "user" /\ t = 1
      BY <1>2, <2>5
    <2> QED  BY <2>3, <2>4, <2>5
  <1>6. Chain(n, t)
    <2>1. \A i \in 1 .. Len(s) : s[i].kind = "trap" => n[i] = s[i]
      BY <1>2
    <2>2. \A j \in 1 .. Len(s) : NoTraps(n, j + 1, Len(n)) <=> NoTraps(s, j + 1, Len(s))
      BY <1>1, <1>3 DEF NoTraps
    <2>3. \A i \in 1 .. Len(s), j \in 1 .. Len(s) :
            NoTraps(n, j + 1, i - 1) <=> NoTraps(s, j + 1, i - 1)
      <3> SUFFICES ASSUME NEW i \in 1 .. Len(s), NEW j \in 1 .. Len(s)
                   PROVE  NoTraps(n, j + 1, i - 1) <=> NoTraps(s, j + 1, i - 1)
        OBVIOUS
      <3>1. \A k \in j + 1 .. i - 1 : k \in 1 .. Len(s)
        OBVIOUS
      <3> QED  BY <1>3, <3>1 DEF NoTraps
    <2>4. ASSUME NEW j \in 1 .. Len(n), n[j].kind = "trap", NoTraps(n, j + 1, Len(n))
          PROVE  t = j - 1
      BY <1>3, <2>2, <2>4 DEF Sound, Chain
    <2>5. ASSUME NEW i \in 1 .. Len(n), NEW j \in 1 .. Len(n), j < i,
                 n[i].kind = "trap", n[j].kind = "trap", NoTraps(n, j + 1, i - 1)
          PROVE  n[i].otf = j - 1
      <3>1. /\ i \in 1 .. Len(s) /\ j \in 1 .. Len(s)
            /\ s[i].kind = "trap" /\ s[j].kind = "trap" /\ NoTraps(s, j + 1, i - 1)
        BY <1>3, <2>3, <2>5
      <3>2. s[i].otf = j - 1
        BY <2>5, <3>1 DEF Sound, Chain
      <3> QED  BY <2>1, <3>1, <3>2
    <2> QED  BY <2>4, <2>5 DEF Chain
  <1>7. PICK f \in Seq(Nat) : Saves(s, h, f)
    BY DEF Sound, Saved
  <1>8. /\ Len(f) \in Nat \ {0} /\ Len(h) = Len(f) + 1 /\ f[Len(f)] = t
        /\ Len(f) \in 1 .. Len(f)
    <2>1. \A i \in t + 1 .. Len(s) : s[i].kind # "frame"
      BY <1>1
    <2>2. /\ Len(f) \in Nat \ {0} /\ Len(h) = Len(f) + 1 /\ f[Len(f)] = t
      <3>1. t \in 1 .. Len(s) /\ s[t].kind = "frame" /\ Saves(s, h, f)
        BY <1>1, <1>2, <1>7
      <3> QED  BY <2>1, <3>1, LastFrame
    <2> QED  BY <2>2
  <1>9. ASSUME NEW k \in 1 .. Len(f)
        PROVE  n[f[k]].eax = g[k].eax /\ n[f[k]].ebx = g[k].ebx
    <2>1. CASE k = Len(f)
      <3>1. f[k] = t /\ k = Len(h) - 1
        BY <1>8, <2>1
      <3> QED  BY <3>1
    <2>2. CASE k # Len(f)
      <3>1. k < Len(f) /\ k \in 1 .. Len(h) /\ k # Len(h) - 1
        BY <1>8, <2>2
      <3>2. f[k] < f[Len(f)] /\ f[k] \in 1 .. Len(s)
        BY <1>7, <1>8, <3>1 DEF Saves
      <3>3. g[k] = h[k]
        BY <3>1
      <3>4. f[k] # t
        BY <1>1, <1>8, <3>2
      <3>5. n[f[k]] = s[f[k]]
        BY <3>2, <3>4
      <3> QED  BY <1>7, <3>3, <3>5 DEF Saves
    <2> QED  BY <2>1, <2>2
  <1>10. Saves(n, g, f)
    BY <1>3, <1>7, <1>9 DEF Saves
  <1> QED  BY <1>4, <1>5, <1>6, <1>10 DEF Sound, Saved

\* In the first call of all there is one level below.
LEMMA OneLevel ==
    ASSUME NEW s \in Seq(Items), NEW h \in Seq(Regs), NEW t \in Nat, Sound(s, h, t),
           Len(s) = 2, s[2].kind = "trap"
    PROVE  Len(h) = 2
  <1>1. PICK f \in Seq(Nat) : Saves(s, h, f)
    BY DEF Sound, Saved
  <1>2. /\ Len(f) \in Nat /\ Len(h) = Len(f) + 1
        /\ \A k \in 1 .. Len(f) : f[k] \in 1 .. 2 /\ s[f[k]].kind = "frame"
        /\ \A k, l \in 1 .. Len(f) : k < l => f[k] < f[l]
    BY <1>1 DEF Saves
  <1>3. \A k \in 1 .. Len(f) : f[k] = 1
    BY <1>2
  <1>4. Len(f) \in 1 .. Len(f) => 1 \in 1 .. Len(f)
    BY <1>2
  <1>5. Len(f) =< 1
    BY <1>2, <1>3, <1>4
  <1>6. Len(s) > 0 /\ s[Len(s)].kind = "trap"
    OBVIOUS
  <1>7. Len(h) \in Nat \ {0, 1}
    BY <1>6, TopTrap
  <1> QED  BY <1>2, <1>5, <1>7

\* The stack of a process that has just been made.
LEMMA FirstFrame ==
    ASSUME NEW x \in Frames, NEW r \in Regs, NEW q \in Regs, NEW t \in Nat,
           x.at \in {"user", "kernel"}, x.eax = r.eax, x.ebx = r.ebx
    PROVE  /\ <<x>> \in Seq(Items) /\ <<r, q>> \in Seq(Regs)
           /\ Sound(<<x>>, <<r, q>>, t) /\ NoRuns(<<x>>)
  <1>1. x \in Items /\ x.kind = "frame"
    BY DEF Items, Frames
  <1>2. /\ <<x>> \in Seq(Items) /\ Len(<<x>>) = 1 /\ <<x>>[1] = x
        /\ <<r, q>> \in Seq(Regs) /\ Len(<<r, q>>) = 2 /\ <<r, q>>[1] = r
    BY <1>1
  <1> DEFINE s == <<x>>
             h == <<r, q>>
             f == <<1>>
  <1>3. f \in Seq(Nat) /\ Len(f) = 1 /\ f[1] = 1
    OBVIOUS
  <1> HIDE DEF s, h, f
  <1>4. Len(s) = 1 /\ s[1] = x /\ Len(h) = 2 /\ h[1] = r
    BY <1>2 DEF s, h
  <1>5. \A i \in 1 .. Len(s) : i = 1 /\ s[i].kind = "frame"
    BY <1>1, <1>4
  <1>6. Shape(s) /\ NoRuns(s) /\ Chain(s, t)
    <2>1. Shape(s)
      BY <1>4, <1>5 DEF Shape
    <2>2. NoRuns(s)
      BY <1>5 DEF NoRuns
    <2>3. Chain(s, t)
      BY <1>5 DEF Chain
    <2> QED  BY <2>1, <2>2, <2>3
  <1>7. Saves(s, h, f)
    BY <1>3, <1>4, <1>5 DEF Saves
  <1>8. Saved(s, h)
    BY <1>3, <1>7 DEF Saved
  <1> QED  BY <1>2, <1>6, <1>8 DEF s, h, Sound

----------------------------------------------------------------------------
(* The invariant holds at first, and each step keeps it.                   *)

\* A step of the code of current, which keeps the CPU.
LEMMA MineStep ==
    ASSUME Inv, TypeOK', current' = current, context' = context,
           \A p \in Procs : p # current =>
                stack'[p] = stack[p] /\ tf'[p] = tf[p] /\ held'[p] = held[p],
           held'[current] # <<>>,
           Sound(stack'[current], held'[current], tf'[current]),
           Poised(stack'[current], held'[current], tf'[current], at', esp', ebx'),
           at' \in {"user", "kernel", "tail", "entry", "back"} =>
                held'[current][Len(held'[current])] = [eax |-> eax', ebx |-> ebx']
    PROVE  Inv'
  <1>1. Stacks'
    BY DEF Inv, Stacks
  <1>2. OnCpu'
    BY DEF Inv, OnCpu
  <1>3. OffCpu'
    BY DEF Inv, OnCpu, OffCpu
  <1>4. Owned'
    BY DEF Owned, Now
  <1> QED  BY <1>1, <1>2, <1>3, <1>4 DEF Inv

\* What the invariant says of current.
LEMMA CurrentLemma ==
    ASSUME Inv
    PROVE  /\ current \in Procs /\ esp0 = current /\ at \in Running /\ fl_if \in BOOLEAN
           /\ Now \in Regs
           /\ stack[current] \in Seq(Items) /\ held[current] \in Seq(Regs)
           /\ tf[current] \in Nat /\ Mine = stack[current]
           /\ Len(stack[current]) \in Nat /\ esp = Len(stack[current])
           /\ Len(held[current]) \in Nat \ {0}
           /\ held[current] # <<>> /\ context[current].at = "none"
           /\ Sound(stack[current], held[current], tf[current])
           /\ Poised(stack[current], held[current], tf[current], at, esp, ebx)
  <1>1. /\ current \in Procs /\ esp0 = current /\ at \in Running /\ fl_if \in BOOLEAN
        /\ Now \in Regs
        /\ stack[current] \in Seq(Items) /\ held[current] \in Seq(Regs)
        /\ tf[current] \in Nat
    BY DEF Inv, TypeOK, Now, Regs
  <1>2. /\ held[current] # <<>> /\ context[current].at = "none"
        /\ Poised(stack[current], held[current], tf[current], at, esp, ebx)
    BY DEF Inv, OnCpu
  <1>3. Sound(stack[current], held[current], tf[current])
    BY <1>1, <1>2 DEF Inv, Stacks
  <1>4. esp = Len(stack[current]) /\ Len(stack[current]) \in Nat
    BY <1>1, <1>2 DEF Poised
  <1>5. Mine = stack[current]
    BY <1>1, <1>4, WholeLemma DEF Mine
  <1>6. Len(held[current]) \in Nat \ {0}
    BY <1>1, <1>3, SavedLen DEF Sound
  <1> QED  BY <1>1, <1>2, <1>3, <1>4, <1>5, <1>6

LEMMA JunkRegs == Junk \in Eaxs /\ 0 \in Eaxs /\ pid \in Eaxs /\ Junk \in Ebxs /\ Zeroed \in Ebxs
                  /\ \A p \in Procs, n \in Nat : Mark(p, n) \in Ebxs
  BY DEF Eaxs, Ebxs

\* Registers that change at the level that runs.
LEMMA BecomeLemma ==
    ASSUME NEW s \in Seq(Items), NEW h \in Seq(Regs), NEW t \in Nat, NEW r \in Regs,
           Sound(s, h, t)
    PROVE  LET g == [h EXCEPT ![Len(h)] = r] IN
           /\ g \in Seq(Regs) /\ Len(g) = Len(h) /\ g # <<>> /\ g[Len(g)] = r
           /\ \A k \in 1 .. Len(h) - 1 : g[k] = h[k]
           /\ Sound(s, g, t)
  <1> DEFINE g == [h EXCEPT ![Len(h)] = r]
  <1>1. Len(h) \in Nat \ {0} /\ Len(h) \in 1 .. Len(h)
    BY SavedLen DEF Sound
  <1>2. /\ g \in Seq(Regs) /\ Len(g) = Len(h) /\ g[Len(h)] = r
        /\ \A k \in 1 .. Len(h) - 1 : g[k] = h[k]
    BY <1>1
  <1>3. g # <<>>
    BY <1>1, <1>2
  <1> HIDE DEF g
  <1>4. Sound(s, g, t)
    BY <1>2, TopChanges DEF Sound
  <1> QED  BY <1>2, <1>3, <1>4 DEF g

LEMMA ComputeStep == ASSUME Inv, Compute PROVE Inv'
  <1> USE CurrentLemma, JunkRegs
  <1> DEFINE r == [eax |-> Junk, ebx |-> Mark(current, 1)]
             g == [held[current] EXCEPT ![Len(held[current])] = r]
  <1>1. r \in Regs
    BY DEF Regs
  <1>2. /\ g \in Seq(Regs) /\ g # <<>> /\ g[Len(g)] = r
        /\ Sound(stack[current], g, tf[current])
    BY <1>1, BecomeLemma
  <1>3. /\ held' = [held EXCEPT ![current] = g]
        /\ eax' = Junk /\ ebx' = Mark(current, 1)
    BY DEF Compute, Become
  <1> HIDE DEF g
  <1>4. held'[current] = g /\ \A p \in Procs : p # current => held'[p] = held[p]
    BY <1>3 DEF Inv, TypeOK
  <1>5. TypeOK'
    BY <1>2, <1>3 DEF Compute, Inv, TypeOK
  <1>6. Poised(stack[current], g, tf[current], at, esp, ebx')
    BY DEF Compute, Poised
  <1> QED  BY <1>2, <1>3, <1>4, <1>5, <1>6, MineStep DEF Compute

LEMMA TrapStep == ASSUME Inv, NEW flag \in BOOLEAN, Trap(flag) PROVE Inv'
  <1> USE CurrentLemma, JunkRegs
  <1> DEFINE x == Frame(eax, ebx, at, fl_if)
             r == [eax |-> Junk, ebx |-> ebx]
             n == Append(stack[current], x)
             g == Append(held[current], r)
  <1>1. at \in {"user", "kernel", "tail", "entry"}
    BY DEF Trap
  <1>2. held[current][Len(held[current])] = Now
    BY <1>1 DEF Inv, Owned
  <1>3. /\ x \in Frames /\ x.kind = "frame" /\ x.at = at
        /\ x.eax = Now.eax /\ x.ebx = Now.ebx
    BY <1>1 DEF Inv, TypeOK, Frames, Frame, Now
  <1>4. r \in Regs
    BY DEF Regs, Inv, TypeOK
  <1>5. Sound(n, g, tf[current]) /\ NoRuns(n)
    <2>1. /\ NoRuns(stack[current])
          /\ at = "user" => Len(stack[current]) = 0
          /\ at = "entry" => Len(stack[current]) > 0
                    /\ stack[current][Len(stack[current])].kind = "frame"
          /\ at = "tail" => Len(stack[current]) > 0
      BY <1>1 DEF Poised
    <2> HIDE DEF x, r
    <2> QED  BY <1>2, <1>3, <1>4, <2>1, PushFrame
  <1>6. /\ n \in Seq(Items) /\ Len(n) = Len(stack[current]) + 1
        /\ n[Len(n)] = x
    BY <1>3, PushLemma DEF Items
  <1>7. /\ g \in Seq(Regs) /\ g # <<>> /\ Len(g) = Len(held[current]) + 1
        /\ g[Len(g)] = r
    <2> HIDE DEF r
    <2> QED  BY <1>4, PushLemma
  <1>8. /\ stack' = [stack EXCEPT ![current] = n]
        /\ held' = [held EXCEPT ![current] = g]
        /\ esp' = Len(stack[current]) + 1 /\ fl_if' = flag /\ at' = "entry" /\ eax' = Junk
        /\ UNCHANGED <<current, ebx, esp0, tf, context>>
    BY DEF Trap
  <1> HIDE DEF n, g, x
  <1>9. /\ stack'[current] = n /\ held'[current] = g
        /\ \A p \in Procs : p # current => stack'[p] = stack[p] /\ held'[p] = held[p]
    BY <1>8 DEF Inv, TypeOK
  <1>10. TypeOK'
    BY <1>6, <1>7, <1>8 DEF Inv, TypeOK, Running
  <1>11. Poised(n, g, tf[current], at', esp', ebx')
    BY <1>3, <1>5, <1>6, <1>8 DEF Poised
  <1> QED  BY <1>5, <1>7, <1>8, <1>9, <1>10, <1>11, MineStep

LEMMA TrapEnterStep == ASSUME Inv, TrapEnter PROVE Inv'
  <1> USE CurrentLemma, JunkRegs
  <1> DEFINE x == [kind |-> "trap", otf |-> tf[current]]
             r == [eax |-> Junk, ebx |-> Mark(current, Len(held[current]))]
             n == Append(stack[current], x)
             g == [held[current] EXCEPT ![Len(held[current])] = r]
  <1>1. x \in Traps /\ x \in Items /\ x.kind = "trap" /\ x.otf = tf[current]
    BY DEF Traps, Items
  <1>2. r \in Regs
    BY DEF Regs
  <1>3. /\ Len(stack[current]) > 0 /\ stack[current][Len(stack[current])].kind = "frame"
        /\ NoRuns(stack[current])
    BY DEF TrapEnter, Poised
  <1> HIDE DEF x, r
  <1>4. /\ Sound(n, held[current], Len(stack[current])) /\ NoRuns(n)
        /\ n \in Seq(Items) /\ Len(n) = Len(stack[current]) + 1
    BY <1>1, <1>3, PushTrap, PushLemma
  <1> HIDE DEF n
  <1>5. /\ g \in Seq(Regs) /\ g # <<>> /\ g[Len(g)] = r
        /\ Sound(n, g, Len(stack[current]))
    BY <1>2, <1>4, BecomeLemma
  <1> HIDE DEF g
  <1>6. /\ stack' = [stack EXCEPT ![current] = n]
        /\ held' = [held EXCEPT ![current] = g]
        /\ tf' = [tf EXCEPT ![current] = esp]
        /\ esp' = esp + 1 /\ at' = "kernel"
        /\ r = [eax |-> eax', ebx |-> ebx']
        /\ eax' = Junk /\ ebx' = Mark(current, Len(held[current]))
        /\ UNCHANGED <<current, fl_if, esp0, context>>
    BY DEF TrapEnter, Become, n, g, x, r
  <1>7. /\ stack'[current] = n /\ held'[current] = g /\ tf'[current] = Len(stack[current])
        /\ \A p \in Procs : p # current =>
                stack'[p] = stack[p] /\ held'[p] = held[p] /\ tf'[p] = tf[p]
    BY <1>6 DEF Inv, TypeOK
  <1>8. TypeOK'
    BY <1>4, <1>5, <1>6 DEF Inv, TypeOK, Running
  <1>9. Poised(n, g, Len(stack[current]), at', esp', ebx')
    BY <1>4, <1>6 DEF Poised
  <1> QED  BY <1>5, <1>6, <1>7, <1>8, <1>9, MineStep

\* The stack and the frame of a handler.
LEMMA InTrapLemma ==
    ASSUME Inv, InTrap
    PROVE  LET s == stack[current]
               h == held[current]
               t == tf[current] IN
           /\ at = "kernel" /\ Len(s) > 0 /\ s[Len(s)].kind = "trap"
           /\ NoRuns(s) /\ t = Len(s) - 1 /\ t \in 1 .. Len(s) /\ Len(s) \in 1 .. Len(s)
           /\ TheFrame = s[t] /\ s[t] \in Frames
           /\ Len(h) \in Nat \ {0, 1} /\ h[Len(h)] = Now
           /\ s[t].eax = h[Len(h) - 1].eax /\ s[t].ebx = h[Len(h) - 1].ebx
  <1> USE CurrentLemma
  <1>1. /\ at = "kernel" /\ Len(stack[current]) > 0
        /\ stack[current][Len(stack[current])].kind = "trap"
    BY DEF InTrap
  <1>2. held[current][Len(held[current])] = Now
    BY <1>1 DEF Inv, Owned
  <1>3. TheFrame = stack[current][tf[current]]
    BY DEF TheFrame
  <1> QED  BY <1>1, <1>2, <1>3, TopTrap

LEMMA Below ==
    \A n \in Nat \ {0, 1} : n - 1 \in 1 .. n /\ n \in 1 .. n /\ n - 1 # n /\ n - 1 > 0
  OBVIOUS

\* A result goes into the frame, and is what the level below will find.
LEMMA ResultLemma ==
    ASSUME Inv, InTrap, NEW v \in Eaxs
    PROVE  LET n == [stack[current] EXCEPT ![tf[current]].eax = v]
               g == [held[current] EXCEPT ![Len(held[current]) - 1].eax = v] IN
           /\ n \in Seq(Items) /\ Len(n) = Len(stack[current])
           /\ g \in Seq(Regs) /\ g # <<>>
           /\ g[Len(g)] = Now
           /\ Sound(n, g, tf[current]) /\ NoRuns(n)
  <1> USE CurrentLemma, InTrapLemma
  <1> DEFINE s == stack[current]
             h == held[current]
             t == tf[current]
             n == [s EXCEPT ![t].eax = v]
             g == [h EXCEPT ![Len(h) - 1].eax = v]
             x == [s[t] EXCEPT !.eax = v]
             r == [h[Len(h) - 1] EXCEPT !.eax = v]
  <1>1. /\ x \in Frames /\ x \in Items /\ x.at = s[t].at /\ x.eax = v /\ x.ebx = s[t].ebx
    BY DEF Frames, Items
  <1>2. Len(h) - 1 \in 1 .. Len(h) /\ Len(h) \in 1 .. Len(h) /\ Len(h) # Len(h) - 1
    <2>1. Len(h) \in Nat \ {0, 1}
      OBVIOUS
    <2> QED  BY <2>1, Below
  <1>3. h[Len(h) - 1] \in Regs
    BY <1>2
  <1>4. r \in Regs /\ r.eax = v /\ r.ebx = h[Len(h) - 1].ebx
    BY <1>3 DEF Regs
  <1>5. n = [s EXCEPT ![t] = x] /\ g = [h EXCEPT ![Len(h) - 1] = r]
    OBVIOUS
  <1> HIDE DEF x, r
  <1>6. /\ n \in Seq(Items) /\ Len(n) = Len(s) /\ n[t] = x
        /\ \A i \in 1 .. Len(s) : i # t => n[i] = s[i]
    <2> HIDE DEF n, t
    <2> QED  BY <1>1, <1>5 DEF t
  <1>7. /\ g \in Seq(Regs) /\ Len(g) = Len(h) /\ g[Len(h) - 1] = r
        /\ \A k \in 1 .. Len(h) : k # Len(h) - 1 => g[k] = h[k]
    <2> HIDE DEF g
    <2> QED  BY <1>2, <1>4, <1>5
  <1> HIDE DEF n, g
  <1>8. Sound(n, g, t) /\ NoRuns(n)
    <2>1. /\ s \in Seq(Items) /\ h \in Seq(Regs) /\ t \in Nat /\ Sound(s, h, t)
          /\ Len(s) > 0 /\ s[Len(s)].kind = "trap"
      OBVIOUS
    <2>2. /\ n[t] \in Frames /\ n[t].at = s[t].at
          /\ n[t].eax = g[Len(h) - 1].eax /\ n[t].ebx = g[Len(h) - 1].ebx
      <3>1. s[t].ebx = h[Len(h) - 1].ebx
        OBVIOUS
      <3> QED  BY <1>1, <1>4, <1>6, <1>7, <3>1
    <2> HIDE DEF s, h, t
    <2> QED  BY <1>6, <1>7, <2>1, <2>2, Rewrite
  <1>9. g # <<>> /\ g[Len(g)] = Now
    BY <1>2, <1>7
  <1> QED  BY <1>6, <1>7, <1>8, <1>9 DEF n, g

LEMMA SysReturnsStep == ASSUME Inv, SysReturns PROVE Inv'
  <1> USE CurrentLemma, JunkRegs
  <1> DEFINE n == [stack[current] EXCEPT ![tf[current]].eax = 0]
             g == [held[current] EXCEPT ![Len(held[current]) - 1].eax = 0]
  <1>1. InTrap
    BY DEF SysReturns, Calling
  <1>2. /\ n \in Seq(Items) /\ Len(n) = Len(stack[current])
        /\ g \in Seq(Regs) /\ g # <<>> /\ g[Len(g)] = Now
        /\ Sound(n, g, tf[current]) /\ NoRuns(n) /\ Len(n) > 0
    BY <1>1, ResultLemma, InTrapLemma
  <1>3. /\ stack' = [stack EXCEPT ![current] = n]
        /\ held' = [held EXCEPT ![current] = g] /\ at' = "tail"
        /\ UNCHANGED <<current, eax, ebx, esp, fl_if, esp0, tf, context>>
    BY DEF SysReturns, Answer
  <1> HIDE DEF n, g
  <1>4. /\ stack'[current] = n /\ held'[current] = g
        /\ \A p \in Procs : p # current => stack'[p] = stack[p] /\ held'[p] = held[p]
    BY <1>3 DEF Inv, TypeOK
  <1>5. TypeOK'
    BY <1>2, <1>3 DEF Inv, TypeOK, Running
  <1>6. Poised(n, g, tf[current], at', esp', ebx')
    BY <1>2, <1>3 DEF Poised
  <1> QED  BY <1>2, <1>3, <1>4, <1>5, <1>6, MineStep DEF Now

LEMMA HandledStep == ASSUME Inv, Handled PROVE Inv'
  <1> USE CurrentLemma
  <1>1. InTrap
    BY DEF Handled
  <1>2. /\ Len(stack[current]) > 0 /\ NoRuns(stack[current])
        /\ held[current][Len(held[current])] = Now
    BY <1>1, InTrapLemma
  <1>3. at' = "tail"
        /\ UNCHANGED <<current, eax, ebx, esp, fl_if, esp0, stack, tf, context, held>>
    BY DEF Handled
  <1>4. TypeOK'
    BY <1>3 DEF Inv, TypeOK, Running
  <1>5. Poised(stack[current], held[current], tf[current], at', esp', ebx')
    BY <1>2, <1>3 DEF Poised
  <1> QED  BY <1>2, <1>3, <1>4, <1>5, MineStep DEF Now

LEMMA TrapLeaveStep == ASSUME Inv, TrapLeave PROVE Inv'
  <1> USE CurrentLemma
  <1> DEFINE s == stack[current]
             q == SubSeq(s, 1, Len(s) - 1)
             u == s[Len(s)].otf
  <1>1. at = "tail" /\ s[Len(s)].kind = "trap" /\ Len(s) > 0
    BY DEF TrapLeave, Poised
  <1>2. /\ u \in Nat /\ Sound(q, held[current], u) /\ NoRuns(q)
        /\ Len(q) > 0 /\ q[Len(q)].kind = "frame"
        /\ q \in Seq(Items) /\ Len(q) = Len(s) - 1
    BY <1>1, PopTrap, PopLemma
  <1>3. held[current][Len(held[current])] = Now
    BY <1>1 DEF Inv, Owned
  <1>4. /\ tf' = [tf EXCEPT ![current] = u]
        /\ stack' = [stack EXCEPT ![current] = q]
        /\ esp' = Len(s) - 1 /\ at' \in {"back", "trapret"}
        /\ UNCHANGED <<current, eax, ebx, fl_if, esp0, context, held>>
    BY DEF TrapLeave, Pop
  <1> HIDE DEF q, u
  <1>5. /\ stack'[current] = q /\ tf'[current] = u
        /\ \A p \in Procs : p # current => stack'[p] = stack[p] /\ tf'[p] = tf[p]
    BY <1>4 DEF Inv, TypeOK
  <1>6. TypeOK'
    BY <1>2, <1>4 DEF Inv, TypeOK, Running
  <1>7. Poised(q, held[current], u, at', esp', ebx')
    BY <1>2, <1>4 DEF Poised
  <1> QED  BY <1>2, <1>3, <1>4, <1>5, <1>6, <1>7, MineStep DEF Now

LEMMA BackStep == ASSUME Inv, Back PROVE Inv'
  <1> USE CurrentLemma
  <1>1. at = "back" /\ at' = "trapret"
        /\ UNCHANGED <<current, eax, ebx, esp, fl_if, esp0, stack, tf, context, held>>
    BY DEF Back
  <1>2. TypeOK'
    BY <1>1 DEF Inv, TypeOK, Running
  <1>3. Poised(stack[current], held[current], tf[current], at', esp', ebx')
    BY <1>1 DEF Poised
  <1> QED  BY <1>1, <1>2, <1>3, MineStep

LEMMA TrapRetStep == ASSUME Inv, TrapRet PROVE Inv'
  <1> USE CurrentLemma
  <1> DEFINE s == stack[current]
             h == held[current]
             q == SubSeq(s, 1, Len(s) - 1)
             g == Front(h)
             x == s[Len(s)]
  <1>1. at = "trapret" /\ Len(s) > 0 /\ x.kind = "frame" /\ Len(s) \in 1 .. Len(s)
    BY DEF TrapRet, Poised
  <1>2. /\ Sound(q, g, tf[current]) /\ NoRuns(q)
        /\ Len(h) \in Nat \ {0, 1} /\ g \in Seq(Regs)
        /\ Len(g) = Len(h) - 1 /\ g[Len(h) - 1] = h[Len(h) - 1]
        /\ x.eax = h[Len(h) - 1].eax /\ x.ebx = h[Len(h) - 1].ebx
    BY <1>1, PopFrame
  <1>3. q \in Seq(Items) /\ Len(q) = Len(s) - 1 /\ \A i \in 1 .. Len(s) - 1 : q[i] = s[i]
    BY <1>1, PopLemma
  <1>4. x \in Items
    BY <1>1
  <1>5. x \in Frames
    BY <1>1, <1>4, ItemKinds
  <1>6. /\ x.at \in {"user", "kernel", "tail", "entry"} /\ x.eax \in Eaxs /\ x.ebx \in Ebxs
        /\ x.fl_if \in BOOLEAN
    BY <1>5 DEF Frames
  <1>7. /\ x.at = "user" => Len(q) = 0
        /\ x.at = "entry" => Len(q) > 0 /\ q[Len(q)].kind = "frame"
        /\ x.at = "tail" => Len(q) > 0
    <2>1. /\ x.at = "user" => Len(s) = 1
          /\ x.at = "entry" => Len(s) > 1 /\ s[Len(s) - 1].kind = "frame"
          /\ x.at = "tail" => Len(s) > 1
      BY <1>1 DEF Sound, Shape
    <2>2. Len(s) > 1 => q[Len(q)] = s[Len(s) - 1]
      <3> SUFFICES ASSUME Len(s) > 1 PROVE Len(s) - 1 \in 1 .. Len(s) - 1
        BY <1>3
      <3> QED  OBVIOUS
    <2> QED  BY <1>3, <2>1, <2>2
  <1>8. /\ stack' = [stack EXCEPT ![current] = q]
        /\ held' = [held EXCEPT ![current] = g]
        /\ eax' = x.eax /\ ebx' = x.ebx /\ at' = x.at /\ fl_if' = x.fl_if
        /\ esp' = IF x.at = "user" THEN 0 ELSE Len(s) - 1
        /\ UNCHANGED <<current, esp0, tf, context>>
    BY DEF TrapRet, Pop, FromUser
  <1>9. esp' = Len(q)
    BY <1>3, <1>7, <1>8
  <1>10. g # <<>> /\ g[Len(g)] = h[Len(h) - 1] /\ h[Len(h) - 1] \in Regs
    <2>1. Len(h) - 1 \in 1 .. Len(h)
      BY <1>2, Below
    <2>2. Len(g) > 0
      <3>1. Len(g) = Len(h) - 1 /\ Len(h) \in Nat \ {0, 1}
        BY <1>2
      <3>2. Len(h) - 1 > 0
        BY <3>1, Below
      <3> HIDE DEF g, h
      <3> QED  BY <3>1, <3>2
    <2> QED  BY <1>2, <2>1, <2>2
  <1> HIDE DEF q, g, x
  <1>11. g[Len(g)] = [eax |-> eax', ebx |-> ebx']
    BY <1>2, <1>8, <1>10 DEF Regs
  <1>12. /\ stack'[current] = q /\ held'[current] = g
         /\ \A p \in Procs : p # current => stack'[p] = stack[p] /\ held'[p] = held[p]
    BY <1>8 DEF Inv, TypeOK
  <1>13. TypeOK'
    <2>1. esp' \in Nat
      BY <1>3, <1>9
    <2> QED  BY <1>2, <1>3, <1>6, <1>8, <2>1 DEF Inv, TypeOK, Running
  <1>14. Poised(q, g, tf[current], at', esp', ebx')
    BY <1>2, <1>6, <1>7, <1>8, <1>9 DEF Poised
  <1> QED  BY <1>2, <1>8, <1>10, <1>11, <1>12, <1>13, <1>14, MineStep

LEMMA SwitchedStep == ASSUME Inv, Switched PROVE Inv'
  <1> USE CurrentLemma
  <1> DEFINE s == stack[current]
             h == held[current]
             q == SubSeq(s, 1, Len(s) - 1)
             x == s[Len(s)]
             r == [h[Len(h)] EXCEPT !.eax = eax]
             g == [h EXCEPT ![Len(h)] = r]
  <1>1. /\ at = "switched" /\ Len(s) > 0 /\ x.kind = "run" /\ h[Len(h)].ebx = ebx
    BY DEF Switched, Poised
  <1>2. /\ x \in Runs /\ Sound(q, h, tf[current]) /\ NoRuns(q)
        /\ x.at = "back" => Len(q) > 0 /\ q[Len(q)].kind = "frame"
        /\ q \in Seq(Items) /\ Len(q) = Len(s) - 1
    BY <1>1, PopRun, PopLemma
  <1>3. x.at \in {"back", "kernel"} /\ x.flag \in BOOLEAN
    BY <1>2 DEF Runs
  <1>4. r \in Regs /\ r = Now
    <2>1. h[Len(h)] \in Regs
      OBVIOUS
    <2> QED  BY <1>1, <2>1 DEF Regs, Now
  <1> HIDE DEF q, r
  <1>5. g \in Seq(Regs) /\ g # <<>> /\ g[Len(g)] = r /\ Sound(q, g, tf[current])
    BY <1>2, <1>4, BecomeLemma
  <1>6. /\ stack' = [stack EXCEPT ![current] = q]
        /\ held' = [held EXCEPT ![current] = g]
        /\ at' = x.at /\ fl_if' = x.flag /\ esp' = Len(s) - 1
        /\ UNCHANGED <<current, eax, ebx, esp0, tf, context>>
    BY DEF Switched, Pop, q, r
  <1> HIDE DEF g, x
  <1>7. /\ stack'[current] = q /\ held'[current] = g
        /\ \A p \in Procs : p # current => stack'[p] = stack[p] /\ held'[p] = held[p]
    BY <1>6 DEF Inv, TypeOK
  <1>8. esp' = Len(q) /\ Len(q) \in Nat
    BY <1>2, <1>6
  <1>9. TypeOK'
    BY <1>2, <1>3, <1>5, <1>6, <1>8 DEF Inv, TypeOK, Running
  <1>10. Poised(q, g, tf[current], at', esp', ebx')
    BY <1>2, <1>3, <1>6, <1>8 DEF Poised
  <1> QED  BY <1>4, <1>5, <1>6, <1>7, <1>9, <1>10, MineStep DEF Now

LEMMA ForkRetStep == ASSUME Inv, ForkRet PROVE Inv'
  <1> USE CurrentLemma
  <1>1. /\ at = "forkret" /\ esp' = tf[current] /\ at' = "trapret"
        /\ UNCHANGED <<current, eax, ebx, fl_if, esp0, stack, tf, context, held>>
    BY DEF ForkRet
  <1>2. /\ esp = 1 /\ stack[current][1].kind = "frame" /\ tf[current] = 1
        /\ NoRuns(stack[current])
    BY <1>1 DEF Poised
  <1>3. TypeOK'
    BY <1>1 DEF Inv, TypeOK, Running
  <1>4. Poised(stack[current], held[current], tf[current], at', esp', ebx')
    BY <1>1, <1>2 DEF Poised
  <1> QED  BY <1>1, <1>3, <1>4, MineStep

\* A step that gives the CPU to next.
LEMMA SwitchStep ==
    ASSUME Inv, TypeOK', NEW next \in Procs, context[next].at # "none", SwitchTo(next),
           context'[next].at = "none",
           \A p \in Procs : p # current =>
                stack'[p] = stack[p] /\ tf'[p] = tf[p] /\ held'[p] = held[p],
           \A p \in Procs : p # current /\ p # next => context'[p] = context[p],
           \/ held'[current] = <<>> /\ context'[current].at = "none"
           \/ /\ held'[current] # <<>> /\ context'[current].at # "none"
              /\ Sound(stack'[current], held'[current], tf'[current])
              /\ Poised(stack'[current], held'[current], tf'[current],
                        context'[current].at, context'[current].esp, context'[current].ebx)
    PROVE  Inv'
  <1> USE CurrentLemma
  <1>1. next # current
    OBVIOUS
  <1>2. /\ current' = next /\ at' = context[next].at
        /\ esp' = context[next].esp /\ ebx' = context[next].ebx
    BY DEF SwitchTo
  <1>3. /\ held[next] # <<>>
        /\ Poised(stack[next], held[next], tf[next], context[next].at,
                  context[next].esp, context[next].ebx)
    BY DEF Inv, OffCpu
  <1>4. Stacks'
    BY DEF Inv, Stacks
  <1>5. OnCpu'
    BY <1>1, <1>2, <1>3 DEF OnCpu
  <1>6. OffCpu'
    BY <1>1 DEF Inv, OffCpu
  <1>7. at' \in {"switched", "forkret"}
    BY <1>2 DEF Inv, TypeOK, Saving
  <1>8. Owned'
    BY <1>7 DEF Owned
  <1> QED  BY <1>4, <1>5, <1>6, <1>8 DEF Inv

LEMMA ProcRunStep == ASSUME Inv, NEW next \in Procs, proc_run(next) PROVE Inv'
  <1> USE CurrentLemma, JunkRegs
  <1> DEFINE s == stack[current]
             x == [kind |-> "run", at |-> at, flag |-> fl_if]
             n == Append(s, x)
             c == [at |-> "switched", esp |-> esp + 1, ebx |-> ebx]
  <1>1. at \in {"back", "kernel"} /\ context[next].at # "none" /\ SwitchTo(next)
    BY DEF proc_run
  <1>2. next # current
    BY <1>1
  <1>3. x \in Runs /\ x \in Items /\ x.kind = "run" /\ x.at = at
    BY <1>1 DEF Runs, Items
  <1>4. NoRuns(s) /\ (at = "back" => Len(s) > 0 /\ s[Len(s)].kind = "frame")
    BY <1>1 DEF Poised
  <1> HIDE DEF x
  <1>5. /\ Sound(n, held[current], tf[current])
        /\ n \in Seq(Items) /\ Len(n) = Len(s) + 1 /\ n[Len(s) + 1] = x
    BY <1>3, <1>4, PushRun, PushLemma
  <1>6. /\ stack' = [stack EXCEPT ![current] = n]
        /\ context' = [context EXCEPT ![next] = Nowhere, ![current] = c]
        /\ UNCHANGED <<tf, held>>
    BY DEF proc_run, x
  <1>7. held[current][Len(held[current])].ebx = ebx
    <2>1. held[current][Len(held[current])] = Now
      BY <1>1 DEF Inv, Owned
    <2> QED  BY <2>1 DEF Now
  <1> HIDE DEF n
  <1>8. /\ stack'[current] = n
        /\ \A p \in Procs : p # current => stack'[p] = stack[p]
        /\ context'[next] = Nowhere /\ context'[current] = c
        /\ \A p \in Procs : p # current /\ p # next => context'[p] = context[p]
    BY <1>2, <1>6 DEF Inv, TypeOK
  <1>9. Nowhere \in Saving /\ Nowhere.at = "none" /\ c \in Saving
    BY DEF Nowhere, Saving, Inv, TypeOK
  <1>10. TypeOK'
    <2>1. /\ current' = next /\ esp0' = next /\ fl_if' = FALSE /\ eax' = eax
          /\ at' = context[next].at /\ esp' = context[next].esp /\ ebx' = context[next].ebx
      BY <1>1 DEF SwitchTo, load_esp0
    <2>2. context[next] \in Saving
      BY DEF Inv, TypeOK
    <2>3. at' \in Running /\ esp' \in Nat /\ ebx' \in Ebxs
      BY <1>1, <2>1, <2>2 DEF Saving, Running
    <2>4. stack' \in [Procs -> Seq(Items)] /\ context' \in [Procs -> Saving]
      BY <1>5, <1>6, <1>9 DEF Inv, TypeOK
    <2> QED  BY <1>6, <2>1, <2>3, <2>4 DEF Inv, TypeOK
  <1>11. Poised(n, held[current], tf[current], "switched", esp + 1, ebx)
    BY <1>3, <1>5, <1>7 DEF Poised
  <1>12. /\ held'[current] # <<>> /\ context'[current].at # "none"
         /\ Sound(stack'[current], held'[current], tf'[current])
         /\ Poised(stack'[current], held'[current], tf'[current],
                   context'[current].at, context'[current].esp, context'[current].ebx)
    BY <1>5, <1>6, <1>8, <1>11
  <1>13. /\ context'[next].at = "none"
         /\ \A p \in Procs : p # current =>
                stack'[p] = stack[p] /\ tf'[p] = tf[p] /\ held'[p] = held[p]
    BY <1>6, <1>8, <1>9
  <1> QED  BY <1>1, <1>8, <1>10, <1>12, <1>13, SwitchStep

LEMMA SysExitStep == ASSUME Inv, NEW next \in Procs, SysExit(next) PROVE Inv'
  <1> USE CurrentLemma, JunkRegs
  <1>1. /\ context[next].at # "none" /\ SwitchTo(next)
        /\ held' = [held EXCEPT ![current] = <<>>]
        /\ stack' = [stack EXCEPT ![current] = <<>>]
        /\ tf' = [tf EXCEPT ![current] = 0]
        /\ context' = [context EXCEPT ![next] = Nowhere]
    BY DEF SysExit
  <1>2. next # current
    BY <1>1
  <1>3. /\ held'[current] = <<>> /\ context'[current] = context[current]
        /\ context'[next] = Nowhere
        /\ \A p \in Procs : p # current =>
                stack'[p] = stack[p] /\ tf'[p] = tf[p] /\ held'[p] = held[p]
        /\ \A p \in Procs : p # current /\ p # next => context'[p] = context[p]
    BY <1>1, <1>2 DEF Inv, TypeOK
  <1>4. Nowhere \in Saving /\ Nowhere.at = "none"
    BY DEF Nowhere, Saving
  <1>5. TypeOK'
    <2>1. /\ current' = next /\ esp0' = next /\ fl_if' = FALSE /\ eax' = eax
          /\ at' = context[next].at /\ esp' = context[next].esp /\ ebx' = context[next].ebx
      BY <1>1 DEF SwitchTo, load_esp0
    <2>2. context[next] \in Saving
      BY DEF Inv, TypeOK
    <2>3. at' \in Running /\ esp' \in Nat /\ ebx' \in Ebxs
      BY <1>1, <2>1, <2>2 DEF Saving, Running
    <2>4. <<>> \in Seq(Items) /\ <<>> \in Seq(Regs)
      OBVIOUS
    <2>5. /\ stack' \in [Procs -> Seq(Items)] /\ held' \in [Procs -> Seq(Regs)]
          /\ tf' \in [Procs -> Nat] /\ context' \in [Procs -> Saving]
      BY <1>1, <1>4, <2>4 DEF Inv, TypeOK
    <2> QED  BY <2>1, <2>3, <2>5 DEF Inv, TypeOK
  <1> QED  BY <1>1, <1>3, <1>4, <1>5, SwitchStep

LEMMA SysExecStep == ASSUME Inv, SysExec PROVE Inv'
  <1> USE CurrentLemma, JunkRegs
  <1> DEFINE s == stack[current]
             h == held[current]
             t == tf[current]
             x == Frame(0, Zeroed, "user", TRUE)
             r == [eax |-> 0, ebx |-> Zeroed]
             n == [s EXCEPT ![t] = x]
             g == <<r, Last(h)>>
  <1>1. InTrap /\ t = 1 /\ esp = 2
    BY DEF SysExec
  <1>2. /\ at = "kernel" /\ Len(s) > 0 /\ s[Len(s)].kind = "trap" /\ Len(s) = 2
        /\ h[Len(h)] = Now /\ t \in 1 .. Len(s)
    BY <1>1, InTrapLemma
  <1>3. Len(h) = 2
    BY <1>2, OneLevel
  <1>4. /\ x \in Frames /\ x \in Items /\ x.at = "user"
        /\ x.eax = r.eax /\ x.ebx = r.ebx
    BY DEF Frames, Items, Frame
  <1>5. r \in Regs /\ Last(h) = Now
    BY <1>2 DEF Regs, Last
  <1> HIDE DEF x, r
  <1>6. /\ n \in Seq(Items) /\ Len(n) = Len(s) /\ n[t] = x
        /\ \A i \in 1 .. Len(s) : i # t => n[i] = s[i]
    BY <1>2, <1>4
  <1>7. g \in Seq(Regs) /\ Len(g) = 2 /\ g[1] = r /\ g[2] = Now /\ g # <<>>
    BY <1>5
  <1>8. /\ stack' = [stack EXCEPT ![current] = n]
        /\ held' = [held EXCEPT ![current] = g] /\ at' = "tail"
        /\ UNCHANGED <<current, eax, ebx, esp, fl_if, esp0, tf, context>>
    BY DEF SysExec, x, r
  <1> HIDE DEF n, g
  <1>9. Sound(n, g, t) /\ NoRuns(n)
    <2>1. \A k \in 1 .. Len(h) : k # Len(h) - 1 => g[k] = h[k]
      <3>1. \A k \in 1 .. 2 : k # 1 => k = 2
        OBVIOUS
      <3> QED  BY <1>2, <1>3, <1>7, <3>1
    <2>2. Len(h) - 1 = 1
      BY <1>3
    <2>3. /\ n[t] \in Frames /\ n[t].at = "user" /\ t = 1
          /\ n[t].eax = g[Len(h) - 1].eax /\ n[t].ebx = g[Len(h) - 1].ebx
      BY <1>1, <1>4, <1>6, <1>7, <2>2
    <2>4. /\ s \in Seq(Items) /\ h \in Seq(Regs) /\ t \in Nat /\ Sound(s, h, t)
          /\ Len(s) > 0 /\ s[Len(s)].kind = "trap" /\ Len(g) = Len(h)
      BY <1>2, <1>3, <1>7
    <2> HIDE DEF s, h, t
    <2> QED  BY <1>6, <1>7, <2>1, <2>3, <2>4, Rewrite
  <1>10. /\ stack'[current] = n /\ held'[current] = g
         /\ \A p \in Procs : p # current => stack'[p] = stack[p] /\ held'[p] = held[p]
    BY <1>8 DEF Inv, TypeOK
  <1>11. TypeOK'
    BY <1>6, <1>7, <1>8 DEF Inv, TypeOK, Running
  <1>12. Poised(n, g, t, at', esp', ebx')
    BY <1>1, <1>2, <1>6, <1>8, <1>9 DEF Poised
  <1>13. g[Len(g)] = [eax |-> eax', ebx |-> ebx']
    BY <1>7, <1>8 DEF Now
  <1> QED  BY <1>7, <1>8, <1>9, <1>10, <1>11, <1>12, <1>13, MineStep

\* A step that makes the process c, with a frame for its first registers.
LEMMA MakeStep ==
    ASSUME Inv, TypeOK', NEW c \in Procs, c # current, current' = current,
           context'[c] = [at |-> "forkret", esp |-> 1, ebx |-> Junk], tf'[c] = 1,
           held'[c] # <<>>, Sound(stack'[c], held'[c], 1), NoRuns(stack'[c]),
           Len(stack'[c]) = 1, stack'[c][1].kind = "frame",
           \A p \in Procs : p # current /\ p # c => stack'[p] = stack[p] /\ held'[p] = held[p],
           \A p \in Procs : p # c => context'[p] = context[p] /\ tf'[p] = tf[p],
           held'[current] # <<>>,
           Sound(stack'[current], held'[current], tf[current]),
           Poised(stack'[current], held'[current], tf[current], at', esp', ebx'),
           held'[current][Len(held'[current])] = [eax |-> eax', ebx |-> ebx']
    PROVE  Inv'
  <1> USE CurrentLemma
  <1>1. Stacks'
    BY DEF Inv, Stacks
  <1>2. OnCpu'
    BY DEF Inv, OnCpu
  <1>3. Poised(stack'[c], held'[c], 1, "forkret", 1, Junk)
    BY DEF Poised
  <1>4. OffCpu'
    BY <1>3 DEF Inv, OffCpu
  <1>5. Owned'
    BY DEF Owned, Now
  <1> QED  BY <1>1, <1>2, <1>4, <1>5 DEF Inv

LEMMA SysForkStep == ASSUME Inv, NEW c \in Procs, SysFork(c) PROVE Inv'
  <1> USE CurrentLemma, JunkRegs
  <1> DEFINE s == stack[current]
             h == held[current]
             t == tf[current]
             n == [s EXCEPT ![t].eax = pid]
             g == [h EXCEPT ![Len(h) - 1].eax = pid]
             x == copy_thread(TheFrame)
             r == [h[Len(h) - 1] EXCEPT !.eax = 0]
             k == [at |-> "forkret", esp |-> 1, ebx |-> Junk]
  <1>1. InTrap /\ FromUser(TheFrame) /\ held[c] = <<>>
    BY DEF SysFork, Calling, NewProcess
  <1>2. c # current
    BY <1>1
  <1>3. /\ at = "kernel" /\ Len(s) > 0 /\ TheFrame = s[t] /\ s[t] \in Frames
        /\ Len(h) \in Nat \ {0, 1} /\ h[Len(h)] = Now /\ s[t].ebx = h[Len(h) - 1].ebx
    BY <1>1, InTrapLemma
  <1>4. /\ n \in Seq(Items) /\ Len(n) = Len(s)
        /\ g \in Seq(Regs) /\ g # <<>> /\ g[Len(g)] = Now
        /\ Sound(n, g, t) /\ NoRuns(n)
    BY <1>1, ResultLemma
  <1>5. /\ x \in Frames /\ x.at = "user" /\ x.eax = 0 /\ x.ebx = s[t].ebx
        /\ x.kind = "frame"
    BY <1>1, <1>3 DEF copy_thread, Frames, FromUser
  <1>6. r \in Regs /\ r.eax = 0 /\ r.ebx = h[Len(h) - 1].ebx
    <2>1. Len(h) - 1 \in 1 .. Len(h)
      BY <1>3, Below
    <2>2. h[Len(h) - 1] \in Regs
      BY <2>1
    <2> QED  BY <2>2 DEF Regs
  <1>7. /\ tf' = [tf EXCEPT ![c] = 1] /\ context' = [context EXCEPT ![c] = k]
        /\ stack' = [stack EXCEPT ![c] = <<x>>, ![current][t].eax = pid]
        /\ held' = [held EXCEPT ![c] = <<r, Now>>, ![current][Len(h) - 1].eax = pid]
        /\ at' = "tail" /\ UNCHANGED <<current, eax, ebx, esp, fl_if, esp0>>
    BY DEF SysFork, NewProcess
  <1>8. /\ stack' = [stack EXCEPT ![c] = <<x>>, ![current] = n]
        /\ held' = [held EXCEPT ![c] = <<r, Now>>, ![current] = g]
    BY <1>2, <1>7 DEF Inv, TypeOK
  <1> HIDE DEF n, g, x, r
  <1>9. /\ <<x>> \in Seq(Items) /\ <<r, Now>> \in Seq(Regs)
        /\ Sound(<<x>>, <<r, Now>>, 1) /\ NoRuns(<<x>>)
    BY <1>3, <1>5, <1>6, FirstFrame
  <1>10. /\ stack'[current] = n /\ held'[current] = g
         /\ stack'[c] = <<x>> /\ held'[c] = <<r, Now>> /\ tf'[c] = 1 /\ context'[c] = k
         /\ \A p \in Procs : p # current /\ p # c =>
                stack'[p] = stack[p] /\ held'[p] = held[p]
         /\ \A p \in Procs : p # c => context'[p] = context[p] /\ tf'[p] = tf[p]
    BY <1>2, <1>7, <1>8 DEF Inv, TypeOK
  <1>11. TypeOK'
    <2>1. k \in Saving
      BY DEF Saving
    <2>2. /\ stack' \in [Procs -> Seq(Items)] /\ held' \in [Procs -> Seq(Regs)]
      BY <1>4, <1>8, <1>9 DEF Inv, TypeOK
    <2>3. /\ tf' \in [Procs -> Nat] /\ context' \in [Procs -> Saving]
      BY <1>7, <2>1 DEF Inv, TypeOK
    <2> QED  BY <1>7, <2>2, <2>3 DEF Inv, TypeOK, Running
  <1>12. Poised(n, g, t, at', esp', ebx')
    BY <1>3, <1>4, <1>7 DEF Poised
  <1>13. g[Len(g)] = [eax |-> eax', ebx |-> ebx']
    BY <1>4, <1>7 DEF Now
  <1>14. <<r, Now>> # <<>> /\ Len(<<x>>) = 1 /\ <<x>>[1].kind = "frame"
    BY <1>5
  <1>15. /\ held'[current] # <<>> /\ Sound(stack'[current], held'[current], t)
         /\ Poised(stack'[current], held'[current], t, at', esp', ebx')
         /\ held'[current][Len(held'[current])] = [eax |-> eax', ebx |-> ebx']
    BY <1>4, <1>10, <1>12, <1>13
  <1>16. /\ held'[c] # <<>> /\ Sound(stack'[c], held'[c], 1) /\ NoRuns(stack'[c])
         /\ Len(stack'[c]) = 1 /\ stack'[c][1].kind = "frame"
    BY <1>9, <1>10, <1>14
  <1> QED  BY <1>2, <1>7, <1>10, <1>11, <1>15, <1>16, MakeStep

LEMMA KernelThreadStep == ASSUME Inv, NEW c \in Procs, kernel_thread(c) PROVE Inv'
  <1> USE CurrentLemma, JunkRegs
  <1> DEFINE fn == Mark(c, 1)
             x == copy_thread(Frame(Junk, fn, "kernel", FALSE))
             r == [eax |-> 0, ebx |-> fn]
             k == [at |-> "forkret", esp |-> 1, ebx |-> Junk]
  <1>1. held[c] = <<>> /\ at = "kernel"
    BY DEF kernel_thread, NewProcess
  <1>2. c # current
    BY <1>1
  <1>3. held[current][Len(held[current])] = Now
    BY <1>1 DEF Inv, Owned
  <1>4. /\ x \in Frames /\ x.at = "kernel" /\ x.eax = 0 /\ x.ebx = fn
        /\ x.kind = "frame"
    BY DEF copy_thread, Frame, Frames
  <1>5. r \in Regs /\ r.eax = 0 /\ r.ebx = fn
    BY DEF Regs
  <1>6. /\ tf' = [tf EXCEPT ![c] = 1] /\ context' = [context EXCEPT ![c] = k]
        /\ stack' = [stack EXCEPT ![c] = <<x>>]
        /\ held' = [held EXCEPT ![c] = <<r, Now>>]
        /\ UNCHANGED <<current, eax, ebx, at, esp, fl_if, esp0>>
    BY DEF kernel_thread, NewProcess
  <1> HIDE DEF x, r
  <1>7. /\ <<x>> \in Seq(Items) /\ <<r, Now>> \in Seq(Regs)
        /\ Sound(<<x>>, <<r, Now>>, 1) /\ NoRuns(<<x>>)
    BY <1>4, <1>5, FirstFrame
  <1>8. /\ stack'[current] = stack[current] /\ held'[current] = held[current]
        /\ stack'[c] = <<x>> /\ held'[c] = <<r, Now>> /\ tf'[c] = 1 /\ context'[c] = k
        /\ \A p \in Procs : p # current /\ p # c =>
                stack'[p] = stack[p] /\ held'[p] = held[p]
        /\ \A p \in Procs : p # c => context'[p] = context[p] /\ tf'[p] = tf[p]
    BY <1>2, <1>6 DEF Inv, TypeOK
  <1>9. TypeOK'
    <2>1. k \in Saving
      BY DEF Saving
    <2>2. /\ stack' \in [Procs -> Seq(Items)] /\ held' \in [Procs -> Seq(Regs)]
      BY <1>6, <1>7 DEF Inv, TypeOK
    <2>3. /\ tf' \in [Procs -> Nat] /\ context' \in [Procs -> Saving]
      BY <1>6, <2>1 DEF Inv, TypeOK
    <2> QED  BY <1>6, <2>2, <2>3 DEF Inv, TypeOK
  <1>10. held[current][Len(held[current])] = [eax |-> eax', ebx |-> ebx']
    BY <1>3, <1>6 DEF Now
  <1>11. <<r, Now>> # <<>> /\ Len(<<x>>) = 1 /\ <<x>>[1].kind = "frame"
    BY <1>4
  <1> QED  BY <1>2, <1>6, <1>7, <1>8, <1>9, <1>10, <1>11, MakeStep

LEMMA InitInv == ASSUME idleproc \in Procs, CpuInit PROVE Inv
  <1> USE JunkRegs
  <1> DEFINE r == [eax |-> Junk, ebx |-> Mark(idleproc, 1)]
             g == <<r>>
             f == <<>>
  <1>1. r \in Regs
    BY DEF Regs
  <1>2. g \in Seq(Regs) /\ Len(g) = 1 /\ g[1] = r /\ g # <<>>
    BY <1>1
  <1>3. /\ current = idleproc /\ eax = r.eax /\ ebx = r.ebx /\ Now = r /\ at = "kernel"
        /\ esp = 0 /\ fl_if = TRUE /\ esp0 = idleproc
        /\ stack = [p \in Procs |-> <<>>] /\ tf = [p \in Procs |-> 0]
        /\ context = [p \in Procs |-> Nowhere]
        /\ held = [p \in Procs |-> IF p = idleproc THEN g ELSE <<>>]
    BY DEF CpuInit, Now
  <1>4. Nowhere \in Saving /\ Nowhere.at = "none"
    BY DEF Nowhere, Saving
  <1>5. <<>> \in Seq(Items) /\ <<>> \in Seq(Regs) /\ Len(<<>>) = 0 /\ <<>> \in Seq(Nat)
    OBVIOUS
  <1> HIDE DEF g
  <1>6. TypeOK
    BY <1>2, <1>3, <1>4, <1>5 DEF TypeOK, Running
  <1>7. Shape(<<>>) /\ Chain(<<>>, 0) /\ NoRuns(<<>>)
    BY <1>5 DEF Shape, Chain, NoRuns
  <1>8. Saves(<<>>, g, f)
    BY <1>2, <1>5 DEF Saves
  <1>9. Sound(<<>>, g, 0)
    BY <1>5, <1>7, <1>8 DEF Sound, Saved
  <1>10. Stacks
    BY <1>3, <1>9 DEF Stacks
  <1>11. OnCpu
    BY <1>2, <1>3, <1>4, <1>5, <1>7 DEF OnCpu, Poised
  <1>12. OffCpu
    BY <1>3, <1>4 DEF OffCpu
  <1>13. Owned
    BY <1>2, <1>3 DEF Owned
  <1> QED  BY <1>6, <1>10, <1>11, <1>12, <1>13 DEF Inv

LEMMA StutterStep == ASSUME Inv, UNCHANGED CpuVars PROVE Inv'
  BY DEF Inv, TypeOK, Stacks, OnCpu, OffCpu, Owned, Now, CpuVars

LEMMA StepInv == ASSUME Inv, [CpuNext]_CpuVars PROVE Inv'
  <1>1. ASSUME Interrupt \/ SystemCall \/ KernelExecve PROVE Inv'
    <2>1. fl_if \in BOOLEAN
      BY CurrentLemma
    <2> QED  BY <1>1, <2>1, TrapStep DEF Interrupt, SystemCall, KernelExecve
  <1>2. ASSUME NEW c \in Procs, SysFork(c) \/ SysExit(c) \/ kernel_thread(c) PROVE Inv'
    BY <1>2, SysForkStep, SysExitStep, KernelThreadStep
  <1>3. ASSUME NEW p \in Procs, proc_run(p) PROVE Inv'
    BY <1>3, ProcRunStep
  <1>4. ASSUME SysReturns \/ Handled \/ SysExec \/ Compute PROVE Inv'
    BY <1>4, SysReturnsStep, HandledStep, SysExecStep, ComputeStep
  <1>5. ASSUME TrapEnter \/ TrapLeave \/ Back \/ TrapRet PROVE Inv'
    BY <1>5, TrapEnterStep, TrapLeaveStep, BackStep, TrapRetStep
  <1>6. ASSUME Switched \/ ForkRet PROVE Inv'
    BY <1>6, SwitchedStep, ForkRetStep
  <1>7. ASSUME UNCHANGED CpuVars PROVE Inv'
    BY <1>7, StutterStep
  <1> QED  BY <1>1, <1>2, <1>3, <1>4, <1>5, <1>6, <1>7 DEF CpuNext

\* Whatever runs finds the registers it left: after any traps, at any depth, and
\* any switches, user code and kernel code have their own registers again, a
\* call has its result in eax, and a trap finds the stack of who runs.
THEOREM RegistersOwned == ASSUME idleproc \in Procs PROVE CpuSpec => []OwnRegisters
  <1>1. Inv => OwnRegisters
    <2> SUFFICES ASSUME Inv, at \in {"user", "kernel", "tail", "entry"}
                 PROVE  /\ held[current] # <<>> /\ Last(held[current]) = Now
                        /\ esp0 = current
      BY DEF OwnRegisters
    <2> QED  BY CurrentLemma DEF Inv, Owned, Last
  <1>2. CpuInit => Inv
    BY InitInv
  <1>3. Inv /\ [CpuNext]_CpuVars => Inv'
    BY StepInv
  <1> QED  BY <1>1, <1>2, <1>3, PTL DEF CpuSpec

=============================================================================
