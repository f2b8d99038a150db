--------------------------- MODULE PidAlloc_proofs ---------------------------
(***************************************************************************)
(* get_pid returns fresh pids for any MAX_PROCESS and MAX_PID.             *)
(*                                                                         *)
(* What makes the invariant inductive is what a scan has seen so far: no   *)
(* entry before le has a pid from last_pid up to next_safe.  A call that   *)
(* does not scan relies on the same of the whole list but for last_pid     *)
(* itself.                                                                 *)
(***************************************************************************)
EXTENDS PidAlloc, SequenceTheorems, TLAPS

Free(pid) == ~(last_pid <= pid /\ pid < next_safe)

TypeOK ==
    /\ proc_list \in Seq(1 .. MAX_PID - 1)
    /\ last_pid \in 1 .. MAX_PID - 1
    /\ next_safe \in 2 .. MAX_PID
    /\ le \in Nat \ {0}
    /\ pc \in {"idle", "scan", "return"}

Distinct == \A i, j \in 1 .. Len(proc_list) : proc_list[i] = proc_list[j] => i = j

Inv ==
    /\ TypeOK
    /\ Distinct
    /\ last_pid < next_safe
    /\ pc = "idle" => SafeInterval
    /\ pc = "scan" => \A i \in 1 .. Len(proc_list) : i < le => Free(proc_list[i])
    /\ pc = "return" => \A i \in 1 .. Len(proc_list) : Free(proc_list[i])

LEMMA Bounds == /\ MAX_PID \in Nat /\ MAX_PID > 2
  BY PidAssumption

\* What the type of the list says of its entries.
LEMMA Entries ==
    ASSUME TypeOK
    PROVE  /\ Len(proc_list) \in Nat
           /\ DOMAIN proc_list = 1 .. Len(proc_list)
           /\ proc_list \in [1 .. Len(proc_list) -> 1 .. MAX_PID - 1]
           /\ \A i \in 1 .. Len(proc_list) : proc_list[i] \in 1 .. MAX_PID - 1
<1> DEFINE S == 1 .. MAX_PID - 1
<1>1. proc_list \in Seq(S)
  BY DEF TypeOK
<1> HIDE DEF S
<1>2. /\ Len(proc_list) \in Nat
      /\ DOMAIN proc_list = 1 .. Len(proc_list)
      /\ proc_list \in [1 .. Len(proc_list) -> S]
  BY <1>1, LenProperties
<1> QED
  BY <1>2 DEF S

LEMMA InitInv == GetPidInit => Inv
  BY Bounds DEF GetPidInit, Inv, TypeOK, Distinct, SafeInterval, Pids

LEMMA CallInv == Inv /\ Call => Inv'
<1> SUFFICES ASSUME Inv, Call PROVE Inv'
  OBVIOUS
<1>1. CASE last_pid + 1 >= MAX_PID \/ last_pid + 1 >= next_safe
  BY <1>1, Bounds DEF Inv, Call, TypeOK, Distinct, Free
<1>2. CASE ~(last_pid + 1 >= MAX_PID \/ last_pid + 1 >= next_safe)
  <2>1. /\ last_pid' = last_pid + 1 /\ next_safe' = next_safe /\ pc' = "return"
        /\ le' = le /\ proc_list' = proc_list /\ SafeInterval
    BY <1>2, Bounds DEF Inv, Call, TypeOK
  <2>2. \A i \in 1 .. Len(proc_list) : ~(last_pid + 1 <= proc_list[i] /\ proc_list[i] < next_safe)
    <3> SUFFICES ASSUME NEW i \in 1 .. Len(proc_list)
                 PROVE  ~(last_pid + 1 <= proc_list[i] /\ proc_list[i] < next_safe)
      OBVIOUS
    <3>1. proc_list[i] \in Pids /\ proc_list[i] \in Nat /\ last_pid \in Nat /\ next_safe \in Nat
      BY Bounds DEF Inv, TypeOK, Pids
    <3>2. pc # "scan"
      BY DEF Call
    <3> QED
      BY <2>1, <3>1, <3>2 DEF SafeInterval
  <2> QED
    BY <1>2, <2>1, <2>2, Bounds DEF Inv, TypeOK, Distinct, Free
<1> QED
  BY <1>1, <1>2

LEMMA ScanTakenRestartInv == Inv /\ ScanTakenRestart => Inv'
  BY Bounds DEF Inv, ScanTakenRestart, Scanning, TypeOK, Distinct, Free

LEMMA ScanTakenInv == Inv /\ ScanTaken => Inv'
<1> SUFFICES ASSUME Inv, ScanTaken PROVE Inv'
  OBVIOUS
<1>1. TypeOK' /\ Distinct' /\ (last_pid < next_safe)'
  BY Bounds DEF Inv, ScanTaken, Scanning, TypeOK, Distinct
<1>2. \A i \in 1 .. Len(proc_list) : i < le + 1
          => ~(last_pid + 1 <= proc_list[i] /\ proc_list[i] < next_safe)
  <2> SUFFICES ASSUME NEW i \in 1 .. Len(proc_list), i < le + 1
               PROVE  ~(last_pid + 1 <= proc_list[i] /\ proc_list[i] < next_safe)
    OBVIOUS
  <2>1. CASE i = le
    BY <2>1, Bounds DEF Inv, ScanTaken, TypeOK
  <2>2. CASE i < le
    BY <2>2, Bounds DEF Inv, ScanTaken, Scanning, TypeOK, Free
  <2> QED
    BY <2>1, <2>2 DEF Inv, TypeOK
<1> QED
  BY <1>1, <1>2 DEF Inv, ScanTaken, Scanning, Free

LEMMA ScanOtherInv == Inv /\ ScanOther => Inv'
<1> SUFFICES ASSUME Inv, ScanOther PROVE Inv'
  OBVIOUS
<1>1. proc_list[le] \in 1 .. MAX_PID - 1 /\ le \in 1 .. Len(proc_list)
  <2>1. TypeOK /\ le \in Nat \ {0} /\ le <= Len(proc_list)
    BY DEF Inv, ScanOther, Scanning, TypeOK
  <2>2. le \in 1 .. Len(proc_list)
    BY <2>1, Entries
  <2> QED
    BY <2>1, <2>2, Entries
<1>2. TypeOK' /\ Distinct' /\ (last_pid < next_safe)'
  BY <1>1, Bounds DEF Inv, ScanOther, Scanning, TypeOK, Distinct
<1>3. next_safe' <= next_safe
  BY <1>1, Bounds DEF Inv, ScanOther, TypeOK
<1>4. \A i \in 1 .. Len(proc_list) : i < le + 1
          => ~(last_pid <= proc_list[i] /\ proc_list[i] < next_safe')
  <2> SUFFICES ASSUME NEW i \in 1 .. Len(proc_list), i < le + 1
               PROVE  ~(last_pid <= proc_list[i] /\ proc_list[i] < next_safe')
    OBVIOUS
  <2>1. CASE i = le
    BY <2>1, <1>1, Bounds DEF Inv, ScanOther, TypeOK
  <2>2. CASE i < le
    <3>1. Free(proc_list[i])
      BY <2>2 DEF Inv, ScanOther, Scanning
    <3>2. proc_list[i] \in Nat /\ last_pid \in Nat /\ next_safe \in Nat /\ next_safe' \in Nat
      BY <1>1, <1>2, Bounds DEF Inv, TypeOK
    <3> QED
      BY <3>1, <3>2, <1>3 DEF Free
  <2> QED
    BY <2>1, <2>2 DEF Inv, TypeOK
<1> QED
  BY <1>2, <1>4 DEF Inv, ScanOther, Scanning, Free

LEMMA ScanEndInv == Inv /\ ScanEnd => Inv'
  BY DEF Inv, ScanEnd, TypeOK, Distinct, Free

\* What Return does to the list: the pids gain one, the length grows by one.
LEMMA ReturnList ==
    ASSUME Inv, Return
    PROVE  /\ Pids' = Pids \cup {last_pid} /\ last_pid \notin Pids
           /\ Len(proc_list') = Len(proc_list) + 1
           /\ proc_list' \in Seq(1 .. MAX_PID - 1)
           /\ Distinct'
<1> DEFINE n == Len(proc_list)
           new == <<last_pid>> \o proc_list
<1>1. /\ n \in Nat /\ proc_list' = new /\ new \in Seq(1 .. MAX_PID - 1)
      /\ Len(new) = n + 1 /\ new[1] = last_pid
      /\ \A i \in 1 .. n : new[i + 1] = proc_list[i]
  BY DEF Inv, TypeOK, Return
<1>2. \A i \in 1 .. n : proc_list[i] # last_pid
  <2> SUFFICES ASSUME NEW i \in 1 .. n PROVE proc_list[i] # last_pid
    OBVIOUS
  <2>1. Free(proc_list[i]) /\ last_pid < next_safe /\ last_pid \in Nat /\ next_safe \in Nat
    BY Bounds DEF Inv, Return, TypeOK
  <2> QED
    BY <2>1 DEF Free
<1>3. last_pid \notin Pids
  BY <1>2 DEF Pids, Inv, TypeOK
<1>4. \A i \in 1 .. n + 1 : i = 1 \/ (i - 1 \in 1 .. n /\ new[i] = proc_list[i - 1])
  <2> SUFFICES ASSUME NEW i \in 1 .. n + 1, i # 1
               PROVE  i - 1 \in 1 .. n /\ new[i] = proc_list[i - 1]
    OBVIOUS
  <2>1. i - 1 \in 1 .. n /\ (i - 1) + 1 = i
    BY <1>1
  <2> QED
    BY <1>1, <2>1
<1> HIDE DEF new, n
<1>5. \A i, j \in 1 .. n + 1 : new[i] = new[j] => i = j
  <2>1. \A i, j \in 1 .. n : proc_list[i] = proc_list[j] => i = j
    BY DEF Inv, Distinct, n
  <2>2. \A i \in 1 .. n + 1 : i = 1 \/ new[i] # last_pid
    BY <1>2, <1>4
  <2>3. ASSUME NEW i \in 1 .. n + 1, NEW j \in 1 .. n + 1, new[i] = new[j]
        PROVE  i = j
    <3>1. CASE i = 1 \/ j = 1
      BY <3>1, <2>2, <2>3, <1>1
    <3>2. CASE i # 1 /\ j # 1
      <4>1. i - 1 = j - 1
        BY <3>2, <2>1, <2>3, <1>4
      <4> QED
        BY <4>1, <1>1
    <3> QED
      BY <3>1, <3>2
  <2> QED
    BY <2>3
<1>6. Pids' = Pids \cup {last_pid}
  <2>1. Pids' = {new[i] : i \in 1 .. n + 1}
    BY <1>1 DEF Pids
  <2>2. Pids = {proc_list[i] : i \in 1 .. n}
    BY DEF Pids, Inv, TypeOK, n
  <2>3. \A i \in 1 .. n : i + 1 \in 1 .. n + 1
    BY <1>1
  <2>4. 1 \in 1 .. n + 1
    BY <1>1
  <2> QED
    BY <2>1, <2>2, <2>3, <2>4, <1>1, <1>4
<1> QED
  BY <1>1, <1>3, <1>5, <1>6 DEF Distinct, n

LEMMA ReturnInv == Inv /\ Return => Inv'
<1> SUFFICES ASSUME Inv, Return PROVE Inv'
  OBVIOUS
<1>1. TypeOK' /\ Distinct' /\ (last_pid < next_safe)'
  BY ReturnList DEF Inv, Return, TypeOK
<1>2. ASSUME NEW pid \in Pids' PROVE ~(last_pid < pid /\ pid < next_safe)
  <2>1. last_pid \in Nat /\ next_safe \in Nat
    BY Bounds DEF Inv, TypeOK
  <2>2. CASE pid = last_pid
    BY <2>1, <2>2
  <2>3. CASE pid \in Pids
    <3>1. PICK i \in 1 .. Len(proc_list) : pid = proc_list[i]
      BY <2>3 DEF Pids, Inv, TypeOK
    <3>2. Free(pid) /\ pid \in Nat
      <4>1. proc_list[i] \in 1 .. MAX_PID - 1
        BY Entries DEF Inv
      <4>2. Free(proc_list[i])
        BY DEF Inv, Return
      <4> QED
        BY <3>1, <4>1, <4>2
    <3> QED
      BY <2>1, <3>2 DEF Free
  <2> QED
    BY <1>2, <2>2, <2>3, ReturnList
<1> QED
  BY <1>1, <1>2 DEF Inv, Return, SafeInterval

\* What RemoveProc does to the list: one pid goes, and the length shrinks by one.
LEMMA RemoveList ==
    ASSUME Inv, NEW i \in DOMAIN proc_list, RemoveProc(i)
    PROVE  /\ Pids' = Pids \ {proc_list[i]} /\ proc_list[i] \in Pids
           /\ Len(proc_list') = Len(proc_list) - 1
           /\ proc_list' \in Seq(1 .. MAX_PID - 1)
           /\ Distinct'
<1> DEFINE n == Len(proc_list)
           new == Without(proc_list, i)
           Old(j) == IF j < i THEN j ELSE j + 1
<1>1. /\ n \in Nat /\ i \in 1 .. n /\ proc_list' = new
      /\ proc_list \in [1 .. n -> 1 .. MAX_PID - 1]
  BY Entries DEF Inv, RemoveProc
<1>2. \A j \in 1 .. n - 1 : Old(j) \in 1 .. n /\ Old(j) # i
  BY <1>1
<1>3. new = [j \in 1 .. n - 1 |-> proc_list[Old(j)]]
  BY <1>1, <1>2 DEF Without
<1>4. new \in [1 .. n - 1 -> 1 .. MAX_PID - 1]
  BY <1>1, <1>2, <1>3
<1>5. n - 1 \in Nat
  BY <1>1
<1>6. new \in Seq(1 .. MAX_PID - 1) /\ Len(new) = n - 1
  <2> HIDE DEF new, n
  <2>1. new \in Seq(1 .. MAX_PID - 1)
    <3> DEFINE S == 1 .. MAX_PID - 1
               m == n - 1
    <3> HIDE DEF S, m
    <3>1. m \in Nat /\ new \in [1 .. m -> S]
      BY <1>4, <1>5 DEF m, S
    <3>2. new \in Seq(S)
      BY <3>1, SeqDef
    <3> QED
      BY <3>2 DEF S
  <2>2. DOMAIN new = 1 .. n - 1
    BY <1>4
  <2> QED
    BY <2>1, <2>2, <1>5, LenProperties
<1>7. \A j, k \in 1 .. n - 1 : Old(j) = Old(k) => j = k
  BY <1>1
<1>8. \A k \in 1 .. n : k # i => \E j \in 1 .. n - 1 : k = Old(j)
  <2> SUFFICES ASSUME NEW k \in 1 .. n, k # i
               PROVE  \E j \in 1 .. n - 1 : k = Old(j)
    OBVIOUS
  <2>1. CASE k < i
    BY <2>1, <1>1
  <2>2. CASE k > i
    <3>1. k - 1 \in 1 .. n - 1 /\ Old(k - 1) = k
      BY <2>2, <1>1
    <3> QED
      BY <3>1
  <2> QED
    BY <2>1, <2>2, <1>1
<1>9. \A j, k \in 1 .. n : proc_list[j] = proc_list[k] => j = k
  BY DEF Inv, Distinct
<1>10. \A j \in 1 .. n - 1 : new[j] = proc_list[Old(j)]
  BY <1>3
<1>11. Distinct'
  <2>1. \A j, k \in 1 .. n - 1 : new[j] = new[k] => j = k
    <3> HIDE DEF new, n, Old
    <3> QED
      BY <1>2, <1>7, <1>9, <1>10
  <2> QED
    BY <2>1, <1>1, <1>6 DEF Distinct
<1>12. Pids' = Pids \ {proc_list[i]} /\ proc_list[i] \in Pids
  <2>1. Pids' = {new[j] : j \in 1 .. n - 1}
    BY <1>1, <1>6 DEF Pids
  <2>2. Pids = {proc_list[j] : j \in 1 .. n}
    BY <1>1 DEF Pids
  <2> HIDE DEF new, n, Old
  <2>3. proc_list[i] \in Pids
    BY <2>2, <1>1
  <2>4. ASSUME NEW j \in 1 .. n - 1 PROVE new[j] \in Pids /\ new[j] # proc_list[i]
    <3>1. Old(j) \in 1 .. n /\ Old(j) # i /\ new[j] = proc_list[Old(j)]
      BY <1>2, <1>10
    <3> QED
      BY <3>1, <2>2, <1>1, <1>9
  <2>5. ASSUME NEW k \in 1 .. n, proc_list[k] # proc_list[i]
        PROVE  proc_list[k] \in Pids'
    <3>1. PICK j \in 1 .. n - 1 : k = Old(j)
      BY <2>5, <1>8
    <3>2. proc_list[k] = new[j]
      BY <3>1, <1>10
    <3> QED
      BY <3>2, <2>1
  <2>6. Pids' \subseteq Pids \ {proc_list[i]}
    BY <2>1, <2>4
  <2>7. Pids \ {proc_list[i]} \subseteq Pids'
    BY <2>2, <2>5
  <2> QED
    BY <2>3, <2>6, <2>7
<1> QED
  BY <1>1, <1>6, <1>11, <1>12

LEMMA RemoveInv == ASSUME NEW i \in DOMAIN proc_list PROVE Inv /\ RemoveProc(i) => Inv'
<1> SUFFICES ASSUME Inv, RemoveProc(i) PROVE Inv'
  OBVIOUS
<1>1. TypeOK' /\ Distinct' /\ (last_pid < next_safe)'
  BY RemoveList DEF Inv, RemoveProc, TypeOK
<1>2. SafeInterval'
  BY RemoveList DEF Inv, RemoveProc, SafeInterval
<1> QED
  BY <1>1, <1>2 DEF Inv, RemoveProc

LEMMA NextInv == Inv /\ [GetPidNext]_GetPidVars => Inv'
<1>1. Inv /\ UNCHANGED GetPidVars => Inv'
  BY DEF Inv, TypeOK, Distinct, SafeInterval, Pids, Free, GetPidVars
<1> QED
  BY <1>1, CallInv, ScanTakenRestartInv, ScanTakenInv, ScanOtherInv, ScanEndInv,
     ReturnInv, RemoveInv DEF GetPidNext, GetPid

\* get_pid (proc.c:173-206): the pids between last_pid and next_safe, which it
\* hands out without a look at the list, are free whenever no scan is on.
THEOREM IntervalSafe == GetPidSpec => []SafeInterval
<1>1. Inv => SafeInterval
  <2> SUFFICES ASSUME Inv, pc = "return", NEW pid \in Pids
               PROVE  ~(last_pid < pid /\ pid < next_safe)
    BY DEF Inv, TypeOK, SafeInterval
  <2>1. PICK i \in 1 .. Len(proc_list) : pid = proc_list[i]
    BY DEF Pids, Inv, TypeOK
  <2>2. Free(pid) /\ pid \in Nat /\ last_pid \in Nat
    BY <2>1, Entries, Bounds DEF Inv, TypeOK
  <2> QED
    BY <2>2 DEF Free
<1> QED
  BY InitInv, NextInv, <1>1, PTL DEF GetPidSpec

\* get_pid implements its specification: the pid of a new process is one that
\* no process has, and a removal frees its pid and no other.
THEOREM PidsFresh == GetPidSpec => FreshPid
<1>1. GetPidInit => Implements!Init
  BY DEF GetPidInit, Implements!Init, Pids
<1>2. Inv /\ [GetPidNext]_GetPidVars => [Implements!Next]_(Implements!vars)
  <2> SUFFICES ASSUME Inv, [GetPidNext]_GetPidVars
               PROVE  [Implements!Next]_(Implements!vars)
    OBVIOUS
  <2>1. CASE UNCHANGED GetPidVars
    BY <2>1 DEF GetPidVars, Implements!vars, Pids
  <2>2. CASE Call \/ ScanTakenRestart \/ ScanTaken \/ ScanOther \/ ScanEnd
    BY <2>2 DEF Call, ScanTakenRestart, ScanTaken, ScanOther, ScanEnd, Implements!vars, Pids
  <2>3. CASE Return
    <3>1. Implements!Alloc(last_pid) /\ last_pid \in 1 .. MAX_PID - 1
      BY <2>3, ReturnList DEF Implements!Alloc, Inv, TypeOK
    <3> QED
      BY <3>1 DEF Implements!Next
  <2>4. ASSUME NEW i \in DOMAIN proc_list, RemoveProc(i)
        PROVE  Implements!Next
    <3>1. proc_list[i] \in 1 .. MAX_PID - 1
      BY Entries DEF Inv
    <3>2. proc_list[i] # 1
      BY <2>4 DEF RemoveProc
    <3>3. Implements!Free(proc_list[i])
      BY <2>4, <3>2, RemoveList DEF Implements!Free
    <3> QED
      BY <3>1, <3>3 DEF Implements!Next
  <2> QED
    BY <2>1, <2>2, <2>3, <2>4 DEF GetPidNext, GetPid
<1> QED
  BY InitInv, NextInv, <1>1, <1>2, PTL DEF GetPidSpec, FreshPid, Implements!Spec

==============================================================================
