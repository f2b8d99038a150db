------------------------------ MODULE PidAlloc ------------------------------
(***************************************************************************)
(* get_pid of kern/process/proc.c, one action per turn of its loop over    *)
(* proc_list, between the creations and removals of processes that change  *)
(* the list.  It runs with interrupts off (proc.c:429-436), so the list    *)
(* does not change while it scans.                                         *)
(*                                                                         *)
(* The static variables make the search lazy: next_safe is a pid below     *)
(* which, down to last_pid, no process was found by the latest scan, and   *)
(* get_pid hands these pids out without looking at the list again.         *)
(***************************************************************************)
EXTENDS Naturals, Sequences

CONSTANTS MAX_PROCESS, MAX_PID

\* static_assert(MAX_PID > MAX_PROCESS)
ASSUME PidAssumption ==
    /\ MAX_PROCESS \in Nat \ {0, 1}
    /\ MAX_PID \in Nat
    /\ MAX_PID > MAX_PROCESS

VARIABLES
    proc_list,      \* the pids in proc_list, the latest process first
    last_pid,
    next_safe,
    le,             \* index in proc_list of the entry that the scan looks at
    pc              \* "idle" outside get_pid, "scan" in its loop

GetPidVars == <<proc_list, last_pid, next_safe, le, pc>>

Pids == {proc_list[i] : i \in DOMAIN proc_list}

\* initproc has got the pid 1 from a first call, which scanned an empty list.
GetPidInit ==
    /\ proc_list = <<1>>
    /\ last_pid = 1
    /\ next_safe = MAX_PID
    /\ le = 1
    /\ pc = "idle"

\* nr_process >= MAX_PROCESS makes do_fork fail; nr_process counts idleproc too.
MayFork == Len(proc_list) + 1 < MAX_PROCESS

\* Fault: a pid equal to next_safe is taken for a free one.
Call_PastNextSafe ==
    /\ pc = "idle"
    /\ MayFork
    /\ last_pid' = IF last_pid + 1 >= MAX_PID THEN 1 ELSE last_pid + 1
    /\ IF last_pid + 1 >= MAX_PID \/ last_pid + 1 > next_safe
       THEN next_safe' = MAX_PID /\ pc' = "scan" /\ le' = 1
       ELSE next_safe' = next_safe /\ pc' = "return" /\ le' = le
    /\ UNCHANGED proc_list

\* The call: the next pid, with a scan if it is beyond what the last one covered.
Call ==
    /\ pc = "idle"
    /\ MayFork
    /\ last_pid' = IF last_pid + 1 >= MAX_PID THEN 1 ELSE last_pid + 1
    /\ IF last_pid + 1 >= MAX_PID \/ last_pid + 1 >= next_safe
       THEN next_safe' = MAX_PID /\ pc' = "scan" /\ le' = 1
       ELSE next_safe' = next_safe /\ pc' = "return" /\ le' = le
    /\ UNCHANGED proc_list

Scanning == pc = "scan" /\ le <= Len(proc_list)

\* Fault: a restart goes back to the first pid.
ScanTakenRestart_FromOne ==
    /\ Scanning
    /\ proc_list[le] = last_pid
    /\ last_pid + 1 >= next_safe
    /\ last_pid' = 1
    /\ next_safe' = MAX_PID
    /\ le' = 1
    /\ UNCHANGED <<proc_list, pc>>

\* The pid is taken and the next one is not known to be free of the entries
\* already seen: start again.
ScanTakenRestart ==
    /\ Scanning
    /\ proc_list[le] = last_pid
    /\ last_pid + 1 >= next_safe
    /\ last_pid' = IF last_pid + 1 >= MAX_PID THEN 1 ELSE last_pid + 1
    /\ next_safe' = MAX_PID
    /\ le' = 1
    /\ UNCHANGED <<proc_list, pc>>

\* The pid is taken, and no entry seen so far has the next one.
ScanTaken ==
    /\ Scanning
    /\ proc_list[le] = last_pid
    /\ last_pid + 1 < next_safe
    /\ last_pid' = last_pid + 1
    /\ le' = le + 1
    /\ UNCHANGED <<proc_list, next_safe, pc>>

\* Fault: next_safe follows the latest larger pid, not the least.
ScanOther_NotLeast ==
    /\ Scanning
    /\ proc_list[le] # last_pid
    /\ next_safe' = IF proc_list[le] > last_pid THEN proc_list[le] ELSE next_safe
    /\ le' = le + 1
    /\ UNCHANGED <<proc_list, last_pid, pc>>

\* The entry has another pid: it may be the next that is taken.
ScanOther ==
    /\ Scanning
    /\ proc_list[le] # last_pid
    /\ next_safe' = IF proc_list[le] > last_pid /\ next_safe > proc_list[le]
                    THEN proc_list[le] ELSE next_safe
    /\ le' = le + 1
    /\ UNCHANGED <<proc_list, last_pid, pc>>

ScanEnd ==
    /\ pc = "scan"
    /\ le > Len(proc_list)
    /\ pc' = "return"
    /\ UNCHANGED <<proc_list, last_pid, next_safe, le>>

\* do_fork gives the pid to the new process and set_links puts it in front.
Return ==
    /\ pc = "return"
    /\ proc_list' = <<last_pid>> \o proc_list
    /\ pc' = "idle"
    /\ le' = 1
    /\ UNCHANGED <<last_pid, next_safe>>

Without(list, i) == [j \in 1 .. Len(list) - 1 |-> IF j < i THEN list[j] ELSE list[j + 1]]

\* do_wait removes a process; initproc is never removed.
RemoveProc(i) ==
    /\ pc = "idle"
    /\ proc_list[i] # 1
    /\ proc_list' = Without(proc_list, i)
    /\ UNCHANGED <<last_pid, next_safe, le, pc>>

GetPid == Call \/ ScanTakenRestart \/ ScanTaken \/ ScanOther \/ ScanEnd \/ Return

GetPidNext == GetPid \/ \E i \in DOMAIN proc_list : RemoveProc(i)

\* get_pid, once called, is executed to its end.
GetPidFairness == WF_GetPidVars(pc # "idle" /\ GetPid)

GetPidSpec == GetPidInit /\ [][GetPidNext]_GetPidVars /\ GetPidFairness

----------------------------------------------------------------------------
(* Properties.                                                             *)

\* The cache that lets get_pid skip the scan stays right while processes come
\* and go: no process has a pid between last_pid and next_safe.
SafeInterval ==
    pc # "scan" => \A pid \in Pids : ~(last_pid < pid /\ pid < next_safe)

\* get_pid returns a pid that nobody has, whatever came before.
Implements == INSTANCE PidSpec WITH pids <- Pids, count <- Len(proc_list)

FreshPid == Implements!Spec

\* The loop with its restarts always ends, even with as many processes as
\* MAX_PROCESS allows.
GetPidEnds == (pc # "idle") ~> (pc = "idle")

============================================================================
