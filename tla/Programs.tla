------------------------------ MODULE Programs ------------------------------
(***************************************************************************)
(* The user programs of LAB6/user on the kernel of Proc: what each process *)
(* calls next, and what the kernel returns to it.  A program is a sequence *)
(* of calls of the user library; each says where the program goes on for   *)
(* each kind of result.  Memory suffices for as many processes as          *)
(* MAX_PROCESS allows.  What a program prints is left out, and loops of    *)
(* many equal turns take fewer: a row of yields is Yields of them.         *)
(***************************************************************************)
EXTENDS Proc, Sequences

CONSTANTS
    Yields,         \* the calls in a row of yields
    max_child       \* forktest.c and, as total, matrix.c

VARIABLES
    program,        \* the program that user_main executes
    user,           \* of each process: [at, pid1, pid2, parent], where it is
                    \* in the program and the variables that hold a pid
    exit_code       \* proc->exit_code

userVars == <<program, user, exit_code>>
allVars == <<vars, userVars>>

\* The place where panic() is called, and exit(-E_PANIC) by it.
PANIC == 0

(* A call: its name, the variable that has its argument or takes its       *)
(* result, the exit code that it must yield, and the place to go on at     *)
(* after 0, after a pid and after an error.                                *)
Call(call, arg, zero, pid, error) ==
    [call |-> call, arg |-> arg, code |-> "any",
     next |-> [zero |-> zero, pid |-> pid, error |-> error]]

Go(call, next) == Call(call, "none", next, next, next)

exit(code) == [Go("exit", PANIC) EXCEPT !.code = code]

\* Yields at the places from i on.
yields(i) == [k \in 1 .. Yields |-> Go("yield", i + k)]

----------------------------------------------------------------------------
(* The programs.                                                           *)

exit_c ==
    <<Call("fork", "pid1", 6, 2, PANIC),
      [Call("waitpid", "pid1", 3, PANIC, PANIC) EXCEPT !.code = "magic"],
      Call("waitpid", "pid1", PANIC, PANIC, 4),
      Call("wait", "none", PANIC, PANIC, 5),
      exit("0")>>
    \o yields(6) \o <<exit("magic")>>

badarg_c ==
    <<Call("fork", "pid1", 6, 2, PANIC),
      Call("waitpid -1", "none", PANIC, PANIC, 3),
      Call("waitpid into the kernel", "pid1", PANIC, PANIC, 4),
      [Call("waitpid", "pid1", 5, PANIC, PANIC) EXCEPT !.code = "0xbeaf"],
      exit("0")>>
    \o yields(6) \o <<exit("0xbeaf")>>

forktest_c ==
    LET waits == max_child + 1
        child == 2 * max_child + 3
    IN  [n \in 1 .. max_child |-> Call("fork", "pid1", child, n + 1, PANIC)]
        \o [n \in 1 .. max_child |-> Call("wait", "none", waits + n, PANIC, PANIC)]
        \o <<Call("wait", "none", PANIC, PANIC, child - 1), exit("0"), exit("0")>>

\* DEPTH is 2.  The result of fork is only compared with 0.
forktree_c ==
    <<Call("fork", "none", 3, 2, 2), Call("fork", "none", 3, 7, 7),
      Call("fork", "none", 5, 4, 4), Call("fork", "none", 5, 5, 5),
      Go("yield", 6), exit("0"),
      exit("0")>>

spin_c ==
    LET kills == 2 + Yields IN
    <<Call("fork", "pid1", kills + 3, 2, 2)>> \o yields(2) \o
    <<Call("kill", "pid1", kills + 1, PANIC, PANIC),
      Call("waitpid", "pid1", kills + 2, PANIC, PANIC),
      exit("0"),
      Go("spin", PANIC)>>

waitkill_c ==
    LET work  == 7
        again == work + Yields + 1
        bad   == again + Yields + 2
    IN  <<Call("getpid", "parent", 2, 2, 2),
          Call("fork", "pid1", 6, 3, PANIC),
          Call("fork", "pid2", work, 4, 5),
          Call("waitpid", "pid1", PANIC, PANIC, PANIC),
          Call("kill", "pid1", PANIC, PANIC, PANIC),
          Go("spin", PANIC)>>
        \o yields(work) \o <<Call("kill", "parent", again, bad, bad)>>
        \o yields(again) \o <<Call("kill", "pid1", bad - 1, bad, bad),
                              exit("0"), exit("-1")>>

matrix_c ==
    LET waits  == max_child + 1
        ends   == 2 * max_child + 1
        work   == ends + 1
        failed == work + 2
    IN  [n \in 1 .. max_child |-> Call("fork", "pid1", work, n + 1, failed)]
        \o [n \in 1 .. max_child |-> Call("wait", "none", waits + n, failed, failed)]
        \o <<exit("0"),
             Go("yield", work + 1), exit("0"),
             Call("kill", "pid1", PANIC, PANIC, PANIC)>>

yield_c == yields(1) \o <<exit("0")>>

\* A division by zero, a bad selector, an interrupt that is not the user's.
divzero_c == <<Go("exception", PANIC)>>

Programs == {exit_c, badarg_c, forktest_c, forktree_c, spin_c, waitkill_c,
             matrix_c, yield_c, divzero_c}

----------------------------------------------------------------------------
(* The user side of a system call.                                         *)

Here(p) == IF user[p].at = PANIC THEN exit("-E_PANIC") ELSE program[user[p].at]

Calls(p, call) == At(p, "user") /\ p \in Users /\ Here(p).call = call

\* The context u of a process after its call has returned result, for wait
\* with the exit code.
After(u, result, code) ==
    LET here == program[u.at]
        kind == IF result \in Procs THEN "pid" ELSE result
        to   == IF here.code \in {"any", code} THEN here.next[kind] ELSE PANIC
    IN  IF here.call \in {"fork", "getpid"} /\ here.arg # "none"
        THEN [[u EXCEPT !.at = to] EXCEPT ![here.arg] = result]
        ELSE [u EXCEPT !.at = to]

\* The kernel puts the result into the frame that the process left.
Returns(p, result, code) ==
    /\ user' = IF p \in Users
               THEN [user EXCEPT ![p] = After(@, result, code)]
               ELSE user
    /\ UNCHANGED <<program, exit_code>>

\* do_exit is called with the code.
Exits(p, code) ==
    /\ exit_code' = [exit_code EXCEPT ![p] = code]
    /\ UNCHANGED <<program, user>>

\* The child goes on with the context of its parent, and 0 as the result.
fork(p) ==
    /\ Calls(p, "fork") \/ At(p, "init_main")
    /\ \/ ForkNoProc(p) /\ Returns(p, "error", "any")
       \/ \E c \in Procs :
            /\ ForkAlloc(p, c, 0)
            /\ user' = IF p \in Users
                       THEN [user EXCEPT ![c] = After(user[p], "zero", "any")]
                       ELSE user
            /\ UNCHANGED <<program, exit_code>>

wait(p) ==
    /\ Calls(p, "wait")
    /\ SysWait(p, NULL)
    /\ UNCHANGED userVars

waitpid(p) ==
    /\ Calls(p, "waitpid")
    /\ SysWait(p, user[p][Here(p).arg])
    /\ UNCHANGED userVars

\* find_proc and user_mem_check refuse the bad arguments.
waitpid_bad(p) ==
    /\ Calls(p, "waitpid -1") \/ Calls(p, "waitpid into the kernel")
    /\ SysOther(p)
    /\ Returns(p, "error", "any")

kill(p) ==
    /\ Calls(p, "kill")
    /\ LET q == user[p][Here(p).arg] IN
       IF find_proc(q) /\ ~exiting[q]
       THEN SysKill(p, q) /\ Returns(p, "zero", "any")
       ELSE SysOther(p) /\ Returns(p, "error", "any")

yield(p) ==
    /\ Calls(p, "yield")
    /\ SysYield(p)
    /\ Returns(p, "zero", "any")

getpid(p) ==
    /\ Calls(p, "getpid")
    /\ SysOther(p)
    /\ Returns(p, p, "any")

exits(p) ==
    /\ Calls(p, "exit")
    /\ SysExit(p)
    /\ Exits(p, Here(p).code)

exception(p) ==
    /\ Calls(p, "exception")
    /\ UserException(p)
    /\ Exits(p, "-E_KILLED")

UserCode(p) ==
    \/ p # initproc /\ fork(p)
    \/ wait(p) \/ waitpid(p) \/ waitpid_bad(p) \/ kill(p) \/ yield(p)
    \/ getpid(p) \/ exits(p) \/ exception(p)

----------------------------------------------------------------------------
(* The kernel, and what its steps return.                                  *)

\* user_main executes the program from its start.
Exec(p) ==
    /\ KernelExec(p, 0)
    /\ pc'[p] = "user"
    /\ user' = [user EXCEPT ![p].at = 1]
    /\ UNCHANGED <<program, exit_code>>

WakeAndReturn(p) == ForkWake(p) /\ Returns(p, proc[p], "any")

NoChild(p) == WaitNoChild(p) /\ Returns(p, "error", "any")

Reap(p) == WaitReap(p) /\ Returns(p, "zero", exit_code[proc[p]])

\* A killed process exits on its way back to user mode or out of a wait.
LeaveOrDie(p) ==
    /\ TrapReturn(p) \/ WaitResume(p)
    /\ IF exiting[p] THEN Exits(p, "-E_KILLED") ELSE UNCHANGED userVars

Silent(p) ==
    /\ \/ ForkLink(p)
       \/ \E z \in Procs : WaitFind(p, z)
       \/ WaitSleep(p) \/ WaitSchedule(p)
       \/ ExitZombie(p) \/ ExitOfInit(p) \/ ExitNotify(p) \/ ExitReparent(p)
       \/ ExitSchedule(p)
       \/ InitSchedule(p) \/ InitReturn(p) \/ IdleSchedule(p)
    /\ UNCHANGED userVars

KernelCode(p) ==
    \/ p = initproc /\ fork(p)
    \/ Exec(p) \/ WakeAndReturn(p) \/ NoChild(p) \/ Reap(p)
    \/ LeaveOrDie(p) \/ Silent(p)

UInit ==
    /\ Init
    /\ program \in Programs
    /\ user = [p \in Procs |->
                [at |-> PANIC, pid1 |-> NULL, pid2 |-> NULL, parent |-> NULL]]
    /\ exit_code = [p \in Procs |-> "any"]

UNext ==
    \/ \E p \in Procs : KernelCode(p) \/ UserCode(p)
    \/ Tick /\ UNCHANGED userVars
    \/ KMonitor /\ UNCHANGED userVars

\* The fairness of Proc, and a process that gets the CPU again and again gets
\* on with its program: the timer is slower than an instruction.
USpec ==
    /\ UInit /\ [][UNext]_allVars
    /\ WF_allVars(KernelCode(current))
    /\ SF_allVars(Tick /\ UNCHANGED userVars)
    /\ \A p \in Users : SF_allVars(UserCode(p))

----------------------------------------------------------------------------
\* Whatever the scheduler and the timer do, no assertion of a user program
\* fails and none of its panics is reached, and in the end every process of it
\* has gone and init_main is told so.
ProgramsPass ==
    /\ [](\A p \in Users : ~Calls(p, "exit") \/ user[p].at # PANIC)
    /\ <>(pc[initproc] = "init_check")

=============================================================================
