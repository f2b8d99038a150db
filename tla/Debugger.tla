------------------------------ MODULE Debugger ------------------------------
(***************************************************************************)
(* The ptrace debugger (src.cpp) and the program it runs.  The            *)
(* debugger waits while the program runs, so a command is one action up to *)
(* the PTRACE_CONT, each instruction the program executes after it is one, *)
(* and so is the stop with what the command still has to do.  Instructions *)
(* are two bytes long; a breakpoint is one byte, so that a trap leaves the *)
(* program counter inside the instruction.                                 *)
(***************************************************************************)
EXTENDS Integers, Sequences, FiniteSets, SequencesExt, Functions, TLC

CONSTANTS
    Addrs,          \* the instructions of the program
    Code,           \* what each does: [op, to, fn, start], see Executed
    START, END,     \* where the loader starts, where main returns to
    Main,           \* the entry of main
    MaxBreaks       \* bound of the breakpoints that the user sets

Text == Addrs \cup {START, END}

VARIABLES
    machine,        \* the program: [pc, stack, framed]
    text,           \* its code, "orig" or "int3" at each instruction
    m_breakpoints,  \* m_saved_data of each breakpoint, by address
    to_delete,      \* the breakpoints of the command itself
    mode,           \* "prompt", "running", "exited" or "dead" (the debugger is)
    user,           \* history: the breakpoints that the user has set,
    twice           \* and those that have been set again

vars == <<machine, text, m_breakpoints, to_delete, mode, user, twice>>

\* framed: the function has set its frame pointer.
Init ==
    /\ machine = [pc |-> START, stack |-> <<>>, framed |-> FALSE]
    /\ text = [a \in Text |-> "orig"]
    /\ m_breakpoints = << >>
    /\ to_delete = {}
    /\ mode = "prompt"
    /\ user = {} /\ twice = {}

----------------------------------------------------------------------------
(* The program                                                             *)

Goto(m, a) == [m EXCEPT !.pc = a]

\* What an instruction of the program leads to.
Executed(m) ==
    LET i == Code[m.pc]
    IN  CASE m.pc = START   -> {[pc |-> Main, stack |-> <<END>>, framed |-> FALSE]}
        []   m.pc = END     -> {Goto(m, END)}
        []   i.op = "enter" -> {[Goto(m, m.pc + 2) EXCEPT !.framed = TRUE]}
        []   i.op = "next"  -> {Goto(m, m.pc + 2)}
        []   i.op = "branch" -> {Goto(m, m.pc + 2), Goto(m, i.to)}
        []   i.op = "call"  -> {[pc |-> i.to, stack |-> Append(m.stack, m.pc + 2),
                                 framed |-> FALSE]}
        []   i.op = "ret"   -> {[pc |-> Last(m.stack), stack |-> Front(m.stack),
                                 framed |-> TRUE]}

Exits(m) == m.pc = END

HasLine(pc) == pc \in Addrs

\* The address that read_memory(rbp + 8) finds.
HasFrame(m) == (m.framed /\ m.pc \in Addrs) \/ Len(m.stack) > 1
ReturnAddress(m) == IF m.framed THEN Last(m.stack) ELSE Last(Front(m.stack))

----------------------------------------------------------------------------
(* class breakpoint and the commands that set and remove them              *)

\* enable: save the byte, write int3.  c is [text, bps].
enable(c, a) == [text |-> [c.text EXCEPT ![a] = "int3"],
                 bps  |-> (a :> c.text[a]) @@ c.bps]

disable(c, a) == [c EXCEPT !.text[a] = c.bps[a]]

Code0 == [text |-> text, bps |-> m_breakpoints]

EnableAll(c, addrs) == FoldLeft(enable, c, SetToSeq(addrs))

\* Fault: the byte stays int3.
remove_breakpoint_Erase(c, a) ==
    [c EXCEPT !.bps = Restrict(@, DOMAIN @ \ {a})]

remove_breakpoint(c, a) ==
    [disable(c, a) EXCEPT !.bps = Restrict(@, DOMAIN @ \ {a})]

RemoveAll(c, addrs) == FoldLeft(remove_breakpoint, c, SetToSeq(addrs))

Becomes(c) == text' = c.text /\ m_breakpoints' = c.bps

set_breakpoint(a) ==
    /\ mode = "prompt"
    /\ Cardinality(user \cup {a}) <= MaxBreaks
    /\ Becomes(enable(Code0, a))
    /\ user' = user \cup {a}
    /\ twice' = twice \cup (user \cap {a})
    /\ UNCHANGED <<machine, to_delete, mode>>

----------------------------------------------------------------------------
(* Running the program                                                     *)

\* Fault: the program goes on behind the int3.
handle_sigtrap_NoSetPc(m) == m

\* A breakpoint was hit: the trap has left pc behind the int3.
handle_sigtrap(m) == Goto(m, m.pc - 1)

Trap(m) == handle_sigtrap(Goto(m, m.pc + 1))

\* PTRACE_SINGLESTEP and wait_for_signal: an instruction, or a signal that
\* the program gets before it.
SingleStep(m, t) ==
    {m} \cup (IF t[m.pc] = "int3" THEN {Trap(m)} ELSE Executed(m))

StepOverBreakpoint(m, c) ==
    IF m.pc \in DOMAIN c.bps
    THEN LET off == disable(c, m.pc)
         IN  {<<n, enable(off, m.pc)>> : n \in SingleStep(m, off.text)}
    ELSE {<<m, c>>}

\* continue_execution up to PTRACE_CONT, on the code c.
Continue(c) ==
    /\ \E r \in StepOverBreakpoint(machine, c) :
        /\ machine' = r[1]
        /\ Becomes(r[2])
    /\ mode' = "running"
    /\ UNCHANGED <<user, twice>>

ContinueExecution ==
    /\ mode = "prompt"
    /\ Continue(Code0)
    /\ UNCHANGED to_delete

\* finish: a breakpoint at the return address, unless there is one.
StepOut ==
    /\ mode = "prompt" /\ HasFrame(machine)
    /\ LET temps == {ReturnAddress(machine)} \ DOMAIN m_breakpoints
       IN  /\ Continue(EnableAll(Code0, temps))
           /\ to_delete' = temps

\* The lines of the function, its own line and the breakpoints left out.
LineAddresses(pc) ==
    {Code[a].start : a \in {b \in Addrs : Code[b].fn = Code[pc].fn}}
        \ {Code[pc].start}

\* next.  Outside the program get_function_from_pc throws.
StepOver ==
    /\ mode = "prompt" /\ machine.pc \in Addrs /\ HasFrame(machine)
    /\ LET temps == (LineAddresses(machine.pc) \cup {ReturnAddress(machine)})
                        \ DOMAIN m_breakpoints
       IN  /\ Continue(EnableAll(Code0, temps))
           /\ to_delete' = temps

\* An exception that nobody catches ends the debugger.
StepOverThrows ==
    /\ mode = "prompt" /\ machine.pc \notin Addrs
    /\ mode' = "dead"
    /\ UNCHANGED <<machine, text, m_breakpoints, to_delete, user, twice>>

\* stepi; the words step and s lead here too.
StepInstruction ==
    /\ mode = "prompt"
    /\ \E r \in IF machine.pc \in DOMAIN m_breakpoints
                THEN StepOverBreakpoint(machine, Code0)
                ELSE {<<n, Code0>> : n \in SingleStep(machine, text)} :
        /\ machine' = r[1]
        /\ Becomes(r[2])
        /\ mode' = IF HasLine(r[1].pc) THEN "prompt" ELSE "dead"
    /\ UNCHANGED <<to_delete, user, twice>>

RunInstruction ==
    /\ mode = "running" /\ text[machine.pc] # "int3" /\ ~Exits(machine)
    /\ machine' \in Executed(machine)
    /\ UNCHANGED <<text, m_breakpoints, to_delete, mode, user, twice>>

ProgramExits ==
    /\ mode = "running" /\ text[machine.pc] # "int3" /\ Exits(machine)
    /\ mode' = "exited"
    /\ UNCHANGED <<machine, text, m_breakpoints, to_delete, user, twice>>

\* The rest of continue, finish or next after the program has stopped.
Stopped ==
    /\ Becomes(RemoveAll(Code0, to_delete))
    /\ to_delete' = {}
    /\ mode' = "prompt"
    /\ UNCHANGED <<user, twice>>

HitBreakpoint ==
    /\ mode = "running" /\ text[machine.pc] = "int3"
    /\ machine' = Trap(machine)
    /\ IF HasLine(machine'.pc) THEN Stopped
       ELSE /\ mode' = "dead"
            /\ UNCHANGED <<text, m_breakpoints, to_delete, user, twice>>

GetSignal ==
    /\ mode = "running"
    /\ Stopped
    /\ UNCHANGED machine

Quit ==
    /\ mode = "prompt"
    /\ mode' = "dead"
    /\ UNCHANGED <<machine, text, m_breakpoints, to_delete, user, twice>>

Next ==
    \/ \E a \in Addrs : set_breakpoint(a)
    \/ ContinueExecution \/ StepOut \/ StepOver \/ StepOverThrows
    \/ StepInstruction \/ Quit
    \/ RunInstruction \/ ProgramExits \/ HitBreakpoint \/ GetSignal

Spec == Init /\ [][Next]_vars

----------------------------------------------------------------------------
(* Properties                                                              *)

\* At the prompt the breakpoints are those of the user: finish and next have
\* taken back theirs, wherever the program has stopped, and no other.  The
\* code is the program's own but for an int3 at each of them, and what is
\* saved is the program's own, unless a breakpoint was set twice.
BreakpointsExact ==
    mode = "prompt" =>
        /\ DOMAIN m_breakpoints = user
        /\ \A a \in Text \ twice : (text[a] = "int3") = (a \in user)
        /\ \A a \in user \ twice : m_breakpoints[a] = "orig"

\* The debugger does not change what the program does: however it is stopped
\* and resumed, it executes its instructions one after another, none twice and
\* none left out, and it never runs through a breakpoint of the user.
KeepsTheProgram ==
    machine' # machine =>
        /\ machine' \in Executed(machine)
        /\ mode = "running" => machine.pc \notin user

ExecutesTheProgram == [][KeepsTheProgram]_vars

=============================================================================
