------------------------------ MODULE Commands ------------------------------
(***************************************************************************)
(* What the debugger (src.cpp) makes of its commands and of the debugging  *)
(* information: which word leads to which command, where break sets its    *)
(* breakpoints, the registers by name and number, the symbols, and the     *)
(* lines that are shown where the program has stopped.  Debugger has what  *)
(* the commands do to the program.                                         *)
(***************************************************************************)
EXTENDS Integers, Sequences, FiniteSets, SequencesExt

CONSTANTS
    Programs,       \* programs that are debugged, see Init
    MaxLine         \* bound of the lines of a source file

VARIABLE program    \* the compilation units of m_dwarf and the sections of m_elf

\* units: [name, lo, hi, dies, lines], with dies [name, tag, lo, hi] and lines
\* [address, line, is_stmt] that end with the first address behind the unit.
Init == program = [units |-> <<>>, sections |-> <<>>]

Next == program.units = <<>> /\ program' \in Programs

Spec == Init /\ [][Next]_program

----------------------------------------------------------------------------
(* Words                                                                   *)

is_prefix(s, of) == Len(s) <= Len(of) /\ SubSeq(of, 1, Len(s)) = s
is_suffix(s, of) == Len(s) <= Len(of) /\ SubSeq(of, Len(of) - Len(s) + 1, Len(of)) = s

\* The words that are compared, in their order, and what they lead to.
Tests ==
    <<<<"continue", "continue_execution">>,
      <<"break", "set_breakpoint">>, <<"b", "set_breakpoint">>,
      <<"register", "register">>, <<"memory", "memory">>,
      <<"stepi", "single_step">>, <<"si", "single_step">>,
      <<"step", "step_in">>, <<"s", "step_in">>,
      <<"next", "step_over">>, <<"n", "step_over">>,
      <<"finish", "step_out">>, <<"fin", "step_out">>,
      <<"symbol", "lookup_symbol">>,
      <<"quit", "exit">>, <<"q", "exit">>, <<"exit", "exit">>>>

\* The command may be an abbreviation; the first test that it passes counts.
Passed(command) == {i \in DOMAIN Tests : is_prefix(command, Tests[i][1])}

handle_command(command) ==
    IF Passed(command) = {} THEN "Unknown Command"
    ELSE Tests[CHOOSE i \in Passed(command) : \A j \in Passed(command) : i <= j][2]

----------------------------------------------------------------------------
(* Registers                                                               *)

Register(name, dwarf_r) == [name |-> name, dwarf_r |-> dwarf_r]

g_register_descriptors ==
    <<Register("r15", 15), Register("r14", 14), Register("r13", 13), Register("r12", 12),
      Register("rbp", 6), Register("rbx", 3), Register("r11", 11), Register("r10", 10),
      Register("r9", 9), Register("r8", 8), Register("rax", 0), Register("rcx", 2),
      Register("rdx", 1), Register("rsi", 4), Register("rdi", 5), Register("orig_rax", -1),
      Register("rip", -1), Register("cs", 51), Register("eflags", 49), Register("rsp", 7),
      Register("ss", 52), Register("fs_base", 58), Register("gs_base", 59),
      Register("ds", 53), Register("es", 50), Register("fs", 54), Register("gs", 55)>>

\* Fault: two registers have changed places.
DescriptorIndex_Swapped(name) ==
    CASE name = "rcx" -> 13 [] name = "rdx" -> 12
      [] OTHER -> SelectInSeq(g_register_descriptors, LAMBDA rd : rd.name = name)

\* The place in the table is the place in what PTRACE_GETREGS returns.
DescriptorIndex(name) ==
    SelectInSeq(g_register_descriptors, LAMBDA rd : rd.name = name)

get_register_value(regs, name) == regs[DescriptorIndex(name)]
set_register_value(regs, name, value) == [regs EXCEPT ![DescriptorIndex(name)] = value]

get_register_value_from_dwarf_register(regs, regnum) ==
    regs[SelectInSeq(g_register_descriptors, LAMBDA rd : rd.dwarf_r = regnum)]

\* struct user_regs_struct, and the numbers of the System V ABI.
user_regs_struct ==
    <<"r15", "r14", "r13", "r12", "rbp", "rbx", "r11", "r10", "r9", "r8", "rax", "rcx",
      "rdx", "rsi", "rdi", "orig_rax", "rip", "cs", "eflags", "rsp", "ss", "fs_base",
      "gs_base", "ds", "es", "fs", "gs">>
dwarf_numbers ==
    <<"rax", "rdx", "rcx", "rbx", "rsi", "rdi", "rbp", "rsp", "r8", "r9", "r10", "r11",
      "r12", "r13", "r14", "r15">>

----------------------------------------------------------------------------
(* Addresses and lines                                                     *)

Covers(range, pc) == range.lo <= pc /\ pc < range.hi

\* What a function that finds nothing does: the exception ends the debugger.
Throws == [throws |-> "out_of_range"]

UnitOf(pc) == SelectInSeq(program.units, LAMBDA u : Covers(u, pc))

\* find_address: the last entry at or below pc.
EntryIndex(unit, pc) == SelectLastInSeq(unit.lines, LAMBDA e : e.address <= pc)

get_line_entry_from_pc(pc) ==
    IF UnitOf(pc) = 0 THEN Throws
    ELSE program.units[UnitOf(pc)].lines[EntryIndex(program.units[UnitOf(pc)], pc)]

FunctionIn(unit, pc) ==
    SelectInSeq(unit.dies, LAMBDA die : die.tag = "subprogram" /\ Covers(die, pc))

get_function_from_pc(pc) ==
    IF UnitOf(pc) = 0 \/ FunctionIn(program.units[UnitOf(pc)], pc) = 0 THEN Throws
    ELSE program.units[UnitOf(pc)].dies[FunctionIn(program.units[UnitOf(pc)], pc)]

\* The entry behind the first one of the function: its prologue is skipped.
BehindPrologue(unit, low_pc) == unit.lines[EntryIndex(unit, low_pc) + 1].address

Named(name) ==
    {<<u, d>> \in (DOMAIN program.units) \X (1 .. 4) :
        d \in DOMAIN program.units[u].dies /\ program.units[u].dies[d].name = name}
Die(x) == program.units[x[1]].dies[x[2]]
IsBefore(x, y) == x[1] < y[1] \/ (x[1] = y[1] /\ x[2] < y[2])

\* A breakpoint in every function of that name, up to something else that has
\* the name: it has no address, and at_low_pc throws.
set_breakpoint_at_function(name) ==
    {BehindPrologue(program.units[x[1]], Die(x).lo) :
        x \in {x \in Named(name) :
                \A y \in Named(name) : Die(y).tag = "variable" => IsBefore(x, y)}}

\* Of the units whose name ends so, the first that has code for the line.
LineEntry(unit, line) ==
    SelectInSeq(unit.lines, LAMBDA e : e.is_stmt /\ e.line = line)

set_breakpoint_at_source_line(file, line) ==
    LET i == SelectInSeq(program.units,
                LAMBDA u : is_suffix(file, u.name) /\ LineEntry(u, line) # 0)
    IN  IF i = 0 THEN {}
        ELSE {program.units[i].lines[LineEntry(program.units[i], line)].address}

----------------------------------------------------------------------------
(* Symbols                                                                 *)

to_symbol_type(stt) ==
    IF stt \in {"object", "func", "section", "file"} THEN stt ELSE "notype"

\* In the order of the sections and their entries.
lookup_symbol(name) ==
    FlattenSeq([i \in DOMAIN program.sections |->
        IF program.sections[i].type \notin {"symtab", "dynsym"} THEN <<>>
        ELSE LET named == SelectSeq(program.sections[i].symbols, LAMBDA s : s.name = name)
             IN  [j \in DOMAIN named |->
                    [type |-> to_symbol_type(named[j].type), addr |-> named[j].value]]])

----------------------------------------------------------------------------
(* The source                                                              *)

n_lines_context == 2

\* The lines that are shown of a file of so many lines, and the one that is
\* marked, 0 if none.
start_line(line) == IF line <= n_lines_context THEN 1 ELSE line - n_lines_context
end_line(line) ==
    line + n_lines_context
        + (IF line < n_lines_context THEN n_lines_context - line ELSE 0) + 1

print_source(length, line) ==
    LET shown == {i \in start_line(line) .. end_line(line) : i <= length}
    IN  [shown |-> shown, marked |-> {i \in shown \cup {length + 1} : i = line}]

----------------------------------------------------------------------------
(* Properties                                                              *)

Words == {Tests[i][1] : i \in DOMAIN Tests}
Abbreviations == UNION {{SubSeq(w, 1, n) : n \in 1 .. Len(w)} : w \in Words}

\* Every abbreviation leads to a command that it abbreviates, every command but
\* step_in has a word that leads to it, step and s lead to stepi, and a line
\* that begins with a blank continues the program.
WordsRight ==
    /\ \A a \in Abbreviations :
        \E i \in Passed(a) : Tests[i][2] = handle_command(a)
    /\ {handle_command(a) : a \in Abbreviations}
            = {Tests[i][2] : i \in DOMAIN Tests} \ {"step_in"}
    /\ handle_command("step") = "single_step" /\ handle_command("s") = "single_step"
    /\ handle_command("") = "continue_execution"

\* Reading and writing a register by its name is about the register of the CPU
\* that has that name and no other, and the numbers of DWARF name the same.
RegistersRight ==
    LET regs == [i \in DOMAIN user_regs_struct |-> user_regs_struct[i]]
    IN  /\ \A i \in DOMAIN user_regs_struct :
            /\ get_register_value(regs, user_regs_struct[i]) = user_regs_struct[i]
            /\ set_register_value(regs, user_regs_struct[i], "new") = [regs EXCEPT ![i] = "new"]
        /\ \A n \in DOMAIN dwarf_numbers :
            get_register_value_from_dwarf_register(regs, n - 1) = dwarf_numbers[n]

FunctionsNamed(name) ==
    {die \in UNION {ToSet(program.units[u].dies) : u \in DOMAIN program.units} :
        die.name = name /\ die.tag = "subprogram"}

\* A function whose code has more lines than the one it begins with.
HasBody(die) ==
    \E u \in DOMAIN program.units : \E i \in DOMAIN program.units[u].lines :
        die.lo < program.units[u].lines[i].address /\ program.units[u].lines[i].address < die.hi

\* break with a name sets one breakpoint in each function of that name, behind
\* its first line, if nothing else has the name and all of them have a second
\* line; break with a file and a
\* line stops where an instruction of just that line begins.
BreaksRight ==
    /\ \A name \in {"f", "main"} :
        (\A x \in Named(name) : Die(x).tag = "subprogram" /\ HasBody(Die(x))) =>
            /\ \A die \in FunctionsNamed(name) :
                \E a \in set_breakpoint_at_function(name) :
                    /\ die.lo < a /\ get_function_from_pc(a) = die
            /\ Cardinality(set_breakpoint_at_function(name)) = Cardinality(FunctionsNamed(name))
    /\ \A file \in {"x.c", "a/x.c", "b/x.c"}, line \in 1 .. MaxLine :
        \A a \in set_breakpoint_at_source_line(file, line) :
            /\ get_line_entry_from_pc(a).address = a
            /\ is_suffix(file, program.units[UnitOf(a)].name)
            /\ \E i \in DOMAIN program.units[UnitOf(a)].lines :
                LET e == program.units[UnitOf(a)].lines[i]
                IN  e.address = a /\ e.line = line /\ e.is_stmt

\* The line where the program has stopped is shown and nothing else is marked,
\* with as many lines before and after it as there are, up to the context, and
\* never more than one line more.
SourceRight ==
    \A length \in 1 .. MaxLine : \A line \in 1 .. length :
        LET r == print_source(length, line)
        IN  /\ r.marked = {line}
            /\ \A i \in 1 .. length :
                line - i \in -n_lines_context .. n_lines_context => i \in r.shown
            /\ Cardinality(r.shown) <= 2 * n_lines_context + 2

\* A symbol is found in every table that has it, and in no other section.
SymbolsRight ==
    \A name \in {"f", "main"} :
        /\ \A i \in DOMAIN lookup_symbol(name) : lookup_symbol(name)[i].type # "tls"
        /\ Len(lookup_symbol(name)) =
            Cardinality({<<i, j>> \in (DOMAIN program.sections) \X (1 .. 3) :
                /\ program.sections[i].type # "strtab"
                /\ j \in DOMAIN program.sections[i].symbols
                /\ program.sections[i].symbols[j].name = name})

CommandsRight ==
    IF program.units = <<>> THEN WordsRight /\ RegistersRight /\ SourceRight
    ELSE BreaksRight /\ SymbolsRight

=============================================================================
