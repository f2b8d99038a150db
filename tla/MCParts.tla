------------------------------ MODULE MCParts ------------------------------
(***************************************************************************)
(* Parts that have nothing to do with each other, in one run: the lists,   *)
(* the registers and kernel stacks, the screen under the monitor, the      *)
(* debugger and its commands, the cache simulator, the boot loader, and    *)
(* the functions on symbols, strings, formats and bits.  part says which   *)
(* of them works, the others stay as they start.                           *)
(***************************************************************************)
EXTENDS List, Context, TLC

CONSTANTS
    MaxBreaks, MaxCount, NStabs, Values, NoName,
    CRT_ROWS, CRT_COLS, BUFSIZE, Letters,
    Bytes, MaxText, Bases,
    Characters, MaxFormat

VARIABLES
    part,
    crt_buf, crt_pos, line, argv,                                   \* Terminal
    machine, text, m_breakpoints, to_delete, mode, user, twice,     \* Debugger
    cache, count, hit_count, miss_count, eviction_count,            \* Csim
    stabs, files, target,                                           \* Stabs
    string,                                                         \* Strings
    format,                                                         \* Printf
    word,                                                           \* Bits
    program,                                                        \* Commands
    image, memory, ph, reading, stage                               \* Bootmain

Monitor == INSTANCE Terminal WITH
    Commands <- {<<"a">>}, Prompt <- <<">">>, Reply <- <<"r", "LF">>

Instruction(op, to, fn, start) == [op |-> op, to |-> to, fn |-> fn, start |-> start]

\* f, with a loop in one line, and main, which calls f in a loop.
MCCode == 2  :> Instruction("enter", 0, "f", 2)     @@
          4  :> Instruction("next", 0, "f", 4)      @@
          6  :> Instruction("branch", 4, "f", 4)    @@
          8  :> Instruction("ret", 0, "f", 8)       @@
          10 :> Instruction("enter", 0, "main", 10) @@
          12 :> Instruction("call", 2, "main", 12)  @@
          14 :> Instruction("branch", 12, "main", 14) @@
          16 :> Instruction("ret", 0, "main", 16)

Tracer == INSTANCE Debugger WITH
    Addrs <- DOMAIN MCCode, Code <- MCCode, START <- 0, END <- 18, Main <- 10

\* Three lines of one set, with two addresses of one line, and two of another.
Cache == INSTANCE Csim WITH s <- 2, E <- 2, b <- 1, Addresses <- {2, 10, 11, 18, 4, 12}

\* Up to three lines, of which one may come from another file, and up to two
\* parameters.
MCProcedures ==
    {[name |-> "f", size |-> 6, args |-> args, lines |-> lines,
      inlined |-> inlined, locals |-> locals] :
        args \in 0 .. 2, lines \in {<<0>>, <<0, 2>>, <<0, 3, 5>>},
        inlined \in {{}, {2}, {3}}, locals \in BOOLEAN}

Symbols == INSTANCE Stabs WITH Procedures <- MCProcedures

Memory == INSTANCE Strings WITH text <- string

\* Negative numbers, the least one too, that an int of 8 bits has.
Printer == INSTANCE Printf WITH
    W <- 8,
    Numbers <- <<-1, 10, 127, -128>>,
    Texts <- <<<<"a", "b", "DEL">>, <<>>, <<"a">>, <<"c", "c">>>>,
    Glyphs <- <<"a", "b", "c", "d">>,
    MAXERROR <- 2,
    error_string <- <<<<"bad">>, <<"kill", "ed">>>>

\* Floats of four bits of exponent and three of fraction.
Puzzle == INSTANCE Bits WITH X <- 4, F <- 3

NewDie(name, tag, lo, hi) == [name |-> name, tag |-> tag, lo |-> lo, hi |-> hi]
NewLine(address, n) == [address |-> address, line |-> n, is_stmt |-> TRUE]

\* The lines of a function at lo: one, two, the second without code between,
\* and a loop that comes back to the first line, with an entry that begins none.
Bodies(lo, n) ==
    {<<NewLine(lo, n)>>,
     <<NewLine(lo, n), NewLine(lo + 2, n + 1)>>,
     <<NewLine(lo, n), NewLine(lo, n + 1), NewLine(lo + 2, n + 2)>>,
     <<NewLine(lo, n), [NewLine(lo + 2, n + 1) EXCEPT !.is_stmt = FALSE], NewLine(lo + 4, n)>>}

Unit(name, lo, lines, second, dies) ==
    [name |-> name, lo |-> lo, hi |-> lo + 16,
     dies |-> <<NewDie("f", "subprogram", lo, lo + 8),
                NewDie(second, "subprogram", lo + 8, lo + 16)>> \o dies,
     lines |-> lines \o <<NewLine(lo + 16, 0)>>]

NewSymbol(name, t, value) == [name |-> name, type |-> t, value |-> value]

\* Two files of one name in two directories, with a function f in each.
MCPrograms ==
    {[units |-> <<Unit("a/x.c", 0, f \o g, "g", <<>>), Unit("b/x.c", 16, f2 \o m, "main", die)>>,
      sections |->
        <<[type |-> "strtab", symbols |-> <<>>],
          [type |-> "symtab",
           symbols |-> <<NewSymbol("f", "func", 0), NewSymbol("f", "func", 16)>>],
          [type |-> "dynsym", symbols |-> <<NewSymbol("f", "tls", 3)>>]>>] :
        f \in Bodies(0, 1), g \in Bodies(8, 3), f2 \in Bodies(16, 1), m \in Bodies(24, 4),
        die \in {<<>>, <<NewDie("f", "variable", 0, 0)>>}}

Dispatch == INSTANCE Commands WITH Programs <- MCPrograms, MaxLine <- 8

\* Two segments over sectors of three words, with a bss behind the second.
Segment(offset, va, filesz, bss) ==
    [p_offset |-> offset, p_va |-> va, p_filesz |-> filesz, p_memsz |-> filesz + bss]

MCImages ==
    {[valid |-> TRUE, phdr |-> <<Segment(o, o + 3, n, 0), Segment(p, p + d, m, bss)>>] :
        o \in 3 .. 5, n \in 1 .. 4, p \in 4 .. 10, d \in {0, 3, 6}, m \in 1 .. 3, bss \in 0 .. 4}
    \cup {[valid |-> FALSE, phdr |-> <<>>]}

Loader == INSTANCE Bootmain WITH
    SECTSIZE <- 3, MEMSIZE <- 24, Images <- MCImages

\* Two processes that were interrupted in user mode, and one interrupt more.
MaxOnStacks == 5
OnStacks(st) == FoldFunction(LAMBDA s, n : Len(s) + n, 0, st)

MonitorVars == <<crt_buf, crt_pos, line, argv>>
TracerVars == <<machine, text, m_breakpoints, to_delete, mode, user, twice>>
CacheVars == <<cache, count, hit_count, miss_count, eviction_count>>
SymbolVars == <<stabs, files, target>>
BootVars == <<image, memory, ph, reading, stage>>
FunctionVars == <<SymbolVars, string, format, word, program, BootVars>>

MCInit ==
    /\ part \in {"list", "cpu", "monitor", "tracer", "cache", "symbols", "strings",
                 "formats", "words", "commands",
                 "boot"}
    /\ Init /\ CpuInit /\ Monitor!Init /\ Tracer!Init /\ Cache!Init
    /\ Symbols!Init /\ Memory!Init /\ Printer!Init /\ Puzzle!Init
    /\ Dispatch!Init /\ Loader!Init

MCNext ==
    \/ /\ part = "list" /\ Next
       /\ UNCHANGED <<part, CpuVars, MonitorVars, TracerVars, CacheVars, FunctionVars>>
    \/ /\ part = "cpu" /\ CpuNext /\ OnStacks(stack') <= MaxOnStacks
       /\ UNCHANGED <<part, vars, MonitorVars, TracerVars, CacheVars, FunctionVars>>
    \/ /\ part = "monitor" /\ Monitor!Next
       /\ UNCHANGED <<part, vars, CpuVars, TracerVars, CacheVars, FunctionVars>>
    \/ /\ part = "tracer" /\ Tracer!Next
       /\ UNCHANGED <<part, vars, CpuVars, MonitorVars, CacheVars, FunctionVars>>
    \/ /\ part = "cache" /\ Cache!Next
       /\ UNCHANGED <<part, vars, CpuVars, MonitorVars, TracerVars, FunctionVars>>
    \/ /\ \/ part = "symbols" /\ Symbols!Next
             /\ UNCHANGED <<string, format, word, program, BootVars>>
          \/ part = "strings" /\ Memory!Next
             /\ UNCHANGED <<SymbolVars, format, word, program, BootVars>>
          \/ part = "formats" /\ Printer!Next
             /\ UNCHANGED <<SymbolVars, string, word, program, BootVars>>
          \/ part = "words" /\ Puzzle!Next
             /\ UNCHANGED <<SymbolVars, string, format, program, BootVars>>
          \/ part = "commands" /\ Dispatch!Next
             /\ UNCHANGED <<SymbolVars, string, format, word, BootVars>>
          \/ part = "boot" /\ Loader!Next
             /\ UNCHANGED <<SymbolVars, string, format, word, program>>
       /\ UNCHANGED <<part, vars, CpuVars, MonitorVars, TracerVars, CacheVars>>

MCSpec ==
    MCInit /\ [][MCNext]_<<part, vars, CpuVars, MonitorVars, TracerVars, CacheVars, FunctionVars>>

\* console.c, readline.c: the screen shows the line that readline will return.
LinesShown == part = "monitor" => Monitor!ShowsLine

\* src.cpp: at the prompt the breakpoints are those of the user, and no other.
BreakpointsExact == Tracer!BreakpointsExact

\* src.cpp: the debugger does not change what the program does.
ExecutesTheProgram == [][part = "tracer" => Tracer!KeepsTheProgram]_TracerVars

\* csim.c: the counts are those of a cache with LRU replacement.
SimulatesLru == Cache!Reference!Init /\ [][part = "cache" => Cache!CountsAsLru]_CacheVars

\* kdebug.c, string.c, printfmt.c, bits.c and src.cpp: each function computes
\* what its comment asks for, but for an upper case 0X (NumbersRight) and the edges
\* of the regions (RegionContains), and each command of the debugger finds its word,
\* its register, its symbol, its addresses and its lines; bootmain.c: the
\* kernel starts with its segments as the linker made them.
FunctionsRight ==
    /\ part = "symbols" => Symbols!FindsRegion /\ Symbols!TraceRight
    /\ part = "strings" => Memory!StringFunctionsRight
    /\ part = "formats" => Printer!PrintingRight
    /\ part = "words" => Puzzle!PuzzlesRight
    /\ part = "commands" => Dispatch!CommandsRight
    /\ part = "boot" => Loader!KernelLoaded

\* The processes but the idle one are alike.
Symmetry == Permutations(Procs \ {idleproc})

============================================================================
