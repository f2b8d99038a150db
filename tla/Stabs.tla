-------------------------------- MODULE Stabs --------------------------------
(***************************************************************************)
(* kern/debug/kdebug.c: stab_binsearch, and debuginfo_eip and              *)
(* print_stackframe, which find the file, the function and the line of an  *)
(* address in the table of debugging symbols.  The table holds entries of  *)
(* several types; those of one type are in the order of their addresses,   *)
(* which for lines count from the start of their function.                 *)
(***************************************************************************)
EXTENDS Integers, Sequences, SequencesExt, FiniteSetsExt

CONSTANTS
    NStabs,         \* entries of the tables that stab_binsearch is tried on
    Values,         \* and their addresses, above 0
    Procedures,     \* the functions of the programs that are compiled
    NoName

VARIABLES
    stabs,          \* the table, from 0
    files,          \* the program it was made from, or none
    target          \* the address that is looked for

vars == <<stabs, files, target>>

Stab(type, value, desc, name) ==
    [n_type |-> type, n_value |-> value, n_desc |-> desc, name |-> name]

----------------------------------------------------------------------------
(* The compiler and the linker.  A function is                             *)
(* [name, size, args, lines, inlined, locals]: lines are the addresses at  *)
(* which its lines begin, inlined those that come from another file, and   *)
(* locals says that a scope is closed behind the last line.                *)

Header == Stab("UNDF", 0, 0, NoName)

Origin(f, i) == IF f.lines[i] \in f.inlined THEN "inline.h" ELSE "file.c"

\* A change of file is written before the line that it concerns.
Changes(f, i, before) == Origin(f, i) # (IF i = 1 THEN before ELSE Origin(f, i - 1))

LinesOf(f, first, before) ==
    FlattenSeq([i \in DOMAIN f.lines |->
        (IF Changes(f, i, before) THEN <<Stab("SOL", 0, 0, Origin(f, i))>> ELSE <<>>)
        \o <<Stab("SLINE", f.lines[i], first + i, NoName)>>])

FunctionStabs(f, addr, first, before) ==
    <<Stab("FUN", addr, 0, f.name)>>
    \o [i \in 1 .. f.args |-> Stab("PSYM", 0, 0, NoName)]
    \o LinesOf(f, first, before)
    \o IF f.locals THEN <<Stab("RBRAC", 0, 0, NoName)>> ELSE <<>>

\* Two functions of a C file, and a file in assembly language, whose lines
\* have absolute addresses.
Start == 10
Second(p) == Start + p[1].size
Assembly(p) == Second(p) + p[2].size
End(p) == Assembly(p) + 4

Compiled(p) ==
    <<Header, Stab("SO", Start, 0, "dir"), Stab("SO", Start, 0, "file.c")>>
    \o FunctionStabs(p[1], Start, 100, "file.c")
    \o FunctionStabs(p[2], Second(p), 200, Origin(p[1], Len(p[1].lines)))
    \o <<Stab("SO", Assembly(p), 0, "file.S"),
         Stab("SLINE", Assembly(p), 301, NoName),
         Stab("SLINE", Assembly(p) + 2, 302, NoName),
         Stab("SO", End(p), 0, NoName)>>

FromZero(table) == [i \in 0 .. Len(table) - 1 |-> table[i + 1]]

Sorted(table) ==
    \A i, j \in DOMAIN table :
        i < j /\ table[i].n_type = table[j].n_type => table[i].n_value <= table[j].n_value

Searched ==
    {FromZero([i \in 1 .. NStabs |-> Stab(t[i][1], t[i][2], 0, NoName)]) :
        t \in [1 .. NStabs -> {"FUN", "PSYM"} \X Values]}

\* A table without symbols, then any.
Init == stabs = FromZero([i \in 1 .. NStabs |-> Header]) /\ files = <<>> /\ target = 0

Unchosen == target = 0

AnyTable ==
    /\ Unchosen
    /\ stabs' \in {t \in Searched : Sorted(t)}
    /\ target' \in Values
    /\ UNCHANGED files

ProgramTable ==
    /\ Unchosen
    /\ files' \in Procedures \X Procedures
    /\ stabs' = FromZero(Compiled(files'))
    /\ target' \in Start .. End(files') - 1

Next == AnyTable \/ ProgramTable

Spec == Init /\ [][Next]_vars

----------------------------------------------------------------------------
(* stab_binsearch on the entries left .. right                             *)

Wanted(type, from, to) == {m \in from .. to : stabs[m].n_type = type}

\* The entry at the middle or the last of the type below it.
NoMatch(s, true_m) == [s EXCEPT !.l = true_m + 1]

\* Fault: the entry itself stays in the region.
Compare_KeepsUpper(s, m, true_m) ==
    CASE stabs[m].n_value < s.addr ->
            [s EXCEPT !.any_matches = TRUE, !.left = m, !.l = true_m + 1]
      [] stabs[m].n_value > s.addr ->
            [s EXCEPT !.any_matches = TRUE, !.right = m, !.r = m - 1]
      [] OTHER ->
            [s EXCEPT !.any_matches = TRUE, !.left = m, !.l = m, !.addr = @ + 1]

\* After an exact match the search goes on for the end of the region.
Compare(s, m, true_m) ==
    CASE stabs[m].n_value < s.addr ->
            [s EXCEPT !.any_matches = TRUE, !.left = m, !.l = true_m + 1]
      [] stabs[m].n_value > s.addr ->
            [s EXCEPT !.any_matches = TRUE, !.right = m - 1, !.r = m - 1]
      [] OTHER ->
            [s EXCEPT !.any_matches = TRUE, !.left = m, !.l = m, !.addr = @ + 1]

Turn(s, type, true_m) ==
    IF Wanted(type, s.l, true_m) = {} THEN NoMatch(s, true_m)
    ELSE Compare(s, Max(Wanted(type, s.l, true_m)), true_m)

RECURSIVE Narrowed(_, _)
Narrowed(s, type) ==
    IF s.l > s.r THEN s ELSE Narrowed(Turn(s, type, (s.l + s.r) \div 2), type)

\* The last match in the region, or its left end.
Rightmost(s, type) ==
    IF s.right < s.left THEN s.right
    ELSE Max({s.left} \cup Wanted(type, s.left, s.right))

Region(left, right) == [left |-> left, right |-> right]
Nonempty(region) == region.left <= region.right

Finish(s, type) ==
    IF s.any_matches THEN Region(Rightmost(s, type), s.right)
    ELSE Region(s.left, s.left - 1)

stab_binsearch(region, type, addr) ==
    Finish(Narrowed([l |-> region.left, r |-> region.right, addr |-> addr,
                     left |-> region.left, right |-> region.right,
                     any_matches |-> FALSE], type), type)

----------------------------------------------------------------------------
(* debuginfo_eip                                                           *)

NotFound == [ret |-> -1]

\* Backwards from the line to the file that it comes from.
RECURSIVE FileOf(_, _)
FileOf(lline, lfile) ==
    IF \/ lline < lfile \/ stabs[lline].n_type = "SOL"
       \/ stabs[lline].n_type = "SO" /\ stabs[lline].n_value # 0
    THEN lline ELSE FileOf(lline - 1, lfile)

\* The parameters that follow the function.
Args(fun) ==
    Cardinality({i \in fun.left + 1 .. fun.right - 1 :
        \A j \in fun.left + 1 .. i : stabs[j].n_type = "PSYM"})

Info(file, fun, line, addr) ==
    [ret  |-> 0,
     file |-> IF FileOf(line.left, file.left) < file.left THEN NoName
              ELSE stabs[FileOf(line.left, file.left)].name,
     line |-> stabs[line.right].n_desc,
     fn_name |-> IF Nonempty(fun) THEN stabs[fun.left].name ELSE NoName,
     fn_addr |-> IF Nonempty(fun) THEN stabs[fun.left].n_value ELSE addr,
     fn_narg |-> Args(fun)]

\* In a function the lines are searched by their distance from its start.
LineRegion(file, fun, addr) ==
    IF Nonempty(fun) THEN stab_binsearch(fun, "SLINE", addr - stabs[fun.left].n_value)
    ELSE stab_binsearch(file, "SLINE", addr)

Located(file, fun, line, addr) ==
    IF Nonempty(line) THEN Info(file, fun, line, addr) ELSE NotFound

InFile(file, fun, addr) ==
    Located(file, fun, LineRegion(file, fun, addr), addr)

SearchFile(file, addr) ==
    IF file.left = 0 THEN NotFound
    ELSE InFile(file, stab_binsearch(file, "FUN", addr), addr)

debuginfo_eip(addr) ==
    SearchFile(stab_binsearch(Region(0, Max(DOMAIN stabs)), "SO", addr), addr)

STACKFRAME_DEPTH == 20

\* The calls on the stack, the latest first, by their return addresses.
print_stackframe(eips) ==
    [i \in 1 .. Min({Len(eips), STACKFRAME_DEPTH}) |-> debuginfo_eip(eips[i] - 1)]

----------------------------------------------------------------------------
(* Properties                                                              *)

Whole == stab_binsearch(Region(0, NStabs - 1), "FUN", target)

Before == {m \in Wanted("FUN", 0, NStabs - 1) : stabs[m].n_value <= target}
Behind == {m \in Wanted("FUN", 0, NStabs - 1) : stabs[m].n_value > target}

\* After a match at the address itself the search looks for the next address,
\* and takes an entry there for a match.
Adjacent ==
    {target, target + 1} \subseteq {stabs[m].n_value : m \in Before \cup Behind}

\* If an entry of the type is at or before the address, the search ends at the
\* last one, with all that follows up to the next one, however many entries
\* of other types lie between and however many have the same address; if the
\* table has no entry of the type at all, the region is empty.
FindsRegion ==
    files = <<>> =>
        /\ Before # {} /\ ~Adjacent
            => Whole = Region(Max(Before), Min(Behind \cup {NStabs}) - 1)
        /\ Before \cup Behind = {} => ~Nonempty(Whole)

\* What the comment promises (kdebug.c:60-64): a region that is not empty
\* starts with the entry that contains the address.
RegionContains ==
    files = <<>> /\ Nonempty(Whole) => Whole.left \in Before

\* The line of function f at an address inside it, by its place.
PlaceOf(f, off) == Max({i \in DOMAIN f.lines : f.lines[i] <= off})

Locates(info, f, start, first) ==
    LET place == PlaceOf(f, target - start)
        closed == f.locals /\ place = Len(f.lines)
        interrupted == place < Len(f.lines) /\ Origin(f, place + 1) # Origin(f, place)
    IN  /\ info.ret = 0 /\ info.fn_name = f.name /\ info.fn_addr = start
        /\ info.fn_narg = f.args
        /\ ~closed /\ ~interrupted => info.line = first + place
        /\ info.file = Origin(f, place)

\* A back trace names, for each return address, the function that made the
\* call, though the address may be that of the next one, with its parameters
\* and the file of the line.  The line is right unless an entry of another type
\* stands between it and the next line: the end of a scope, or a change of file.
TraceRight ==
    files # <<>> =>
        LET info == print_stackframe(<<target + 1>>)[1]
        IN  IF target < Second(files) THEN Locates(info, files[1], Start, 100)
            ELSE IF target < Assembly(files)
            THEN Locates(info, files[2], Second(files), 200)
            ELSE /\ info.ret = 0 /\ info.file = "file.S" /\ info.fn_addr = target
                 /\ target < Assembly(files) + 2 => info.line = 301

=============================================================================
