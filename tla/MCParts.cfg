SPECIFICATION MCSpec
CONSTANTS
    Heads = {h1, h2}
    Entries = {e1, e2, e3}
    Procs = {p0, p1, p2}
    idleproc = p0
    Junk = Junk
    pid = pid
    MaxFrames = 3
    CRT_ROWS = 3
    CRT_COLS = 3
    BUFSIZE = 5
    Letters = {"a", "b"}
    MaxBreaks = 2
    MaxCount = 5
    NStabs = 5
    Values = {1, 2, 3}
    NoName = NoName
    Bytes = {0, 32, 45, 48, 55, 88, 120, 200}
    MaxText = 4
    Bases = {0, 8, 10, 16}
    Characters = {"%", "c", "d", "e", "p", "s", "5", "0", ".", "-", "#", "*", "l", "z"}
    MaxFormat = 3
SYMMETRY Symmetry
INVARIANTS
    DoublyLinked
    OwnRegisters
    LinesShown
    BreakpointsExact
    FunctionsRight
PROPERTIES
    ImplementsRings
    ExecutesTheProgram
    SimulatesLru
CHECK_DEADLOCK FALSE
