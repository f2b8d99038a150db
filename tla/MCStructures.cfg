SPECIFICATION MCSpec
CONSTANTS
    PGSIZE = 8
    KMEMSIZE = 56
    kernel_end = 1
    SizeofPage = 1
    MemMaps <- MCMemMaps
    HeapPages = 3
    PageUnits = 5
    SLOB_UNIT = 2
    BigUnits = 2
    Sizes = {1, 3, 7, 20, 21}
    Procs = {p1, p2, p3}
    nobody = nobody
    Node = {2, 4, 6, 8, 9, 12, 14, 16}
    nil = nil
    root = root
    CONSBUFSIZE = 3
    MaxPending = 2
    NO = NO
    None = None
    PAGE_NSECT = 2
    DiskSectors = 6
    Offsets = {1, 2}
SYMMETRY Symmetry
INVARIANTS
    FreeListSound
    HeapSound
    PicksLeast
    TreeSound
    DevicesSound
    ChecksPass
PROPERTIES
    ImplementsPool
    ImplementsTypeahead
CHECK_DEADLOCK FALSE
