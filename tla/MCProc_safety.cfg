\* Three user processes, of which memory for only some can be had at a time.
SPECIFICATION Spec
CONSTANTS
    idleproc = idleproc
    initproc = initproc
    Procs = {idleproc, initproc, u1, u2, u3}
    NULL = NULL
    MAX_PROCESS = 5
    MAX_TIME_SLICE = 1
    KSTACKPAGE = 2
    MmPages = 3
    TotalPages = 17
    MaxHeapPages = 1
SYMMETRY UserSymmetry
INVARIANTS
    TypeOK
    RunQueueExact
    NoLostWakeup
    NobodyHangs
    AssertionsHold
    PagesConserved
    CountExact
    LiveParents
PROPERTIES
    ImplementsTree
