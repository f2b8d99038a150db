SPECIFICATION Spec
CONSTANTS
    idleproc = idleproc
    initproc = initproc
    Procs = {idleproc, initproc, u1, u2}
    NULL = NULL
    MAX_PROCESS = 4
    MAX_TIME_SLICE = 1
    KSTACKPAGE = 2
    MmPages = 3
    TotalPages = 12
    MaxHeapPages = 1
INVARIANTS
    NoPageLeak
