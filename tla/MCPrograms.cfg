SPECIFICATION USpec
CONSTANTS
    idleproc = idleproc
    initproc = initproc
    Procs = {idleproc, initproc, u1, u2, u3}
    NULL = NULL
    MAX_PROCESS = 5
    MAX_TIME_SLICE = 1
    KSTACKPAGE = 1
    MmPages = 1
    TotalPages = 7
    MaxHeapPages = 0
    Yields = 1
    max_child = 2
PROPERTY
    ProgramsPass
