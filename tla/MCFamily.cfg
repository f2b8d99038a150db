SPECIFICATION Spec
CONSTANTS
    idleproc = idleproc
    initproc = initproc
    Procs = {initproc, u1, u2, u3, u4}
    NULL = NULL
SYMMETRY UserSymmetry
INVARIANTS
    WellLinked
PROPERTIES
    ImplementsLists
