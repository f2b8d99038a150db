SPECIFICATION MCSpec
CONSTANTS
    MAX_PROCESS = 6
    MAX_PID = 8
    Pages = {1, 2, 3}
    Frames = {f1, f2}
    StoresTo <- MCStoresTo
    Junk = "junk"
    MaxErrors = 1
    None = None
    Fresh = Fresh
INVARIANTS
    SafeInterval
    SwappableExact
PROPERTIES
    FreshPid
    GetPidEnds
    ImplementsBacking
    FaultEnds
