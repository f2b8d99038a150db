SPECIFICATION Spec
CONSTANTS
    Procs = {p1, p2}
    NFrames = 13
    NPages = 6
    NPTEntries = 3
    StackPages = 3
    Preallocated = 1
    Vals = {"file", "zero", "garbage", "written"}
    Zero = "zero"
    Garbage = "garbage"
    Written = "written"
    IntPlaces <- MCIntPlaces
    MaxStores = 1
    MaxStarts = 3
    None = None
    NoProc = NoProc
    Unmapped = Unmapped
    Fresh = Fresh
    Binaries <- MCBinaries
SYMMETRY Symmetry
INVARIANTS
    FramesAccounted
    TranslationsSound
PROPERTIES
    ImplementsSpaces
CHECK_DEADLOCK FALSE
