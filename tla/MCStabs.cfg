SPECIFICATION Spec
CONSTANTS
    NStabs = 3
    Values = {1, 2}
    Procedures = {}
    NoName = NoName
INVARIANT
    RegionContains
CHECK_DEADLOCK FALSE
