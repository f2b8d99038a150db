SPECIFICATION Spec
CONSTANTS
    Bytes = {0, 45, 48, 55, 88, 120}
    MaxText = 4
    Bases = {0, 8, 10, 16}
INVARIANT
    NumbersRight
CHECK_DEADLOCK FALSE
