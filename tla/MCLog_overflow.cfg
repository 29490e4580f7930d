SPECIFICATION Spec
CONSTANTS
    Procs = {p1, p2, p3}
    Blocks = {b1, b2, b3}
    Values = {v1}
    NoBuf = NoBuf
    MAXOPBLOCKS = 1
    LOGSIZE = 3
    NLog = 3
    MaxCrashes = 0
SYMMETRY Symmetric
INVARIANTS
    NoOverflowPanic
CHECK_DEADLOCK FALSE
