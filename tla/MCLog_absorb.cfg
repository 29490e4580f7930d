SPECIFICATION Spec
CONSTANTS
    Procs = {p1, p2}
    Blocks = {b1, b2}
    Values = {v1}
    NoBuf = NoBuf
    MAXOPBLOCKS = 1
    LOGSIZE = 2
    NLog = 3
    MaxCrashes = 0
SYMMETRY Symmetric
INVARIANTS
    NoAbsorptionPanic
CHECK_DEADLOCK FALSE
