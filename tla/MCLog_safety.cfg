SPECIFICATION Spec
CONSTANTS
    Procs = {p1, p2}
    Blocks = {b1, b2, b3, b4}
    Values = {v1, v2}
    NoBuf = NoBuf
    MAXOPBLOCKS = 2
    LOGSIZE = 4
    NLog = 5
    MaxCrashes = 2
SYMMETRY Symmetric
INVARIANTS
    TypeOK
    CommitExclusive
    SpaceReserved
    IdleLogEmpty
    PinsMatchLog
PROPERTIES
    DurableAtHeaderWrite
    TxnRefinement
CHECK_DEADLOCK FALSE
