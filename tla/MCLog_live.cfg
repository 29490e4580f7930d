SPECIFICATION FairSpec
CONSTANTS
    Procs = {p1, p2, p3}
    Blocks = {b1, b2}
    Values = {v1}
    NoBuf = NoBuf
    MAXOPBLOCKS = 1
    LOGSIZE = 3
    NLog = 4
    MaxCrashes = 1
PROPERTIES
    SleepersWake
    SyncReturns
