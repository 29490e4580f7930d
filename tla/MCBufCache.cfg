SPECIFICATION FairSpec
CONSTANTS
    Procs = {p1, p2}
    Blocks = {b1, b2, b3}
    Updated = {b1}
    NBUF = 2
    None = None
INVARIANTS
    TypeOK
    OneUserPerBuffer
    RefsBalanced
    UpdatesKept
    RecyclerGetsBlock
    IndexMatchesMeta
PROPERTIES
    SleepersWake
VIEW View
CHECK_DEADLOCK FALSE
