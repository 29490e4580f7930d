SPECIFICATION Spec
CONSTANTS
    Procs = {p1, p2}
    Blocks = {b1, b2}
    Updated = {b1}
    NBUF = 2
    None = None
INVARIANTS
    ReadReturnsBlock
CHECK_DEADLOCK FALSE
