SPECIFICATION Spec
CONSTANTS
    Slots = {init, a, b}
    INITPROC = init
    CPUs = {c1, c2}
    None = None
    Calls = {"fork", "clone", "wait", "join", "exit", "kill"}
SYMMETRY Symmetric
INVARIANTS
    TypeOK
    QueuedOnce
    RunsOnOneCpu
    ParentsAlive
    NoMissedExit
