SPECIFICATION FairSpec
CONSTANTS
    Slots = {init, a, b}
    INITPROC = init
    CPUs = {c1, c2}
    None = None
    Calls = {"fork", "exit"}
PROPERTIES
    RunnableRuns
