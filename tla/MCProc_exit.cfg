SPECIFICATION FairSpec
CONSTANTS
    Slots = {init, a, b}
    INITPROC = init
    CPUs = {c1}
    None = None
    Calls = {"fork", "clone", "wait", "join", "exit", "kill"}
PROPERTIES
    ExitCompletes
