SPECIFICATION Spec
CONSTANTS
    NoProc = NoProc
    NoWorker = NoWorker
    p1 = p1
    p2 = p2
    p3 = p3
    g1 = g1
    g2 = g2
    g3 = g3
    g4 = g4
    g5 = g5
    Procs = {p1, p2}
    Gens = {g1, g2, g3, g4}
    Operations = {"remove", "rebuild", "reboot"}
    Rounds = 1
    RebuildMax = 1
    MaxTrouble = 1
    MaxOps = 1
INVARIANTS TypeOK RegisteredIsRunning MarksAreOwned
CHECK_DEADLOCK FALSE
