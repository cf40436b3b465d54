SPECIFICATION FairSpec
CONSTANTS
    c1 = c1
    c2 = c2
    c3 = c3
    Callers = {c1, c2, c3}
    MaxGeneration = 2
    MaxCalls = 4
INVARIANTS TypeOK SingleProbe ReadyIsCurrent
PROPERTIES SuccessIsCurrent EveryCallEnds
CHECK_DEADLOCK FALSE
