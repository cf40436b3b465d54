SPECIFICATION FairSpec
CONSTANTS
    c1 = c1
    c2 = c2
    c3 = c3
    Callers = {c1, c2, c3}
    Requests <- TransportCalls
    MaxSessions = 1
    MaxQMITransports = 2
    MaxSeq = 3
    MaxTouches = 1
PROPERTIES EveryWaitEnds
CHECK_DEADLOCK FALSE
