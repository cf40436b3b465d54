SPECIFICATION Spec
CONSTANTS
    c1 = c1
    c2 = c2
    c3 = c3
    Callers = {c1, c2, c3}
    Requests <- MixedCalls
    MaxSessions = 1
    MaxQMITransports = 2
    MaxSeq = 4
    MaxTouches = 1
SYMMETRY Symmetry
INVARIANTS TypeOK BarrierKeepsOut QueueIsWaiters NoLostWakeup
PROPERTIES LeaseEndsByRight NoOvertakingBarrier ImplementsAccess
CHECK_DEADLOCK FALSE
