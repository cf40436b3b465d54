SPECIFICATION FairSpec
CONSTANTS
    c1 = c1
    c2 = c2
    r1 = r1
    r2 = r2
    Callers = {c1, c2}
    Requests = {r1, r2}
    NoRequest = NoRequest
    Kinds <- TheKinds
    Threshold = 2
    QueueCap = 1
    RxCap = 1
    MaxPending = 1
    MaxPauses = 1
    MaxHigh = 1
CHECK_DEADLOCK FALSE
INVARIANTS TypeOK AnswersAreOwn
PROPERTIES DeadReaderIsNoticed
