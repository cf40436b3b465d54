SPECIFICATION FairSpec
CONSTANTS
    r1 = r1
    r2 = r2
    Requests = {r1, r2}
    CtlIds = 1
    TxIds = 2
    TxQueueSize = 1
    IndicationQueueSize = 1
    EventQueueSize = 1
    Coalesced = {"reset", "status"}
    Edges = {"message"}
    RequestCost = 3
    IndicationCost = 2
    Budget = 6
    None = None
INVARIANTS TypeOK NoSendOnClosed AnswerIsMine NoAnswerLost NewestIsKept
PROPERTIES ResetIsDelivered CloseReturns LossEndsWaits
CHECK_DEADLOCK FALSE
