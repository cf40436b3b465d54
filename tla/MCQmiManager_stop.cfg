SPECIFICATION FairSpec
CONSTANTS
    dev = dev
    api = api
    Callers = {dev, api}
    Calls <- TwoCallers
    EventCap = 1
    StartIsPrompt = TRUE
    MaxResets = 0
    MaxIndications = 1
    MaxTrouble = 1
    MaxOps = 3
    OpCost = 1
    Budget = 5
INVARIANTS TypeOK StopIsClean
PROPERTIES StopEnds
CHECK_DEADLOCK FALSE
