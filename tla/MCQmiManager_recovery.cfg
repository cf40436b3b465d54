SPECIFICATION FairSpec
CONSTANTS
    dev = dev
    api = api
    Callers = {dev}
    Calls <- StartConnect
    EventCap = 1
    StartIsPrompt = TRUE
    MaxResets = 2
    MaxIndications = 1
    MaxTrouble = 2
    MaxOps = 2
    OpCost = 2
    Budget = 6
PROPERTIES StrandedByDropOnly CutOffByDeferralOnly RecoveryEnds
CHECK_DEADLOCK FALSE
