SPECIFICATION Spec
CONSTANTS
    a = a
    b = b
    Profiles = {a}
    NoProfile = NoProfile
    MaxSwitches = 2
    RadioCycle = TRUE
    MayRefuse = TRUE
INVARIANTS TypeOK MarkIsNewest
CHECK_DEADLOCK FALSE
