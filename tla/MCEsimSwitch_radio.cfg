SPECIFICATION Spec
CONSTANTS
    a = a
    b = b
    Profiles = {a, b}
    NoProfile = NoProfile
    MaxSwitches = 1
    RadioCycle = TRUE
    MayRefuse = FALSE
INVARIANTS RadioIsBack
CHECK_DEADLOCK FALSE
