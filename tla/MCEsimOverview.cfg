SPECIFICATION Spec
CONSTANTS
    c1 = c1
    c2 = c2
    a = a
    b = b
    Callers = {c1}
    Reloader = Reloader
    Profiles = {a, b}
    NoProfile = NoProfile
    NoView = NoView
    MaxGeneration = 3
    MaxWrites = 2
SYMMETRY EitherProfile
INVARIANTS TypeOK AnswersAreFresh
CHECK_DEADLOCK FALSE
