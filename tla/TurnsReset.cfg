\* One socket and one reset, no crash.
CONSTANTS
    d1 = d1
    a = a
    Drivers = {d1}
    Personas = {a}
    Human = Human
    MaxLog = 5
    MaxSessions = 3
    MaxResets = 1
    MayCrash = FALSE
SPECIFICATION Spec
INVARIANTS ResetHonored
CHECK_DEADLOCK FALSE
