\* Two sockets on one room, resets at any time, dropped sockets and restarts.
CONSTANTS
    d1 = d1
    d2 = d2
    a = a
    Drivers = {d1, d2}
    Personas = {a}
    Human = Human
    MaxLog = 4
    MaxSessions = 3
    MaxResets = 1
    MayCrash = TRUE
SPECIFICATION Spec
SYMMETRY MCSymmetry
INVARIANTS TypeOK OthersTold
CHECK_DEADLOCK FALSE
