\* One socket, no reset and no restart: posts and commands follow one another.
CONSTANTS
    d1 = d1
    a = a
    b = b
    Drivers = {d1}
    Personas = {a, b}
    Human = Human
    MaxLog = 5
    MaxSessions = 3
    MaxResets = 0
    MayCrash = FALSE
SPECIFICATION Spec
SYMMETRY MCSymmetry
INVARIANTS OthersTold OwnRemembered NeverRetold NeverStale
PROPERTIES PointersAdvance
CHECK_DEADLOCK FALSE
