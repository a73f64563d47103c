\* A SEQUENTIAL post of two personas, one of them without a backend.
CONSTANTS
    a = a
    b = b
    Personas = {a, b}
    None = None
    Room = Room
    Wired = {b}
    Modes = {"sequential"}
    Budget = 2
    WaveCap = 2
    MaxMentions = 2
    MaxDeletes = 0
    SlowClient = FALSE
SPECIFICATION PostSpec
INVARIANTS Isolation
