\* A PARALLEL post of two personas, nothing failing.
CONSTANTS
    a = a
    b = b
    Personas = {a, b}
    None = None
    Room = Room
    Wired = {a, b}
    Modes = {"parallel"}
    Budget = 2
    WaveCap = 2
    MaxMentions = 2
    MaxDeletes = 0
    SlowClient = FALSE
SPECIFICATION PostSpec
INVARIANTS MentionsMet
