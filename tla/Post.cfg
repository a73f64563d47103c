\* Both modes under every fault: rows deleted, sends too slow, clients leaving.
CONSTANTS
    a = a
    b = b
    c = c
    Personas = {a, b, c}
    None = None
    Room = Room
    Wired = {a, b}
    Modes = {"sequential", "parallel"}
    Budget = 2
    WaveCap = 2
    MaxMentions = 3
    MaxDeletes = 1
    SlowClient = TRUE
SPECIFICATION PostSpec
INVARIANTS PostTypeOK EveryTurnReports OneAtATime BusyHonest MentionsMetInTurn
PROPERTIES AllReleased
