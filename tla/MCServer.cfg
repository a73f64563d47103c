\* Two REST requests at a time beside one post and one turn on a small install;
\* startup, two stops and two runs of the script on every install.
CONSTANTS
    systemd = systemd
    writer = writer
    Team = {systemd, writer}
    Dispatcher = systemd
    Guest = Guest
    Me = Me
    Boss = Boss
    t1 = t1
    t2 = t2
    Threads = {t1, t2}
    MaxRequests = 2
    MaxPosts = 1
    MaxTurns = 1
    MaxStops = 2
    MaxMigrations = 2
SYMMETRY MCSymmetry
SPECIFICATION Spec
INVARIANTS TypeOK ReferencesHold MessageWhole ReplyTraceable RunsEnd PlacesDistinct
           MergeLosesNothing SecondRunNoOp
PROPERTIES NoResurrection StartupSeeds
