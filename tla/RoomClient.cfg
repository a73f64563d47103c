\* Two rooms; boot's room and one switch, to the other or the same; two retries; a
\* connection that breaks once, and once more when the server tears it down; two writes
\* (so that an echo can be quoted), two refreshes in flight.
CONSTANTS
    Rooms = {A, B}
    First = A
    None = None
    MaxRetries = 2
    MaxSwitches = 2
    MaxWrites = 2
    MaxDrops = 1
    MaxFlights = 2
SPECIFICATION Spec
INVARIANTS TypeOK OneSocket NoGhosts
PROPERTIES Recovers
