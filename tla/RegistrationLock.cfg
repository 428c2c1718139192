SPECIFICATION FairSpec
CONSTANTS
    Clients = {c1, c2}
    Pins = {p1, p2}
    NoPin = NoPin
    Rows = {r1, r2, r3, r4}
    MaxFailures = 2
    Window = 2
INVARIANTS
    FailuresBounded
PROPERTIES
    RemovalWasEarned
    LockOpens
