SPECIFICATION DeliverySpec
CONSTANTS
    Requests <- MCRequests
    NoEnvelope = NoEnvelope
    Devices = {d1}
    Workers = {w1, w2}
    MaxAttempts = 2
    BatchLimit = 2
    MaxTime = 2
    MaxAcks = 2
CHECK_DEADLOCK FALSE
INVARIANTS
    AttemptsBounded
    StatusJustified
PROPERTIES
    SettledStayOutOfReach
    ReturnsCostAnAttempt
