SPECIFICATION Spec
CONSTANTS
    c1 = c1
    c2 = c2
    c3 = c3
    r1 = r1
    r2 = r2
    phone = phone
    Challenges = {c1}
    Phones = {phone}
    PhoneOf <- MCPhoneOf
    Requesters = {r1}
    RequesterOf <- MCRequesterOf
    Verifiers = {v1, v2, v3}
    NoChallenge = NoChallenge
    MaxAttempts = 3
    Window = 5
    MaxTime = 7
CHECK_DEADLOCK FALSE
INVARIANTS
    GuessesBounded
PROPERTIES
    ClosedStaysClosed
