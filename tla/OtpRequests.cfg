SPECIFICATION Spec
CONSTANTS
    c1 = c1
    c2 = c2
    c3 = c3
    r1 = r1
    r2 = r2
    phone = phone
    Challenges = {c1, c2, c3}
    Phones = {phone}
    PhoneOf <- MCPhoneOf
    Requesters = {r1, r2}
    RequesterOf <- MCRequesterOf
    Verifiers = {}
    NoChallenge = NoChallenge
    MaxAttempts = 2
    Window = 6
    MaxTime = 7
CHECK_DEADLOCK FALSE
INVARIANTS
    BurstsBounded
    RefusedWhileCodeLives
