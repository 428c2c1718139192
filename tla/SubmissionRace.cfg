SPECIFICATION SubmissionFairSpec
CONSTANTS
    alice = alice
    bob = bob
    phone = phone
    bobPhone = bobPhone
    bobTablet = bobTablet
    chat = chat
    NoEnvelope = NoEnvelope
    Requests <- MCRequests
    Users <- MCUsers
    Devices = {phone, bobPhone, bobTablet}
    OwnerOf <- MCOwnerOf
    Members <- MCMembers
CHECK_DEADLOCK FALSE
INVARIANTS
    OneEnvelopePerKey
    OkAnswerStands
    FanOutComplete
    RefusedForAReason
PROPERTIES
    ImplementsPromise
    EveryCallAnswered
