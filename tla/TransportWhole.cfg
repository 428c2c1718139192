SPECIFICATION Spec
CONSTANTS
    alice = alice
    bob = bob
    phone = phone
    bobPhone = bobPhone
    bobTablet = bobTablet
    chat = chat
    other = other
    NoEnvelope = NoEnvelope
    Requests <- MCRequests
    Users <- MCUsers
    Devices = {phone, bobPhone, bobTablet}
    OwnerOf <- MCOwnerOf
    Members <- MCMembers
    Workers = {w1}
    MaxAttempts = 1
    BatchLimit = 2
    MaxTime = 1
    MaxAcks = 1
CHECK_DEADLOCK FALSE
SYMMETRY Symmetry
INVARIANTS
    NoMessageLost
    OnlyRecipientsReached
    StoredArePermitted
PROPERTIES
    ImplementsMailbox
