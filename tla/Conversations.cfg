SPECIFICATION FairSpec
CONSTANTS
    alice = alice
    bob = bob
    carol = carol
    nobody = nobody
    Users <- MCUsers
    Seeded <- MCSeeded
    Creations <- MCCreations
    PoolSize = 2
    Acks <- MCAcks
    Envelopes = {"e1", "e2"}
    Unread = Unread
CHECK_DEADLOCK FALSE
INVARIANTS
    TypeOK
    LatestReadStands
PROPERTIES
    EveryCallAnswered
