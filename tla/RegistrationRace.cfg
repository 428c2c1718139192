SPECIFICATION FairSpec
CONSTANTS
    first = first
    retry = retry
    again = again
    rival = rival
    Calls = {first, retry, again, rival}
    Challenges <- MCChallenges
    ChallengeOf <- MCChallengeOf
    Phones <- MCPhones
    PhoneOf <- MCPhoneOf
    Names <- MCNames
    NameOf <- MCNameOf
    PoolSize = 2
CHECK_DEADLOCK FALSE
INVARIANTS
    AccountsUnique
    AnswersStand
    RefusedForAReason
PROPERTIES
    EveryCallAnswered
