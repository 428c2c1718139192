SPECIFICATION Spec
CONSTANTS
    refresh = refresh
    revoke = revoke
    again = again
    logout = logout
    everywhere = everywhere
    Calls = {refresh, revoke, again, logout, everywhere}
    Kind <- MCKind
CHECK_DEADLOCK FALSE
INVARIANTS
    RefreshHonoured
