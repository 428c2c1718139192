SPECIFICATION Spec
CONSTANTS
    Runners = {r1, r2, r3}
    Count = 2
    Production = FALSE
    MaxResets = 2
SYMMETRY Symmetry
INVARIANTS
    LedgerIsTrue
    RerunsSucceed
    ConflictsLeaveAWinner
