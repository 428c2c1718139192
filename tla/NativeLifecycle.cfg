SPECIFICATION Spec
CONSTANTS
    FirstHandle = 1000
    MaxHandles = 2
    ExportRoom = 1
    MaxCreations = 3
    MaxSaved = 2
    MaxRuns = 1
CHECK_DEADLOCK FALSE
INVARIANTS
    HandlesKeepMeaning
    RevivedOnlyFromSaved
PROPERTIES
    UnexportableForGood
