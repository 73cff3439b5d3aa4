SPECIFICATION Spec
CONSTANTS
    Contents = {c1, c2}
    Shared = shared
    MaxEdits = 2
    MaxRuns = 2
INVARIANTS
    TypeOK
    Repaired
    CheckSuffices
CHECK_DEADLOCK FALSE
