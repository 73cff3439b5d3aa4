SPECIFICATION Spec
CONSTANTS
    Exps = {e1, e2}
    Procs = {p1, p2, p3}
    Sizes <- MCSmall
    None = None
INVARIANTS
    TypeOK
    OwnRecord
    NoOrphanBed
CHECK_DEADLOCK FALSE
