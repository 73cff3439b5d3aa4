SPECIFICATION Spec
CONSTANTS
    Configs = {c1, c2}
    Last <- MCLast
    SourcePhases <- MCSourcePhases
    CleanPhases <- MCCleanPhases
    MaxClock = 6
INVARIANTS
    TypeOK
    BuiltInOrder
    SoundStatus
PROPERTIES
    ChainRefined
CHECK_DEADLOCK FALSE
