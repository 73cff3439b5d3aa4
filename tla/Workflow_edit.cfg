SPECIFICATION Spec
CONSTANTS
    Configs = {c1}
    Last <- MCLast
    SourcePhases <- MCSourcePhases
    CleanPhases <- MCCleanPhases
    MaxClock = 6
INVARIANT EditsRebuild
CHECK_DEADLOCK FALSE
