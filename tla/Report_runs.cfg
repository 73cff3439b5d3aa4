SPECIFICATION ReportSpec
CONSTANTS
    Disk <- MCDisk
    Link <- MCLink
    KvLines = {1, 2, 12}
    WrapLines = {1, 5}
    MaxServers = 32
    SavedExperiments <- MCExperiments
    Baselines <- MCBaselines
    Phases <- MCPhases
INVARIANTS
    FractionJustified
    ScopedEstimate
    InsideMargins
CHECK_DEADLOCK FALSE
