SPECIFICATION FairSpec
CONSTANTS
    a = a
    b = b
    j1 = j1
    j2 = j2
    j3 = j3
    VMNames <- MCVMNames
    VMLists <- MCVMLists
    Jobs = {j1, j2, j3}
    MaxFaults = 2
    MaxCleans = 1
INVARIANTS
    MvpTypeOK
    Tracked
    CreatedRuns
PROPERTIES
    Converges
