SPECIFICATION Spec
CONSTANTS
    Nodes = {"ds0", "ds1", "mds0", "cli0", "cli1"}
    Experiments = {"e1", "e2"}
    Inventories = {"whole", "part"}
    Ds <- DsNodes
    Mds <- MdsNodes
    Clients <- ClientNodes
    Claimable = {"mds0"}
    MaxRuns = 2
INVARIANTS
    TypeOK
    AllRawBeforeWrites
    MeasuredAlone
    ReportsLast
PROPERTY
    SamplesKept
