SPECIFICATION Spec
CONSTANTS
    s1 = s1
    s2 = s2
    Servers <- MCServers
    Memory <- MCMemory
    Sizes = {5, 10, 20}
    Topologies = {"t1", "t2"}
    Capacities = {4, 8}
    None = None
    MaxEdits = 2
    MaxFaults = 2
    MaxCleans = 1
INVARIANTS
    TypeOK
    MappedBeforeBound
    ReadyAfterSuccess
    ConfigInForce
    CleanRecovers
