SPECIFICATION FairSpec
CONSTANTS
    Host = {1, 2, 3, 4, 5, 6}
    Inventories <- MCInventories
    MaxEdits = 2
    MaxFaults = 1
    MaxCleans = 1
INVARIANTS
    TypeOK
    ReadyAfterSuccess
PROPERTIES
    ClientsFirst
    Converges
