SPECIFICATION FairSpec
CONSTANTS
    NumVMs = 3
    NumHosts = 2
    MaxFaults = 3
    MaxCleans = 1
INVARIANTS
    TypeOK
    CreatedImages
    EachOnce
PROPERTIES
    ImagesKept
    Converges
