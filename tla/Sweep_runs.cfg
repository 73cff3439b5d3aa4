SPECIFICATION Spec
CONSTANTS
    Listed <- MCListed
    Searched <- MCSearched
    ByHand <- MCByHand
    Domain <- MCDomain
    Mds = {m1, m2}
    UserFile <- MCUserFile
    MaxStarts = 3
INVARIANTS
    TypeOK
    OwnDeployment
    SweepComplete
    Recoverable
CHECK_DEADLOCK FALSE
