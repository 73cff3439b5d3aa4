SPECIFICATION Spec
CONSTANTS
    w1 = w1
    w2 = w2
    w3 = w3
    Workflows <- MCWorkflows
    Keys <- MCKeys
    Key <- MCKey
    MaxCaptures = 4
INVARIANTS
    EntriesPreserved
CHECK_DEADLOCK FALSE
