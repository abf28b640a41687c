SPECIFICATION FairSpec
CONSTANTS
    NULL = NULL
    Absent = absent
    v1 = v1
    v2 = v2
    Vlan = {v1, v2}
    WantedSets <- EitherOne
    Bridge = {b1, b2}
    MaxFaults = 2
    MaxChanges = 1
INVARIANTS
    BootsAsItRuns
PROPERTIES
    UndoneIsUndone
    ProofIsCurrent
    GuestConverges
CHECK_DEADLOCK FALSE
