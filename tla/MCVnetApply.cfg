SPECIFICATION Spec
CONSTANTS
    s1 = s1
    s2 = s2
    a1 = a1
    a2 = a2
    Slot = {s1, s2}
    Applier = {a1, a2}
    Inspector = {i1}
    Teardown = {t1}
    GoalOf <- TwoGoals
    LeftBehind <- OneMistagged
    NoOne = NoOne
    RevisionTries = 2
    LockWaits = 1
    MaxEpoch = 2
    MaxCrashes = 1
INVARIANTS
    AttemptsAreTrue
    ReadyVnetStays
PROPERTIES
    FailureLeavesNoTrace
    SuccessMeansConverged
CHECK_DEADLOCK FALSE
