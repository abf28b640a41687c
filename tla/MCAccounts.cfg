SPECIFICATION MCSpec
CONSTANTS
    User = {student}
    Instance = {i1, i2}
    Stubborn = {i2}
    Default = 1
    Cap = 2
    Nobody = nobody
    MaxEvents = 1
INVARIANTS
    
    UndisturbedDeletionSucceeds
PROPERTIES
    NoVmIsHeldForever
    RetiredAccountGoes
CHECK_DEADLOCK FALSE
