SPECIFICATION Spec
CONSTANTS
    Apply = {a1, a2}
    Vlan = {v1, v2}
    Migration = m
    None = None
    MaxMoves = 2
    MaxRestarts = 1
INVARIANTS
    MigrationStays
    HalvesAgree
PROPERTIES
    CompensatedIsOnItsWayOut
CHECK_DEADLOCK FALSE
