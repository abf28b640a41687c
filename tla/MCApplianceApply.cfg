SPECIFICATION FairSpec
CONSTANTS
    NULL = NULL
    Apply = {k1, k2}
    Revision = {"base", "revoked", "released"}
    Base = "base"
    Absent = absent
    Lab = {"lab"}
    Domain = {"site"}
    Serves <- MCServes
    Web <- MCWeb
INVARIANTS
    UnprovenIsGuarded
    AllowlistIsInForce
PROPERTIES
    RollbackRestores
    UnprovenGoes
CHECK_DEADLOCK FALSE
