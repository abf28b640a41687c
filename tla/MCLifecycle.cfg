SPECIFICATION FairSpec
CONSTANTS
    NULL = NULL
    Request <- MCOneRequest
    GroupId <- MCOneRequest
    InstanceId <- MCOneRequest
    OwnerOf <- OneOwner
    ProfileOf <- OneProfile
    Owner = {"ann", "bob"}
    Profile = {"web"}
    Vlan <- MCVlan
    VmId <- MCOneVmId
    Exempt = {}
    Limit = 1
    Job = {j1, j2}
    Client = {1, j1, j2}
    Modes = {"active"}
    Shared = shared
    MaxCrashes = 1
PROPERTIES
    RequestAnswers
    AbandonedReservationGoes
    UnfilteredVmIsRepaired
    LedgerSpec
CHECK_DEADLOCK FALSE
