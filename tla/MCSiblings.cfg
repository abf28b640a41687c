SPECIFICATION Spec
CONSTANTS
    NULL = NULL
    Request <- MCRequest
    GroupId <- MCRequest
    InstanceId <- MCRequest
    OwnerOf <- OneOwner
    ProfileOf <- OneProfile
    Owner = {"ann", "bob"}
    Profile = {"web"}
    Vlan <- MCVlan
    VmId <- MCOneVmId
    Exempt = {}
    Limit = 1
    Job = {j1}
    Client = {1, 2, j1}
    Modes = {"legacy", "active"}
    Shared = shared
    MaxCrashes = 0
INVARIANTS
    QuotaHolds
CHECK_DEADLOCK FALSE
