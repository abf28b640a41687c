SPECIFICATION Spec
CONSTANTS
    NULL = NULL
    Request <- MCRequest
    GroupId <- MCRequest
    InstanceId <- MCRequest
    OwnerOf <- TwoOwners
    ProfileOf <- OneProfile
    Owner = {"ann", "bob"}
    Profile = {"web"}
    Vlan <- MCVlan
    VmId <- MCVmId
    Exempt = {}
    Limit = 1
    Job = {j1}
    Client = {1, 2, j1}
    Modes = {"active"}
    Shared = shared
    MaxCrashes = 1
INVARIANTS
    AttachmentIsCurrent
    AttachedVlanIsHeld
    NoForeignNeighbour
    FailureIsAccountedFor
CHECK_DEADLOCK FALSE
