SPECIFICATION LedgerSpec
CONSTANTS
    NULL = NULL
    GroupId = {g1, g2, g3}
    InstanceId = {i1}
    Owner = {ann, root}
    Profile = {net, web}
    Vlan <- MCVlan
    VmId = {v1}
    Client = {c1, c2}
    Exempt = {root}
    Limit = 1
SYMMETRY IdSymmetry
INVARIANTS
    VlanExclusive
PROPERTY LeaseSpec
