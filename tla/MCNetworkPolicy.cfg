SPECIFICATION MCSpec
CONSTANTS
    Group <- MCGroup
    Vlan <- MCVlan
    Profile = {"web"}
    ProfileOf <- MCProfileOf
    Domain = {good, bad}
    Unrenderable = {bad}
    Worker <- MCWorker
    Timer = timer
    Route = route
    None = None
    MaxEvents = 2
INVARIANTS
    AcceptedIsServed
    OnlyPeersReach
PROPERTY PolicyConverges
CHECK_DEADLOCK FALSE
