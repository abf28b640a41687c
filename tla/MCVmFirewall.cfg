SPECIFICATION MCSpec
CONSTANTS
    Peer = {peer}
    Create = create
    Timer = timer
    Route = route
    MaxEvents = 1
    MaxRequests = 1
INVARIANTS
    AcceptedIsFiltered
    OnlyGrantedSources
PROPERTY FirewallConverges
CHECK_DEADLOCK FALSE
