SPECIFICATION ClientsSpec
CONSTANTS
    first = first
    second = second
    nobody = nobody
    Window = {first, second}
    Newer = {second}
    Nobody = nobody
    EventKeep = 3
    PollLimit = 2
    MaxEvents = 5
    MaxClients = 3
    ListingOp = {"settings-write"}
    WatchOp = {"watch-toggle"}
    EventOp = {"events-clear"}
    MaxVersions = 2
    MaxAsks = 2
    Item = {1, 2, 3, 4, 5}
    Facts <- MCFacts
    PageSize = 2
    MaxRequests = 3
    MaxChanges = 1
INVARIANTS
    ServerEndsBeforeLock
    ClientsAreClosed
    OwnEditShown
    FacetPredictsPage
PROPERTIES
    SignalShows
    EventsAreNotified
CHECK_DEADLOCK FALSE
