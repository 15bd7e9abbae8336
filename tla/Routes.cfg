SPECIFICATION RoutesSpec
CONSTANTS
    Path <- MCPath
    Text <- MCText
    NoPath = NoPath
    Hash <- MCHash
    Sizes <- MCSizes
    MaxUses = 7
    Listened <- MCListened
    Later <- MCLater
    Requests <- MCRequests
    Methods = {"GET", "PATCH"}
    UriMax = 30
    HashMod = 65536
INVARIANTS
    MapTypeOK
    OneCopy
    GetFindsLatest
    ProbingEnds
    DestroyFreesAll
PROPERTIES
    ImplementsTable
    Dispatched
