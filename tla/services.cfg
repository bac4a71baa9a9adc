SPECIFICATION FairSpec
CONSTANTS
    Symbols = {a, b}
    BookTtl = 2
    MaxUpdates = 2
    MaxFeedClock = 3
    Arbiters = {x, y}
    PriorTtl = 2
    MaxRows = 2
    MaxFetch = 1
    MaxCacheClock = 4
    Desks <- TwoDesks
    MaxRaises = 1
    Threshold = 2
    Period = 1
    ResetTtl = 6
    MaxPass = 1
    MaxBeats = 2
    MaxHealthClock = 8
    Consumers = {u, v}
    MaxSignals = 3
    ReadCount = 2
    StreamMaxLen = 1
    MaxFailures = 2
    None = None
INVARIANTS
    TypeOK
    PriorIsFresh
PROPERTIES
    NothingWaitsForever
    CacheFollowsFeed
    AlertsTimely
    HandledOnceOrStuck
CHECK_DEADLOCK FALSE
