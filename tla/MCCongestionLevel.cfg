SPECIFICATION Spec
CONSTANTS
    t1 = t1
    t2 = t2
    Threads = {t1, t2}
    Payloads <- MCPayloads
    Locations <- MCLocations
    Capacity <- MCCapacity
    StatusQueries <- MCStatusQueries
    RecentQueries <- MCRecentQueries
    AnyValue = AnyValue
    NoResult = NoResult
    MaxResults = 2
    MaxClock = 3
    MaxPosts = 3
SYMMETRY Symmetry
INVARIANT LevelAsDocumented
