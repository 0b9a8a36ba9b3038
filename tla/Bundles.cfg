SPECIFICATION FairSpec
CONSTANTS
    Builder <- MCBuilder
    Collector = {c1, c2}
    Key = {k1}
    Queries <- MCQueries
    Concurrency = 1
    MaxFallbackDepth = 2
    TTL = 0
    Interval = 1
    MaxTime = 1
INVARIANTS EntriesAnswer
PROPERTIES FreshStays
CHECK_DEADLOCK FALSE
