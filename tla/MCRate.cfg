SPECIFICATION FairSpec
CONSTANTS
    mcp = mcp
    download = download
    Key = {k1, k2}
    Route = {mcp, download}
    Limit <- TwoLimits
    Window = 2
    GcAge = 3
    MaxTime = 8
    MaxCall = 4
    MaxAdmitted = 4
    NoRing = NoRing
    NoAnswer = NoAnswer
INVARIANTS TypeOK SmallestLimitHolds RetryIsExact
PROPERTIES ImplementsSlidingLog IdleBucketsDropped
