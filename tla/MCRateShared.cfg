SPECIFICATION Spec
CONSTANTS
    mcp = mcp
    download = download
    Key = {k1}
    Route = {mcp, download}
    Limit <- TwoLimits
    Window = 2
    GcAge = 3
    MaxTime = 6
    MaxCall = 6
    MaxAdmitted = 6
    NoRing = NoRing
    NoAnswer = NoAnswer
INVARIANTS EachLimitHolds
