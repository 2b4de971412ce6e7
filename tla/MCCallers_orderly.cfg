SPECIFICATION CallersSpec
CONSTANTS
    p1 = p1
    p2 = p2
    Process = {p1, p2}
    TicksPerSecond = 2
    Durations = {3}
    ValidateInput = TRUE
    IncludeTTL = TRUE
    TTLBuffer = 2
    MaxSkew = 1
    ExtendOnly = TRUE
    LateRefresh = FALSE
    MaxClock = 5
    MaxTokens = 2
    MaxRetries = 1
    MaxLate = 1
    w1 = w1
    w2 = w2
    Writer = {w1, w2}
    Ops = {"createIfNotExists", "update", "builderAdd"}
    Blind = FALSE
    MaxEdits = 4
    MaxWriteRetries = 1
    MaxLateWrites = 1
SYMMETRY WriterSymmetry
INVARIANT Exclusion
INVARIANT AckedEditsPersist
INVARIANT OneWinnerPerVersion
PROPERTY ImplementsMutex
PROPERTY NoLostUpdate
CHECK_DEADLOCK FALSE
