SPECIFICATION CallersSpec
CONSTANTS
    p1 = p1
    p2 = p2
    Process = {p1, p2}
    TicksPerSecond = 2
    Durations = {2, 3}
    ValidateInput = TRUE
    IncludeTTL = TRUE
    TTLBuffer = 1
    MaxSkew = 0
    ExtendOnly = FALSE
    LateRefresh = TRUE
    MaxClock = 4
    MaxTokens = 2
    MaxRetries = 1
    MaxLate = 1
    w1 = w1
    w2 = w2
    Writer = {w1, w2}
    Ops = {"create", "createIfNotExists", "createOrUpdate", "update", "builderAdd", "delete"}
    Blind = TRUE
    MaxEdits = 3
    MaxWriteRetries = 0
    MaxLateWrites = 1
SYMMETRY WriterSymmetry
INVARIANT BoundedHold
INVARIANT GrantedLeaseIsHeld
INVARIANT VersionNamesState
INVARIANT SafeToApply
PROPERTY NoStealing
CHECK_DEADLOCK FALSE
