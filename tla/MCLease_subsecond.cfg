SPECIFICATION Spec
CONSTANTS
    p1 = p1
    p2 = p2
    Process = {p1, p2}
    TicksPerSecond = 2
    Durations = {1}
    ValidateInput = TRUE
    IncludeTTL = TRUE
    TTLBuffer = 2
    MaxSkew = 0
    ExtendOnly = TRUE
    LateRefresh = FALSE
    MaxClock = 4
    MaxTokens = 2
    MaxRetries = 0
    MaxLate = 0
INVARIANT GrantedLeaseIsHeld
CHECK_DEADLOCK FALSE
