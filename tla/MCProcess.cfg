SPECIFICATION ProcessSpec
CONSTANTS
    MaxTokens = 2
    RefillRate = 3
    MaxClock = 10
    Caller = {"c1", "c2", "c3"}
    Pressures = {TRUE, FALSE}
    MaxStarts = 2
    Worker = {"w1", "w2", "w3"}
    MaxConcurrent <- Limits
    MaxBodies = 2
INVARIANT WindowBound
INVARIANT OneMonitor
INVARIANT RunningIsLive
INVARIANT ReportedWithinLimit
INVARIANT HighWaterCovers
PROPERTY NotStarved
PROPERTY CalmRestart
PROPERTY RequestsEnd
CHECK_DEADLOCK FALSE
