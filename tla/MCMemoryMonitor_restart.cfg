SPECIFICATION MonitorSpec
CONSTANTS
    c1 = c1
    c2 = c2
    Caller = {c1, c2}
    Pressures = {TRUE}
    MaxStarts = 2
PROPERTY StartReturns
CHECK_DEADLOCK FALSE
