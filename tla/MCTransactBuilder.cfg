SPECIFICATION LiveSpec
CONSTANTS
    k1 = k1
    k2 = k2
    b1 = b1
    b2 = b2
    Builders = {b1, b2}
    Keys = {k1, k2}
    Ops <- AllOps
    MaxTransactOperations = 2
    RetryScheduleLen = 1
    MaxResends = 1
    MaxAsks <- Asks
    MaxExecutes <- Executes
CHECK_DEADLOCK FALSE
INVARIANT AtMostOnce
INVARIANT WholeTransaction
INVARIANT HonestResult
INVARIANT NoDoubleCommit
PROPERTY ExecuteReturns
