SPECIFICATION AccountSpec
CONSTANTS
    User = {"u1", "u2"}
    Partners = {"acme"}
    Configs = {"c1"}
    RefreshEvery = 1
    SessionDuration = 3
    MaxBuilds = 2
INVARIANT RemovedForGood
CHECK_DEADLOCK FALSE
