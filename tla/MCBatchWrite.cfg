SPECIFICATION BatchSpec
CONSTANTS
    NItems = 3
    Invalids <- InvalidSets
    Encrypted = TRUE
    Sizes = {0, 1}
    BatchLimit = 2
    MaxConcurrency = 2
    MaxAttempts = 2
    UpdateRetries = 1
INVARIANT EncryptedOnce
CHECK_DEADLOCK FALSE
