SPECIFICATION DataSpec
CONSTANTS
    PK = "pk"
    SK = "sk"
    Reserved = {"a", "n"}
    UpperCase <- UpperCaseDef
    Secret = {"s"}
    Indexes <- IndexesDef
    Tables <- TablesDef
    Models <- ModelsDef
    Wheres <- WheresDef
    Filters <- FiltersDef
    FilterGroups <- GroupsDef
    Names = {"gsi", "lsi", "nope"}
    MaxCalls = 3
    Rows = {1, 2, 3, 4}
    Starting <- StartingDef
    Matching = {1, 3, 4}
    KeyTag = "B"
    Amount <- AmountDef
    Team <- TeamDef
    Segments = 2
    Limits = {0, 2}
    PageRows = 3
    ReadRetries = 1
    MaxWrites = 2
    StoredRows <- StoredRowsDef
    UpdateCalls <- UpdateCallsDef
    UpdateConds <- UpdateCondsDef
    WriteConds <- WriteCondsDef
    RawConds <- RawCondsDef
    Sealed = {"x"}
    MaxUpdateCalls = 3
    KeyLists <- KeyListsDef
    StoredKeys = {1, 2, 3}
    Unconvertible = {9}
    Odd = {3}
    ChunkSizes = {0, 1}
    ChunkLimit = 2
    GetConcurrency = 2
    GetRetries = 1
    NItems = 3
    Invalids <- InvalidSets
    Encrypted = TRUE
    Sizes = {0, 1}
    BatchLimit = 2
    MaxConcurrency = 2
    MaxAttempts = 2
    UpdateRetries = 1
    GoNil = GoNil
    Absent = Absent
    Fail = Fail
    Cases <- CasesDef
    CamelCase <- CamelCaseDef
    Keys = {"k1", "k2"}
    Second = 10
    Now = 77
    User = {"u1", "u2"}
    Partners = {"p"}
    Configs = {"a"}
    RefreshEvery = 2
    SessionDuration = 6
    MaxBuilds = 3
    SourceRows <- SourceRowsDef
    NewValues = {3}
    Unfit = {3}
    ModelGSIs = {"g1", "g4"}
    TargetGSIs = {{}, {"g1", "g2", "g4"}}
    ScanSize = 2
    MaxBatchSize = 2
    CopyRetries = 2
    MaxRuns = 2
    MaxChanges = 1
INVARIANT ReturnsMatching
INVARIANT EachRowOnce
INVARIANT AggregatesAgree
INVARIANT UpdateMeansItsCalls
INVARIANT UpdatesAreSealed
INVARIANT EachItemInPlace
INVARIANT NothingDropped
INVARIANT CompletionReported
INVARIANT ReadBack
INVARIANT SealedAtRest
INVARIANT RemovedStaysOut
INVARIANT RenewedInTime
INVARIANT MigrationHonest
PROPERTY QuietAfterReturn
PROPERTY ReadEnds
PROPERTY GetReturns
PROPERTY BatchReturns
CHECK_DEADLOCK FALSE
