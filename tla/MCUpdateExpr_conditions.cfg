SPECIFICATION UpdateSpec
CONSTANTS
    Reserved = {}
    UpperCase <- UpperCaseDef
    StoredRows <- StoredRowsDef
    UpdateCalls <- UpdateCallsDef
    UpdateConds <- CondsDef
    WriteConds <- WriteCondsDef
    RawConds = {}
    Sealed = {"x"}
    MaxUpdateCalls = 3
INVARIANT ConditionsHonoured
CHECK_DEADLOCK FALSE
