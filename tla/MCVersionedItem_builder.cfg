SPECIFICATION ItemSpec
CONSTANTS
    w1 = w1
    w2 = w2
    Writer = {w1, w2}
    Ops = {"createIfNotExists", "builder"}
    Blind = FALSE
    MaxEdits = 3
    MaxWriteRetries = 0
    MaxLateWrites = 0
SYMMETRY WriterSymmetry
PROPERTY NoLostUpdate
CHECK_DEADLOCK FALSE
