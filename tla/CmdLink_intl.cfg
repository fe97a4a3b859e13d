SPECIFICATION Spec
CONSTANTS
    Kinds = {"read_intl"}
    Valid = {TRUE}
    HdrLen = 2
    MaxChunk = 2
    EmbMax = 1
    UpCap = 3
    DnCap = 3
    MaxOps = 3
    MaxRows = 3
    MaxCalls = 1
    Closes = {}
INVARIANTS CleanReturn
CHECK_DEADLOCK FALSE
