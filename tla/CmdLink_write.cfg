SPECIFICATION Spec
CONSTANTS
    Kinds = {"write"}
    Valid = {TRUE}
    HdrLen = 2
    MaxChunk = 2
    EmbMax = 1
    UpCap = 3
    DnCap = 3
    MaxOps = 3
    MaxRows = 3
    MaxCalls = 1
    Closes = {}
INVARIANTS WriteResultTrue
CHECK_DEADLOCK FALSE
