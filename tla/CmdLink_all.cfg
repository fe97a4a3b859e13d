SPECIFICATION Spec
CONSTANTS
    Kinds = {"write", "read", "read_roi", "read_intl", "memzero", "rmw", "pers_read", "pers_write"}
    Valid = {TRUE, FALSE}
    HdrLen = 2
    MaxChunk = 2
    EmbMax = 1
    UpCap = 3
    DnCap = 3
    MaxOps = 4
    MaxRows = 4
    MaxCalls = 2
    Closes = {}
INVARIANTS CleanUnlessRefused FlowsUnlessRefused
CHECK_DEADLOCK FALSE
