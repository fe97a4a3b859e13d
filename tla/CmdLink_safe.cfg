SPECIFICATION FairSpec
CONSTANTS
    Kinds = {"write", "read", "read_roi", "rmw", "pers_write"}
    Valid = {TRUE}
    HdrLen = 2
    MaxChunk = 2
    EmbMax = 1
    UpCap = 3
    DnCap = 3
    MaxOps = 5
    MaxRows = 3
    MaxCalls = 2
    Closes = {"eof", "reset"}
INVARIANTS TypeOK NoDeadlock CleanReturn ResultTrue LinkInv
PROPERTIES InStepProp ImplementsAccess CallReturns
CHECK_DEADLOCK FALSE
