SPECIFICATION FairSpec
CONSTANTS
    Conns = {c1, c2}
    None = None
    Listener = 4
    MaxClients = 2
    Slots = 7
    HdrLen = 2
    Payloads = {0, 2}
    BufNormal = 1
    BufMax = 2
    Window = 1
    MaxReqs = 2
    MaxTotal = 2
PROPERTIES AllAnswered
CHECK_DEADLOCK FALSE
