SPECIFICATION Spec
CONSTANTS
    Conns = {c1, c2}
    None = None
    Listener = 10
    MaxClients = 8
    Slots = 11
    HdrLen = 2
    Payloads = {0}
    BufNormal = 1
    BufMax = 2
    Window = 1
    MaxReqs = 1
    MaxTotal = 1
INVARIANTS SlotInRange
CHECK_DEADLOCK FALSE
