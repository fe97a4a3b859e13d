SPECIFICATION FairSpec
CONSTANTS
    First = 1
    Last = 11
    PageLen = 2
    BuffStart = 8
    QueueMax = 6
    FlowPages = 5
    MaxTries = 2
    Requests <- MCRequests
    MaxCalls = 2
    MaxFaults = 2
INVARIANTS TypeOK Delivered InRegion RoomForAll
PROPERTIES Returns
CHECK_DEADLOCK FALSE
