SPECIFICATION Spec
CONSTANTS
    Streams = {0, 1, 2, 7}
    Tx = {0}
    RingSize = 2
    MaxRuns = 2
    Scope = {1, 2}
    Playback = {0}
    HistRead = 7
    Need <- MCNeed
    PlayNeeds = {2, 3}
    HistNeeds = {2}
    MaxUnseen = 1
INVARIANTS TypeOK RunArmed FreshScope FreshHist InRing
PROPERTIES RingStableProp
CHECK_DEADLOCK FALSE
