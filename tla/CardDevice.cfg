SPECIFICATION FairSpec
CONSTANTS
    Tasks = {t1, t2, t3}
    None = None
    MaxOpens = 4
INVARIANTS TypeOK UseCounted SemaphoreKept DmaAlone Configured
PROPERTIES CommandsEnd
CHECK_DEADLOCK FALSE
