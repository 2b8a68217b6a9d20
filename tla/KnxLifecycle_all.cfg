CONSTANTS
    Uses <- EveryUse
    Channels = {1, 2}
    MaxConnections = 4
SPECIFICATION FairSpec
INVARIANTS
    StateTellsTruth
    StaysDown
    OneReconnector
PROPERTIES
    
    LossIsRepaired
CHECK_DEADLOCK FALSE
