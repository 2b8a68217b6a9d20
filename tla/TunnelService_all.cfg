CONSTANTS
    u1 = u1
    t1 = t1
    UdpPeers <- OneUdp
    TcpPeers <- OneTcp
    MaxChannel = 2
    SecureRequired = TRUE
    MaxSessions = 2
    Usages <- AllUsages
    SeqMod = 4
    Settings <- All
SPECIFICATION FairService
INVARIANTS
    ServiceTypeOK
    FirstHolderSafe
    
    DeliveredOnceInOrder
    BroadcastKeepsStep
    RetryWorks
PROPERTIES
    
    SilentSessionsLeave
    ShutdownEnds
    SendsComplete
CHECK_DEADLOCK FALSE
