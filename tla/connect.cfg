SPECIFICATION FairSpec
CONSTANTS
    NDevs = 2
    QpsPerConn = 2
    SendMtu <- SenderMtus
    RecvMtu <- ReceiverMtus
    MetaLen = 3
    SockCap = 4
    MaxFaults = 2
INVARIANTS
    TypeOK
    PeerReady
    QpsPaired
    Framed
PROPERTIES
    Established
