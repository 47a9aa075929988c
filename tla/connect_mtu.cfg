SPECIFICATION Spec
CONSTANTS
    NDevs = 2
    QpsPerConn = 1
    SendMtu <- SenderMtus
    RecvMtu <- ReceiverMtus
    MetaLen = 1
    SockCap = 2
    MaxFaults = 0
INVARIANTS
    MtuAgreed
