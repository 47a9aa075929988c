\* Two threads discover the devices and set up communicators on one NIC.
SPECIFICATION Spec
CONSTANTS
    t1 = t1
    t2 = t2
    NoThread = NoThread
    Threads = {t1, t2}
    Hosts <- MCHosts
    Conns <- MCConns
    Channels = {0, 1}
    MaxIbDevs = 3
    MaxDevsPerNic = 2
    MergeVfs = TRUE
    MergeNics = TRUE
    ArParam <- ArNotSet
    MaxPorts = 4
    MaxFaults = 1
    QpsPerConn = 1
    FlushEnabled = TRUE
CHECK_DEADLOCK FALSE
INVARIANTS
    TypeOK
    MergedSound
    CallersSeeAll
    EntriesValid
    QpOnChannelPipeline
    GidFirstUsable
