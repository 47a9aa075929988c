\* Nothing fails: the rules the hosts install.
SPECIFICATION Spec
CONSTANTS
    Hosts = {1, 2, 3}
    IpList <- RotatedLists
    HostName <- DistinctNames
    PayloadLen = 2
    MaxFaults = 0
INVARIANTS
    SkipsLocalHost
CHECK_DEADLOCK FALSE
