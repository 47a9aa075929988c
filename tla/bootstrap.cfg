\* Three hosts, one crash at most, payloads in two pieces.
SPECIFICATION FairSpec
CONSTANTS
    Hosts = {1, 2, 3}
    IpList <- RotatedLists
    HostName <- DistinctNames
    PayloadLen = 2
    MaxFaults = 1
INVARIANTS
    TypeOK
    SameView
    WholePayloads
    RulesAfterAnswers
PROPERTIES
    BootstrapEnds
CHECK_DEADLOCK FALSE
