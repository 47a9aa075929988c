\* Reports of QPs while they are used, and the end of the process.
SPECIFICATION FairSpec
CONSTANTS
    Plans <- MCPlans
    MaxQps = 2
    MaxDumps = 3
    Devices = {0, 1}
    QpNums = {1, 2}
    NoDevice = NoDevice
    WrIds = {1, 2}
    Steps = {1, 5}
    BucketIntervalNs = 3
    MaxBuckets = 2
    CounterMod = 256
CHECK_DEADLOCK FALSE
INVARIANTS
    TypeOK
    LatencyTrue
    SentExcludesCts
    SafeToExit
PROPERTIES
    ExitEnds
