SPECIFICATION Spec
CONSTANTS
    c1 = c1
    c2 = c2
    c3 = c3
    Comms = {c1, c2}
    FlushComms = {c2}
    NDevs = 2
    MaxHandles = 2
    Regions <- Nested
    PageSize = 2
    MinCapacity = 1
    MaxFaults = 1
CHECK_DEADLOCK FALSE
INVARIANTS
    OpenHasDomain
    AllReleased
