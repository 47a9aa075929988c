SPECIFICATION Spec
CONSTANTS
    c1 = c1
    c2 = c2
    c3 = c3
    Comms = {c1}
    FlushComms = {}
    NDevs = 1
    MaxHandles = 4
    Regions <- Apart
    PageSize = 2
    MinCapacity = 1
    MaxFaults = 0
PROPERTIES
    RegistersOnlyUncached
