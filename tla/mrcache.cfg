SPECIFICATION Spec
CONSTANTS
    c1 = c1
    c2 = c2
    c3 = c3
    Comms = {c1, c2}
    FlushComms = {}
    NDevs = 1
    MaxHandles = 2
    Regions <- Buffers
    PageSize = 2
    MinCapacity = 1
    MaxFaults = 0
SYMMETRY Symmetry
INVARIANTS
    TypeOK
    HandlesLive
    RefsExact
    SameDomain
    SlotsFit
