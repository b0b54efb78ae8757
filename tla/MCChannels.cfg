SPECIFICATION Spec
CONSTANTS
    NumSlots = 2
    Window = 3
    Backlog = 2
    MaxPacket = 1
    WindowLimit = 9
    SetupLen = 2
    SvWindow = 2
    MaxRids = 2
    Loads <- MixedLoads
CHECK_DEADLOCK FALSE
INVARIANTS
    TypeOK
    NeverAccused
    NothingLost
    ReachesItsChannel
