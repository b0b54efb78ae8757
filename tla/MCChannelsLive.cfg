SPECIFICATION FairSpec
CONSTANTS
    NumSlots = 1
    Window = 2
    Backlog = 2
    MaxPacket = 2
    WindowLimit = 9
    SetupLen = 2
    SvWindow = 1
    MaxRids = 1
    Loads <- LiveLoads
CHECK_DEADLOCK FALSE
PROPERTIES
    ClosesFinish
