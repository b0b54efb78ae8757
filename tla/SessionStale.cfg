SPECIFICATION Spec
CONSTANTS
    MaxSlots = 3
    Backlog = 1
    SvWindow = 1
    MaxConns = 2
    MaxX11 = 2
    MaxSftp = 2
    MaxBytes = 3
    Loads <- MixedLoads
CHECK_DEADLOCK FALSE
INVARIANTS
    ClosedBrowsersAsk
