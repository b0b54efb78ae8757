SPECIFICATION FairSpec
CHECK_DEADLOCK FALSE
CONSTANTS
    Worlds <- MCWorlds
    FirstCap = 2
    MaxPath = 3
    MaxErrors = 2
INVARIANTS
    TypeOK
    ZeroIsACopy
PROPERTIES
    Ends
