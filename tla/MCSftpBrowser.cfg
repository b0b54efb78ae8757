SPECIFICATION FairSpec
CHECK_DEADLOCK FALSE
CONSTANTS
    Worlds <- MCWorlds
    Home <- MCHome
    NewNames <- MCNewNames
    MaxErrors = 1
INVARIANTS
    NothingForgotten
    ShowsTheServer
    CancelHolds
    FoldersWhole
PROPERTIES
    ComesToRest
