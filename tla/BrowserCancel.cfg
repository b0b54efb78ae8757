SPECIFICATION Spec
CHECK_DEADLOCK FALSE
CONSTANTS
    Worlds <- MCWorlds
    Home <- MCHome
    NewNames <- MCNewNames
    MaxErrors = 1
INVARIANT
    CancelSparesFolders
