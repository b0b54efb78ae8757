SPECIFICATION FairSpec
CHECK_DEADLOCK FALSE
CONSTANTS
    Procs <- MCProcs
    Worlds <- MCWorlds
    Name <- MCName
    KeyType <- MCKeyType
    MaxStarts = 3
    MaxConnects = 2
    MaxRounds = 2
    MaxFaults = 1
PROPERTIES
    KbdintGoesOn
