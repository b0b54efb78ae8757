SPECIFICATION FairSpec
CONSTANTS
    Chunk = 2
    XferWindow = 2
    Size = 5
    Hints = {0, 4, 5, 6}
    MaxErrors = 1
    Malformed = TRUE
CHECK_DEADLOCK FALSE
INVARIANTS
    TransferRight
    FinishedIsOver
PROPERTIES
    Finishes
