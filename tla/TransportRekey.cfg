SPECIFICATION FairSpec
CONSTANTS
    MaxKex = 2
    MaxUp = 3
    MaxSvUp = 1
    MaxMisc = 1
CHECK_DEADLOCK FALSE
INVARIANTS
    AuthWaits
