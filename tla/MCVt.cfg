SPECIFICATION ViewSpec
CONSTANTS
    Plain = {"a", "b"}
    DEC_GFX <- LineDrawing
    Backgrounds = {"white", "red"}
    DefaultBg = "white"
    SbMax = 2
    OutMax = 9
    TabEvery = 2
    Most = 2
    Loads <- AllLoads
CHECK_DEADLOCK FALSE
INVARIANTS
    TypeOK
    ShowsTheTerminal
PROPERTIES
    RedrawMarked
    ScrollbackKept
    OnlyTheRegion
    ReadingStays
