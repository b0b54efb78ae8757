SPECIFICATION Spec
CONSTANTS
    MaxParams = 3
    ParamCap = 20
    TitleRoom = 6
    TitleMax = 3
    Noise <- NoiseBytes
    MaxNoise = 1
    Sequences <- GrammarSequences
    MaxSequences = 2
CHECK_DEADLOCK FALSE
INVARIANTS
    TypeOK
    Understood
