CONSTANTS
    Rounds = 16
    SBOX <- MakoSBOX
    INV_SBOX <- MakoINV_SBOX
    RCON <- MakoRCON
    GF_MUL <- MakoGF_MUL
    INACTIVE = INACTIVE
    ACTIVE = ACTIVE
    UNKNOWN = UNKNOWN
    Trails <- SomeTrails
    Bases <- TwoBases
    Swept <- SweptBytes
    Keys <- WitnessKey
    Blocks <- WitnessBlock
    Changes <- WitnessChange
    IntegralKeys <- NoKeys
    MaxReduced = 4
    MaxTotal = 4
    MaxRounds = 4
    Sessions <- TrailAlone
SPECIFICATION AnalysisSpec
INVARIANT ReportIsUpperBound
CHECK_DEADLOCK FALSE
