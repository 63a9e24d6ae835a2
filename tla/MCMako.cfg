CONSTANTS
    Rounds = 16
    SBOX <- MakoSBOX
    INV_SBOX <- MakoINV_SBOX
    RCON <- MakoRCON
    GF_MUL <- MakoGF_MUL
    INACTIVE = INACTIVE
    ACTIVE = ACTIVE
    UNKNOWN = UNKNOWN
    Trails <- SomeTrails
    Bases <- TwoBases
    Swept <- SweptBytes
    Keys <- SomeKeys
    Blocks <- SomeBlocks
    Changes <- SomeChanges
    IntegralKeys <- OneKey
    MaxReduced = 4
    MaxTotal = 8
    MaxRounds = 4
    Sessions <- OneByOne
SPECIFICATION AnalysisSpec
INVARIANTS TypeOK SchedulesDiffer Retraces BlockComesBack OneByteSpreads
INVARIANTS SplitDecides ForecastsHold StartsAlike WideTrail Balanced
CHECK_DEADLOCK FALSE
