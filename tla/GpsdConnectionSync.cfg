CONSTANTS
    NAddr <- MC_NAddr
    Good <- MC_Good
    TICKOVER_LOW <- MC_TICKOVER_LOW
    TICKOVER_HIGH <- MC_TICKOVER_HIGH
    MayFailAddClock = FALSE
SPECIFICATION Spec
PROPERTY FullTimeoutBeforeClose
