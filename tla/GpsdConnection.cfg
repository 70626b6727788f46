\* GPSD listens on the second of two addresses; io_addclock succeeds.
CONSTANTS
    NAddr <- MC_NAddr
    Good <- MC_Good
    TICKOVER_LOW <- MC_TICKOVER_LOW
    TICKOVER_HIGH <- MC_TICKOVER_HIGH
    MayFailAddClock = FALSE
SPECIFICATION FairSpec
INVARIANT TypeOK
PROPERTY RetrySpacing
PROPERTY LinkRefined
