\* STRICT mode: does every paired sample use a pulse of the same second?
CONSTANTS
    PPS_MAXCOUNT <- MC_PPS_MAXCOUNT
    PPS_INCCOUNT <- MC_PPS_INCCOUNT
    PPS_DECCOUNT <- MC_PPS_DECCOUNT
    PPS2_MAXCOUNT <- MC_PPS2_MAXCOUNT
    Quanta <- MC_Quanta
    ProtoMinor = 10
    HasPpsPeer = FALSE
    CfgModes = {1}
SPECIFICATION Spec
INVARIANT PairedPulseSameSecond
