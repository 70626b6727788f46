\* AUTO mode: is every serial-only sample taken from a single TOFF record?
CONSTANTS
    PPS_MAXCOUNT <- MC_PPS_MAXCOUNT
    PPS_INCCOUNT <- MC_PPS_INCCOUNT
    PPS_DECCOUNT <- MC_PPS_DECCOUNT
    PPS2_MAXCOUNT <- MC_PPS2_MAXCOUNT
    Quanta <- MC_Quanta
    ProtoMinor = 10
    HasPpsPeer = FALSE
    CfgModes = {2}
SPECIFICATION Spec
INVARIANT SerialSampleConsistent
