\* Primary unit evaluation in all modes with a secondary PPS unit attached,
\* GPSD speaking protocol 3.10.
CONSTANTS
    PPS_MAXCOUNT <- MC_PPS_MAXCOUNT
    PPS_INCCOUNT <- MC_PPS_INCCOUNT
    PPS_DECCOUNT <- MC_PPS_DECCOUNT
    PPS2_MAXCOUNT <- MC_PPS2_MAXCOUNT
    Quanta <- MC_Quanta
    ProtoMinor = 10
    HasPpsPeer = TRUE
    CfgModes = {0, 1, 2, 3}
SPECIFICATION Spec
INVARIANT TypeOK
INVARIANT NoStaleDataAfterNoFix
INVARIANT SecondaryPpsFresh
