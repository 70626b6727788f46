CONSTANTS
    DEBUG_MAX <- MC_DEBUG_MAX
    Argvs <- MC_Argvs
    NTP_MAXKEY = 65535
    MayFail = TRUE
SPECIFICATION FairSpec
INVARIANTS
    TypeOK
    NoLostSignal
PROPERTIES
    SignalsServed
    
    ParentReturns
