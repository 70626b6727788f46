CONSTANTS
    JINT_BITS = 8
    TextChars <- MC_TextChars
    MaxText = 4
    Keys <- MC_Keys
    Prims <- MC_Prims
    MaxTok = 6
    NSEC_DIGITS = 2
    MAX_PDU_LEN = 16
    LogBytes <- MC_LogBytes
    MaxRaw = 5
    MaxFmt = 130
    EptExps <- MC_EptExps
SPECIFICATION Spec
INVARIANTS
    TypeOK
    JintAsReference
    FloatAsReference
    LookupAsReference
    BinaryTimeErrors
    FracAsReference
    LogDataSafe
    AsprintfComplete
    EptPrecisionAsReference
