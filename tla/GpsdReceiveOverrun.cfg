CONSTANTS
    Size <- MC_Size
    MaxChunk <- MC_MaxChunk
    MaxReads <- MC_MaxReads
SPECIFICATION Spec
INVARIANT NoBufferOverrun
CHECK_DEADLOCK FALSE
