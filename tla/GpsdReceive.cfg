\* Every behaviour ends after MaxReads reads.
CONSTANTS
    Size <- MC_Size
    MaxChunk <- MC_MaxChunk
    MaxReads <- MC_MaxReads
SPECIFICATION Spec
INVARIANT TypeOK
INVARIANT LinesAsReference
CHECK_DEADLOCK FALSE
