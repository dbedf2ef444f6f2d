SPECIFICATION Spec
CONSTANTS
    Opening <- Begin
    Blocks <- Plainest
    MaxBlocks = 6
    MAX_REPORTS = 64
    MAX_USAGES_PER_REPORT = 32
    MAX_COLLECTION_DEPTH = 16
    WORD = 65536
INVARIANT BufferTakesReports
CHECK_DEADLOCK FALSE
