SPECIFICATION Spec
CONSTANTS
    Opening <- Begin
    Blocks <- Usual
    MaxBlocks = 5
    MAX_REPORTS = 3
    MAX_USAGES_PER_REPORT = 2
    MAX_COLLECTION_DEPTH = 2
    WORD = 20
INVARIANT TypeOK
CHECK_DEADLOCK FALSE
