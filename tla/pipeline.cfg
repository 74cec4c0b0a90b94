SPECIFICATION Spec
CONSTANTS
    Workers = {w1, w2}
    ChunkSize = 2
    MaxEntry = 9
    Readers <- LongAndShort
    MayFail = TRUE
INVARIANTS NothingLeft ChunksTile
PROPERTY ImplementsSequential
CHECK_DEADLOCK FALSE
