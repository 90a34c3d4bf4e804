CONSTANTS
    MaxBlock = 5
    BatchSize = 4
    ChunkSize = 2
    PoolSize = 2
    NoToken = NoToken
    t1 = t1
    TokenChoices <- MCTokenChoices
    EarlyFaults = FALSE
    MaxFaults = 3
SPECIFICATION Spec
INVARIANTS TypeOK WholeBlocks PoolKept NobodyStuck
PROPERTIES StoredByChunks CatchesUp
CHECK_DEADLOCK FALSE
