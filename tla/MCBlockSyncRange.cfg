SPECIFICATION Spec
CONSTANTS
    g = g  a1 = a1  a2 = a2  a3 = a3  a4 = a4  b2 = b2  b3 = b3  c1 = c1
    NoBlock = NoBlock
    Pending = Pending
    Blocks <- MCBlocks
    Number <- MCNumber
    Parent <- MCParent
    Batch <- MCBatch
    FromBlock = 2
    ToBlock = 0
    BatchSize = 3
    ChunkSize = 2
    DisableBlocksRevert = FALSE
    SlowExecution = TRUE
INVARIANT SearchStartsAtRow
