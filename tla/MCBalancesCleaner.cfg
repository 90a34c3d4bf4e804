SPECIFICATION Spec
CONSTANTS
    g = g  a1 = a1  a2 = a2  a3 = a3  b2 = b2  b3 = b3  x = x  y = y
    NoBlock = NoBlock
    Blocks <- MCBlocks
    Number <- MCNumber
    Parent <- MCParent
    Batch <- MCBatch
    Executed = 1
    SlowExecution = TRUE
    Accounts = {x, y}
    BalanceOf <- MCBalanceOf
INVARIANTS
    TypeOK
    ExecutedRowsCorrect
    ExecutedContiguous
    BalancesKept
PROPERTIES
    StatesOnlyAdvance
    BatchesMirrorChain
    CatchesUp
