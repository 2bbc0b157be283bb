SPECIFICATION Spec
CONSTANTS
    h1 = h1
    h2 = h2
    PoolThreads <- MCPoolThreads
    Seeks <- MCSeeks
    BufSize = 2
    NBufs = 2
    Prealloc = 3
    MaxPos = 3
    MaxChunks = 3
    MaxLen = 2
    MayFail = TRUE
INVARIANTS CompletedFileIsWhole PendingBufferIsStable
PROPERTIES WriterGoesOn
