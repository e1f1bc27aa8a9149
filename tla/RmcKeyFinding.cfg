SPECIFICATION Safe
CONSTANTS
    MAX_RECONN_TIMES = 1
    SyncBufs = 2
    AsyncBufs = 1
    Keys <- PlainKey
    Bonded = {TRUE}
    MayFail = FALSE
    MayDrop = FALSE
    MayLow = FALSE
    Expiring <- DirectTimer
    MaxKeys = 2
    MaxLinks = 2
INVARIANTS
    NoPhantomKey
CHECK_DEADLOCK FALSE
