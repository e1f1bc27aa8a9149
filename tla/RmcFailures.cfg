SPECIFICATION Safe
CONSTANTS
    MAX_RECONN_TIMES = 1
    SyncBufs = 1
    AsyncBufs = 1
    Keys <- CombKeys
    Bonded = {TRUE, FALSE}
    MayFail = TRUE
    MayDrop = TRUE
    MayLow = TRUE
    Expiring <- SlowTimers
    MaxKeys = 2
    MaxLinks = 1
INVARIANTS
    LinkAgrees
CHECK_DEADLOCK FALSE
