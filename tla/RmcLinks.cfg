SPECIFICATION Safe
CONSTANTS
    MAX_RECONN_TIMES = 1
    SyncBufs = 2
    AsyncBufs = 1
    Keys <- PlainKey
    Bonded = {TRUE}
    MayFail = FALSE
    MayDrop = TRUE
    MayLow = FALSE
    Expiring <- FastTimers
    MaxKeys = 1
    MaxLinks = 2
INVARIANTS
    TypeOK
    AdvertisingIsTimed
    LinkAgrees
    ReportsAreEncrypted
CHECK_DEADLOCK FALSE
