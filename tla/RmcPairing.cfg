SPECIFICATION Spec
CONSTANTS
    MAX_RECONN_TIMES = 2
    SyncBufs = 2
    AsyncBufs = 1
    Keys <- PairKey
    Bonded = {TRUE}
    MayFail = FALSE
    MayDrop = FALSE
    MayLow = FALSE
    Expiring <- PairTimers
    MaxKeys = 2
    MaxLinks = 1
INVARIANTS
    PairingIsTimed
PROPERTIES
    AdvertisingEnds
CHECK_DEADLOCK FALSE
