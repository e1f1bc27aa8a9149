SPECIFICATION MCSpec
CONSTANTS
    Hosts = {p, q}
    None = None
    Handles = {h1, h2}
    HidHandles = {h1, h2}
    CONFIG_CCC_STORE_MAX = 2
    PoolHosts = {a, b, c}
    ANY = ANY
    key_pool_count = 2
    DB_MAX_RECORDS = 2
    MaxRecord = 3
    Requests <- MCRequests
    Gls = FALSE
    AncsMessages <- MCMessages
    FragmentSizes = {6, 7, 8, 9, 20}
    ACT_DATA_MTU = 3
    DATA_QUEUED = 3
    MAX_CMD_QUEUED = 2
    NAME_MAX = 2
    Nothing = Nothing
    MaxBytes = 4
    MaxConnections = 2
    LearnKeys = {k1, k2}
    NoLearnKey = NoLearnKey
    Waves <- MCWaves
    WordBits = 32
    MaxWaves = 3
INVARIANTS
    
    ReconnectsToBond  ReportsAskedFor
    OwnKeys
    ResponseEndsProcedure NotForgotten
    DecodedAsSent
    BuffersConserved  NameAsTyped PartialIsTimed
    SentAsLearned
PROPERTIES
     ReportComplete
CHECK_DEADLOCK FALSE
