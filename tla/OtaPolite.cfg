SPECIFICATION Spec
CONSTANTS
    Files <- ThreeCells
    Table <- MCTable
    Chunk = 1
    Width = 8
    CountWidth = 4
    SyncBufs = 3
    Requests <- AllButAbort
    Polite = TRUE
    OtherMsgs = FALSE
    MaxLinks = 1
INVARIANTS
    TypeOK
    TransferComplete
    AckWillBeSent
    PutOnTrack
PROPERTIES
    GetEnds
CHECK_DEADLOCK FALSE
