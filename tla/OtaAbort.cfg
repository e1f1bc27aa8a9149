SPECIFICATION Safe
CONSTANTS
    Files <- OneCell
    Table <- MCTable
    Chunk = 1
    Width = 4
    CountWidth = 4
    SyncBufs = 2
    Requests <- Aborting
    Polite = FALSE
    OtherMsgs = TRUE
    MaxLinks = 1
INVARIANTS
    ResponseWillBeSent
CHECK_DEADLOCK FALSE
