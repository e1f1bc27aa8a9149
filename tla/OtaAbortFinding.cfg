SPECIFICATION Safe
CONSTANTS
    Files <- TwoCells
    Table <- MCTable
    Chunk = 1
    Width = 5
    CountWidth = 4
    SyncBufs = 2
    Requests <- Aborting
    Polite = TRUE
    OtherMsgs = FALSE
    MaxLinks = 1
INVARIANT
    RemainingBounded
CHECK_DEADLOCK FALSE
