SPECIFICATION AudioSpec
CONSTANTS
    Bufs = {b1, b2, b3}
    NoBuf = NoBuf
    AsyncBufs = 3
    DropCount = 1
    MaxRecords = 3
INVARIANTS
    OneOwner
    VoiceEnds
CHECK_DEADLOCK FALSE
