SPECIFICATION MCSpec
CONSTANTS
    Streams <- Sent
    Sizes = {1, 2, 3, 16}
    Ids = {1, 2, 3, 4, 5, 6, 7}
    Null = Null
    Sessions = {a, b}
    Inodes = {o}
    AliveDelay = 2
    MinuteSlots = 5
    Hour = 2
    Day = 4
    Late = 2
    MaxClock = 7
SYMMETRY Alike
INVARIANTS
    ParserExact SessionsEnd PeersKnow
PROPERTY DeletedForReason
CHECK_DEADLOCK FALSE
