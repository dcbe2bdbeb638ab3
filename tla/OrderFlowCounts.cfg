SPECIFICATION Spec
CONSTANTS
    MaxTape = 7
    Quotes = {1,5,6}
    DayLen = 4
    Idle = 1
    MaxBuffered = 2
    MaxPerDay = 1
    Ttl = 0
    FeedLags = FALSE
    None = None
CHECK_DEADLOCK FALSE
INVARIANT CountedOnce
