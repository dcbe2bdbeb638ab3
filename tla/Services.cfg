SPECIFICATION ServicesFairSpec
CONSTANTS
    Symbols = {a}
    Closes = {1, 3}
    Asked = {2}
    MaxConcurrent = 1
    Gap = 1
    Gain = 2
    Hold = 2
    DayLen = 2
    StaleAfter = 1
    PriceAge = 2
    WireCap = 1
    MaxTime = 2
    MaxAlerts = 4
    Levels = {"critical", "strong"}
    MaxFaults = 1
    SplitPairs = FALSE
    None = None
    MaxTape = 6
    Quotes = {1,5,6}
    StoreDayLen = 4
    Idle = 1
    MaxBuffered = 2
    MaxPerDay = 1
    Ttl = 0
    FeedLags = FALSE
    Screens = {s}
    Traders = {t}
    Keys = {k, l}
    Capacity = 1
    StreamMaxAlerts = 1
    MaxLatest = 1
    MaxChatter = 1
    Slots = 1
    MaxEvents = 3
    Interval = 2
    Grace = 1
    Throttle = 1
    MaxClock = 3
    MaxPrints = 3
    MaxMoves = 2
    CoverageSymbols = {a}
    MaxMisses = 1
    QuietCap = 1
    Universe = TRUE
    Conns = {c, d}
    HubSymbols = {a, b, e}
    Limit = 2
    MaxCharted = 2
    MaxVersion = 4
    Open = 2
    Regular = 4
    After = 7
    Close = 8
    Long = 3
    Short = 1
    FullTape = TRUE
    Retry = 1
    FeedMaxTime = 11
    Needed = 2
    Cooldown = 2
    IgnitionMaxTime = 5
    MaxResumes = 2
    HaltsSymbols = {a, b}
    HaltsDayLen = 4
    Ahead = 1
    Behind = 2
    MaxMarks = 2
    MaxSymbols = 1
    HaltsMaxTime = 5
    MaxStatuses = 4
INVARIANT MemoryFollowsJournal
INVARIANT NoVerdictLost
INVARIANT StoreLosesNothing
INVARIANT StreamTellsEveryGap
INVARIANT StreamMends
INVARIANT BarsAreTrue
INVARIANT CoverageMatches
INVARIANT HubFollows
INVARIANT FeedIsWatched
INVARIANT IgnitionIsEarned
INVARIANT HaltsAreDisclosed
PROPERTY OneEntryPerDay
PROPERTY PositionResolves
PROPERTY BarsClose
PROPERTY CoverageKeepsHistory
CHECK_DEADLOCK FALSE
