SPECIFICATION Spec
CONSTANTS
    Symbols = {a}
    Closes = {1, 3}
    Asked = {2}
    MaxConcurrent = 1
    Gap = 1
    Gain = 2
    Hold = 2
    DayLen = 2
    StaleAfter = 1
    PriceAge = 2
    WireCap = 1
    MaxTime = 2
    MaxAlerts = 3
    Levels = {"critical", "strong"}
    MaxFaults = 1
    SplitPairs = TRUE
    None = None
CHECK_DEADLOCK FALSE
INVARIANT NoVerdictLost
