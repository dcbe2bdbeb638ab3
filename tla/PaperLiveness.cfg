SPECIFICATION FairSpec
CONSTANTS
    Symbols = {a}
    MaxConcurrent = 1
    MaxTrades = 1
    MaxSells = 2
    MaxQty = 2
    MaxDays = 2
    MaxFaults = 2
    LateArrival = TRUE
    OvernightOutage = FALSE
    None = None

PROPERTY AttemptResolves
PROPERTY ExitCompletes
