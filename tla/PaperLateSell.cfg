SPECIFICATION Spec
CONSTANTS
    Symbols = {a}
    MaxConcurrent = 1
    MaxTrades = 1
    MaxSells = 3
    MaxQty = 1
    MaxDays = 1
    MaxFaults = 2
    LateArrival = TRUE
    OvernightOutage = FALSE
    None = None

PROPERTY LateSellFailsClosed
