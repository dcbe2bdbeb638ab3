SPECIFICATION Spec
CONSTANTS
    Symbols = {a}
    MaxConcurrent = 1
    MaxTrades = 1
    MaxSells = 3
    MaxQty = 2
    MaxDays = 2
    MaxFaults = 2
    LateArrival = FALSE
    OvernightOutage = FALSE
    None = None
INVARIANT TypeOK
INVARIANT SentIsDurable
INVARIANT LedgerTrailsBroker
INVARIANT GivenUpHasNoOrder
INVARIANT NeverOversold
INVARIANT OneOpenSell
PROPERTY KeepsCustody
PROPERTY SentOnce
