SPECIFICATION Spec
CONSTANTS
    Symbols = {a, b}
    MaxConcurrent = 2
    MaxTrades = 3
    MaxSells = 1
    MaxQty = 1
    MaxDays = 2
    MaxFaults = 1
    LateArrival = TRUE
    OvernightOutage = FALSE
    None = None
SYMMETRY SymbolSymmetry
INVARIANT WithinSlots
INVARIANT OneLiveTradePerSymbol
