SPECIFICATION FairSpec
CONSTANTS
    MaxDay = 3
    Streams = {1}
    Ceiling = 1
    MinAgeDays = 1
    RequireExport = TRUE
    Designated = {1}
    MaxRecords = 2
    MaxRulings = 1
    MaxFaults = 1
PROPERTY PressureRelieved
PROPERTY NothingExtra
INVARIANT TypeOK
PROPERTY ProtectedHasCopy
PROPERTY PressureNeverSilent
