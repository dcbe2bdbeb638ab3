SPECIFICATION Spec
CONSTANTS
    MaxDay = 2
    Streams = {1}
    Ceiling = 1
    MinAgeDays = 1
    RequireExport = FALSE
    Designated = {}
    MaxRecords = 3
    MaxRulings = 1
    MaxFaults = 0
PROPERTY DeletedAsListed
