SPECIFICATION FairSpec
CONSTANTS
    MaxSession = 3
    MaxRows = 2
    QueueRecords = 1
    QueueBytes = 2
    Batch = 1
    MaxFaults = 1
    ClockSteps = TRUE
    None = None

PROPERTY BarrierDelivered
