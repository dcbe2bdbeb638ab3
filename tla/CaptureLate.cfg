SPECIFICATION Spec
CONSTANTS
    MaxSession = 3
    MaxRows = 3
    QueueRecords = 1
    QueueBytes = 2
    Batch = 1
    MaxFaults = 1
    ClockSteps = TRUE
    None = None
INVARIANT LateNeverSilent

