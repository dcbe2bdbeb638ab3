SPECIFICATION CapturesSpec
CONSTANTS
    MaxSession = 3
    MaxRows = 2
    QueueRecords = 2
    QueueBytes = 2
    Batch = 2
    MaxFaults = 2
    ClockSteps = FALSE
    Lifecycles = {x}
    LineRecords = 2
    RotateLines = 4
    CaptureBudget = 8
    MaxHooks = 3
    MaxLags = 1
    MaxMishaps = 1
    OutcomeSymbols = {1, 2}
    OutcomeDayLen = 3
    UtcShift = 1
    QuietFor = 2
    Cadence = 2
    OpenBound = 1
    SettleAfter = 2
    MaxAnchors = 2
    OutcomeMaxTime = 4
    MaxLate = 2
    None = None
INVARIANT TypeOK
INVARIANT CaptureAddsUp
INVARIANT CertifiedIsComplete
INVARIANT CleanMarkerVerifies
INVARIANT HealthHidesNothing
INVARIANT ObservationIsTrue
INVARIANT OpportunitiesAreTrue
