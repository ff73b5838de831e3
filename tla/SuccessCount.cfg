SPECIFICATION Spec
CONSTANTS
    Manifests = {"scheduled"}
    MaxRecentRuns = 1
    MaxGeneration = 2
    MaxScheduled = 1
    MaxJobs = 2
    BackoffLimit = 0
    Events = {"ties"}
    MaxFaults = 0
INVARIANTS
    SuccessCountTotal
CHECK_DEADLOCK FALSE
