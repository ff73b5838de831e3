SPECIFICATION Spec
CONSTANTS
    Manifests = {"scheduled"}
    MaxRecentRuns = 1
    MaxGeneration = 2
    MaxScheduled = 0
    MaxJobs = 4
    BackoffLimit = 0
    Events = {"crash", "request", "stale", "kill"}
    MaxFaults = 2
INVARIANTS
    ObservedImpliesBuilt
    SecretCoversSchedule
    ManualRunsBounded
    NothingForgotten
PROPERTIES
    LastRunForward
    SettledStays
CHECK_DEADLOCK FALSE
