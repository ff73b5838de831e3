SPECIFICATION FairSpec
CONSTANTS
    Manifests = {"scheduled", "suspended", "unscheduled", "invalid", "rejected"}
    MaxRecentRuns = 1
    MaxGeneration = 3
    MaxScheduled = 0
    MaxJobs = 2
    BackoffLimit = 0
    Events = {}
    MaxFaults = 0
INVARIANTS
    TypeOK
PROPERTIES
    ImplementsContract
    Converges
CHECK_DEADLOCK FALSE
