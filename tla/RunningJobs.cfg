SPECIFICATION Spec
CONSTANTS
    Manifests = {"scheduled"}
    MaxRecentRuns = 2
    MaxGeneration = 2
    MaxScheduled = 2
    MaxJobs = 3
    BackoffLimit = 0
    Events = {}
    MaxFaults = 0
INVARIANTS
    LastRunListed
    CountedOnce
    ListedAreCounted
    ReportsHappened
PROPERTIES
    InProgressSurvives
CHECK_DEADLOCK FALSE
