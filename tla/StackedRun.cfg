SPECIFICATION Spec
CONSTANTS
    Manifests = {"scheduled"}
    MaxRecentRuns = 1
    MaxGeneration = 2
    MaxScheduled = 1
    MaxJobs = 2
    BackoffLimit = 1
    Events = {}
    MaxFaults = 0
PROPERTIES
    NoStackedRun
CHECK_DEADLOCK FALSE
