SPECIFICATION Spec
CONSTANTS
    Manifests = {"scheduled"}
    MaxRecentRuns = 1
    MaxGeneration = 2
    MaxScheduled = 0
    MaxJobs = 1
    BackoffLimit = 0
    Events = {}
    MaxFaults = 0
PROPERTIES
    RunAfterEdit
CHECK_DEADLOCK FALSE
