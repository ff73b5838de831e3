SPECIFICATION Spec
CONSTANTS
    Manifests = {"scheduled"}
    MaxRecentRuns = 1
    MaxGeneration = 1
    MaxScheduled = 0
    MaxJobs = 1
    BackoffLimit = 0
    Events = {"stale"}
    MaxFaults = 1
PROPERTIES
    NoRecreateOfFresh
CHECK_DEADLOCK FALSE
