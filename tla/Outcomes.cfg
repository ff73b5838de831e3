SPECIFICATION FairSpec
CONSTANTS
    Manifests = {"scheduled"}
    MaxRecentRuns = 1
    MaxGeneration = 2
    MaxScheduled = 1
    MaxJobs = 2
    BackoffLimit = 1
    Events = {"foreign"}
    MaxFaults = 0
PROPERTIES
    OutcomeRecorded
CHECK_DEADLOCK FALSE
