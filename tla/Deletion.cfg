SPECIFICATION FairSpec
CONSTANTS
    Manifests = {"scheduled"}
    MaxRecentRuns = 1
    MaxGeneration = 2
    MaxScheduled = 0
    MaxJobs = 2
    BackoffLimit = 0
    Events = {"delete", "resync", "condition"}
    MaxFaults = 0
PROPERTIES
    DeletionCompletes
CHECK_DEADLOCK FALSE
