SPECIFICATION FairSpec
CONSTANTS
    Databases = {"db"}
    Storages = {"ftp"}
    Credentials = {"login"}
    Fields = {"type", "user", "password", "keep"}
    CredentialOf <- MCCredentialOf
    Configs <- MCConfigs
    Specs <- MCSpecs
    MaxSpecs = 2
    MaxVersions <- MCMaxVersions
    Faults = {"crash", "request", "handler", "rebuild", "touch", "occupy"}
    MaxFaults = 1
INVARIANTS
    TypeOK
PROPERTIES
    ImplementsConfigContract
    EventuallyDelivered
    EventuallyCollected
CHECK_DEADLOCK FALSE
