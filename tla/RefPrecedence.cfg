SPECIFICATION Spec
CONSTANTS
    Databases = {"db"}
    Storages = {"ftp"}
    Credentials = {"login"}
    Fields = {"type", "user", "password", "keep"}
    CredentialOf <- MCCredentialOf
    Configs <- MCBothWays
    Specs <- MCSpecs
    MaxSpecs = 1
    MaxVersions <- MCMaxVersions
    Faults = {}
    MaxFaults = 0
INVARIANTS
    RefTakesPrecedence
CHECK_DEADLOCK FALSE
