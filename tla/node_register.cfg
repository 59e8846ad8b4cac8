CONSTANTS
    Fields <- NodeFields
    Conditions <- NodeConditions
    LeaseModes <- AnyLease
    PingTimeout = FALSE
    PingStartsFirst = FALSE
    MaxUid = 1
    MaxConfig = 1
    MaxForeign = 0
    LastForeign = 1
    MaxFaults = 0
SPECIFICATION FairSpec
PROPERTY NodeRegistered
CHECK_DEADLOCK FALSE
