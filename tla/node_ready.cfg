CONSTANTS
    Fields <- NodeFields
    Conditions <- NodeConditions
    LeaseModes <- AnyLease
    PingTimeout = FALSE
    PingStartsFirst = TRUE
    MaxUid = 1
    MaxConfig = 2
    MaxForeign = 0
    LastForeign = 1
    MaxFaults = 1
SPECIFICATION Spec
INVARIANT ReadyKept
CHECK_DEADLOCK FALSE
