CONSTANTS
    Fields <- NodeFields
    Conditions <- NodeConditions
    LeaseModes <- AnyLease
    PingTimeout = FALSE
    PingStartsFirst = TRUE
    MaxUid = 1
    MaxConfig = 2
    MaxForeign = 0
    LastForeign = 1
    MaxFaults = 0
SPECIFICATION Spec
INVARIANT PodsKept
CHECK_DEADLOCK FALSE
