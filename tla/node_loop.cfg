CONSTANTS
    Fields <- NodeFields
    Conditions <- NodeConditions
    LeaseModes <- AnyLease
    PingTimeout = FALSE
    PingStartsFirst = TRUE
    MaxUid = 2
    MaxConfig = 2
    MaxForeign = 1
    LastForeign = 1
    MaxFaults = 1
SPECIFICATION FairSpec
INVARIANTS TypeOK ResultPublished ConfigTracked
PROPERTIES ForeignKeptWithoutReload ImplementsLifecycle NodeRegistered ConfigPublished LeaseFollowsNode
CHECK_DEADLOCK FALSE
