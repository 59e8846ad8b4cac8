CONSTANTS
    Pods = {p1}
    HostFieldsAgree = TRUE
    Workers = 2
    MaxRequeues = 1
    SplitAccepts <- AssumedSplit
    NotFoundIsApiError = TRUE
    Leftovers <- NoLeftovers
    HostKinds <- NoHostPods
    Resyncs = FALSE
    ContainersExit = FALSE
    MaxUid = 2
    MaxSpec = 1
    MaxFaults = 0
    MaxRestarts = 0
    MaxBacklog = 2
SPECIFICATION FairSpec
PROPERTY OrphansConverge
CHECK_DEADLOCK FALSE
