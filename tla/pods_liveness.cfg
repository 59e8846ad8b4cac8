CONSTANTS
    Pods = {p1}
    HostFieldsAgree = TRUE
    Workers = 2
    MaxRequeues = 1
    SplitAccepts <- AssumedSplit
    NotFoundIsApiError = TRUE
    Leftovers <- NoLeftovers
    HostKinds <- NoHostPods
    Resyncs = FALSE
    ContainersExit = FALSE
    MaxUid = 2
    MaxSpec = 1
    MaxFaults = 1
    MaxRestarts = 0
    MaxBacklog = 2
SPECIFICATION FairSpec
INVARIANTS KeysHeld StatusPollAlive DeletionTracked
CHECK_DEADLOCK FALSE
PROPERTIES ForceDeleteOnlyDeleted PodDeployed PodRemoved StatusReported KeysRetire
