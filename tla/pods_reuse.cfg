CONSTANTS
    Pods = {p1}
    HostFieldsAgree = TRUE
    Workers = 2
    MaxRequeues = 0
    SplitAccepts <- AssumedSplit
    NotFoundIsApiError = TRUE
    Leftovers <- NoLeftovers
    HostKinds <- AnyPod
    Resyncs = FALSE
    ContainersExit = FALSE
    MaxUid = 3
    MaxSpec = 1
    MaxFaults = 0
    MaxRestarts = 0
    MaxBacklog = 1
SPECIFICATION Spec
INVARIANTS DeletionTracked
PROPERTIES HostPodsOnlyByReuse
CHECK_DEADLOCK FALSE
