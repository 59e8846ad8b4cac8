CONSTANTS
    Pods = {p1}
    HostFieldsAgree = TRUE
    Workers = 2
    MaxRequeues = 0
    SplitAccepts <- AssumedSplit
    NotFoundIsApiError = TRUE
    Leftovers <- ALeftover
    HostKinds <- NoHostPods
    Resyncs = TRUE
    ContainersExit = FALSE
    MaxUid = 2
    MaxSpec = 2
    MaxFaults = 1
    MaxRestarts = 1
    MaxBacklog = 1
SPECIFICATION Spec
INVARIANTS StatusPollAlive LeftoversGone
PROPERTIES DanglingSparesLive ImplementsLifecycle
CHECK_DEADLOCK FALSE
