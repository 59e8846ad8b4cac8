---------------------------- MODULE PodFilterProofs ----------------------------
(***************************************************************************)
(* Pods that ask for something of the host are not created, but for the    *)
(* one window of podStatusHandler: for any number of pods, workers,        *)
(* faults, restarts and incarnations.                                      *)
(***************************************************************************)
EXTENDS PodLifecycleProofs

\* Copies of one pod agree on its use of the host, which no update changes.
Agree(pod1, pod2) == pod1.uid = pod2.uid => pod1.host = pod2.host

\* What the workers have asked podFilterFunc of stays true of that pod.
FilterKnown ==
    \A p \in Pods :
        /\ Agree(api[p], cache[p])
        /\ statusJob[p].at # "idle" =>
             Agree(api[p], statusJob[p].pod) /\ Agree(cache[p], statusJob[p].pod)
        /\ statusJob[p].at \in {"getStatus", "getCached"} => ~statusJob[p].pod.host
        /\ syncJob[p].at \in {"getPod", "create"} => ~syncJob[p].pod.host

FilterInv == TypeOK /\ UidsKnown /\ FilterKnown

------------------------------------------------------------------------------
(* What each worker has asked.                                             *)

\* syncProviderPod asks the filter before it gets and creates a pod (pod.go:528).
SyncFilters(p) ==
    syncJob'[p].at \in {"getPod", "create"} =>
        \/ syncJob[p].at \in {"getPod", "create"} /\ syncJob'[p].pod = syncJob[p].pod
        \/ syncJob'[p].pod = cache[p] /\ ~cache[p].host

\* Every step of every actor.
LEMMA SyncFilterStep ==
    ASSUME TypeOK, [Next]_vars, NEW j \in Pods
    PROVE  SyncFilters(j)
<1>0. syncJob \in [Pods -> Job(SyncPoints)]
  BY DEF TypeOK
<1>1. CASE UNCHANGED syncJob
  BY <1>1 DEF SyncFilters
<1>2. CASE Restart
  BY <1>2 DEF Restart, AllIdle, Idle, SyncFilters
<1>3. ASSUME NEW p \in Pods, SyncWorker(p) PROVE SyncFilters(j)
  <2>1. ASSUME NEW job, syncJob' = [syncJob EXCEPT ![p] = job],
               \/ job.at \notin {"getPod", "create"}
               \/ syncJob[p].at \in {"getPod", "create"} /\ job.pod = syncJob[p].pod
               \/ job.pod = cache[p] /\ ~cache[p].host
        PROVE  SyncFilters(j)
    <3>1. CASE j # p
      BY <1>0, <2>1, <3>1 DEF SyncFilters
    <3>2. CASE j = p
      <4>1. syncJob'[j] = job
        BY <1>0, <2>1, <3>2
      <4> QED BY <2>1, <3>2, <4>1 DEF SyncFilters
    <3> QED BY <3>1, <3>2
  <2>2. ASSUME NEW q, NEW err, SyncReturns(q, p, err) PROVE SyncFilters(j)
    <3>1. Idle.at = "idle" /\ syncJob' = [syncJob EXCEPT ![p] = Idle]
      BY <2>2 DEF SyncReturns, Idle
    <3> QED BY <2>1, <3>1
  <2>3. ASSUME NEW at, NEW pod, NEW inst, SyncCalls(p, at, pod, inst),
               \/ at \notin {"getPod", "create"}
               \/ syncJob[p].at \in {"getPod", "create"} /\ pod = syncJob[p].pod
               \/ pod = cache[p] /\ ~cache[p].host
        PROVE  SyncFilters(j)
    BY <2>1, <2>3 DEF SyncCalls
  <2>4. CASE SyncTake(p)
    BY <2>2, <2>3, <2>4 DEF SyncTake, filterPodFunc
  <2>5. CASE SyncGetPod(p)
    <3>1. syncJob[p].at = "getPod"
      BY <2>5 DEF SyncGetPod, SyncStep
    <3> QED BY <2>3, <2>5, <3>1 DEF SyncGetPod
  <2>6. CASE SyncDeleteMissing(p) \/ SyncDeleteProviderPod(p) \/ SyncCreate(p) \/ SyncUpdate(p)
    BY <2>2, <2>6 DEF SyncDeleteMissing, SyncDeleteProviderPod, SyncCreate, SyncUpdate
  <2> QED BY <1>3, <2>4, <2>5, <2>6 DEF SyncWorker
<1> QED BY <1>1, <1>2, <1>3, SyncJobWriters

\* podStatusHandler asks the filter before it asks for the status (pod.go:421).
StatusFilters(p) ==
    statusJob'[p].at \in {"getStatus", "getCached"} =>
        \/ /\ statusJob[p].at \in {"getStatus", "getCached"}
           /\ statusJob'[p].pod = statusJob[p].pod
        \/ statusJob'[p].pod = cache[p] /\ ~cache[p].host

\* Every step of every actor.
LEMMA StatusFilterStep ==
    ASSUME TypeOK, [Next]_vars, NEW j \in Pods
    PROVE  StatusFilters(j)
<1>0. statusJob \in [Pods -> Job(StatusPoints)]
  BY DEF TypeOK
<1>1. CASE UNCHANGED statusJob
  BY <1>1 DEF StatusFilters
<1>2. CASE Restart
  BY <1>2 DEF Restart, AllIdle, Idle, StatusFilters
<1>3. ASSUME NEW p \in Pods, StatusWorker(p) PROVE StatusFilters(j)
  <2>1. ASSUME NEW job, statusJob' = [statusJob EXCEPT ![p] = job],
               \/ job.at \notin {"getStatus", "getCached"}
               \/ statusJob[p].at \in {"getStatus", "getCached"} /\ job.pod = statusJob[p].pod
               \/ job.pod = cache[p] /\ ~cache[p].host
        PROVE  StatusFilters(j)
    <3>1. CASE j # p
      BY <1>0, <2>1, <3>1 DEF StatusFilters
    <3>2. CASE j = p
      <4>1. statusJob'[j] = job
        BY <1>0, <2>1, <3>2
      <4> QED BY <2>1, <3>2, <4>1 DEF StatusFilters
    <3> QED BY <3>1, <3>2
  <2>2. ASSUME NEW q, NEW add, NEW err, StatusReturns(q, p, add, err) PROVE StatusFilters(j)
    <3>1. Idle.at = "idle" /\ statusJob' = [statusJob EXCEPT ![p] = Idle]
      BY <2>2 DEF StatusReturns, Idle
    <3> QED BY <2>1, <3>1
  <2>3. ASSUME NEW at, NEW pod, NEW inst, StatusCalls(p, at, pod, inst),
               \/ at \notin {"getStatus", "getCached"}
               \/ statusJob[p].at \in {"getStatus", "getCached"} /\ pod = statusJob[p].pod
               \/ pod = cache[p] /\ ~cache[p].host
        PROVE  StatusFilters(j)
    BY <2>1, <2>3 DEF StatusCalls
  <2>4. CASE StatusTake(p)
    BY <2>2, <2>3, <2>4 DEF StatusTake, filterPodFunc
  <2>5. CASE StatusGetStatus(p)
    <3>1. statusJob[p].at = "getStatus"
      BY <2>5 DEF StatusGetStatus, StatusStep
    <3> QED BY <2>2, <2>3, <2>5, <3>1 DEF StatusGetStatus
  <2>6. CASE StatusGetCached(p)
    BY <2>2, <2>3, <2>6 DEF StatusGetCached
  <2>7. CASE StatusCreate(p) \/ StatusUpdateStatus(p)
    BY <2>2, <2>7 DEF StatusCreate, StatusUpdateStatus
  <2> QED BY <1>3, <2>4, <2>5, <2>6, <2>7 DEF StatusWorker
<1> QED BY <1>1, <1>2, <1>3, StatusJobWriters

------------------------------------------------------------------------------
(* The invariant is inductive.                                             *)

\* What is written over a pod agrees with every copy of it: a new pod of the name
\* has a number no copy has, and the rest does not touch the spec's use of the host.
LEMMA AgreeStep ==
    ASSUME TypeOK, UidsKnown, [Next]_vars, NEW p \in Pods, NEW pod, PodKnown(p, pod),
           Agree(api[p], pod)
    PROVE  Agree(api'[p], pod)
<1>1. uids[p] \in Nat /\ (pod = NoPod \/ pod.uid \in 2..uids[p])
  BY DEF TypeOK, PodKnown, Given
<1>2. CASE UserCreate(p)
  <2>1. api'[p].uid = uids[p] + 1
    BY <1>2 DEF UserCreate, TypeOK
  <2>2. pod.uid # uids[p] + 1
    BY <1>1 DEF NoPod
  <2> QED BY <2>1, <2>2 DEF Agree
<1>3. CASE api'[p] = NoPod
  <2>1. NoPod.uid = 0
    BY DEF NoPod
  <2>2. pod.uid = 0 => pod = NoPod
    BY <1>1
  <2> QED BY <1>3, <2>1, <2>2 DEF Agree
<1>4. CASE api'[p].uid = api[p].uid /\ api'[p].host = api[p].host
  BY <1>4 DEF Agree
<1> QED BY <1>2, <1>3, <1>4, ApiStep DEF ApiMoves

\* Copies are made of what is there, after the filter was asked.
LEMMA FilterKnownStep ==
    ASSUME FilterInv, [Next]_vars
    PROVE  FilterKnown'
<1> SUFFICES ASSUME NEW p \in Pods
             PROVE  /\ Agree(api'[p], cache'[p])
                    /\ statusJob'[p].at # "idle" =>
                         /\ Agree(api'[p], statusJob'[p].pod)
                         /\ Agree(cache'[p], statusJob'[p].pod)
                    /\ statusJob'[p].at \in {"getStatus", "getCached"} => ~statusJob'[p].pod.host
                    /\ syncJob'[p].at \in {"getPod", "create"} => ~syncJob'[p].pod.host
  BY DEF FilterKnown, Agree
<1>0. TypeOK /\ UidsKnown /\ FilterKnown
  BY DEF FilterInv
<1>1. uids[p] \in Nat /\ PodKnown(p, api[p]) /\ PodKnown(p, cache[p])
  BY <1>0 DEF TypeOK, UidsKnown
<1>2. PodKnown(p, NoPod) /\ Agree(api[p], NoPod)
  <2>1. NoPod.uid = 0
    BY DEF NoPod
  <2>2. api[p].uid = 0 => api[p] = NoPod
    BY <1>1 DEF PodKnown, Given
  <2> QED BY <2>1, <2>2 DEF PodKnown, Agree
<1>3. cache'[p] \in {cache[p], api[p], NoPod}
  BY <1>0, CacheStep
<1>4. Agree(api'[p], cache'[p])
  <2>1. PodKnown(p, cache'[p]) /\ Agree(api[p], cache'[p])
    BY <1>0, <1>1, <1>2, <1>3 DEF FilterKnown, Agree
  <2> QED BY <1>0, <2>1, AgreeStep
<1>5. ASSUME statusJob'[p].at # "idle"
      PROVE  Agree(api'[p], statusJob'[p].pod) /\ Agree(cache'[p], statusJob'[p].pod)
  <2> DEFINE pod == statusJob'[p].pod
  <2>1. \/ statusJob[p].at # "idle" /\ pod = statusJob[p].pod
        \/ cache[p] # NoPod /\ pod = cache[p]
    BY <1>0, <1>5, StatusJobStep DEF StatusMoves
  <2>2. Given(p, pod.uid) /\ PodKnown(p, pod)
    BY <1>0, <1>1, <2>1 DEF UidsKnown, PodKnown
  <2>3. Agree(api[p], pod) /\ Agree(cache[p], pod)
    BY <1>0, <2>1 DEF FilterKnown, Agree
  <2>4. Agree(NoPod, pod)
    BY <1>1, <2>2 DEF Given, Agree, NoPod
  <2> HIDE DEF pod
  <2>5. Agree(api'[p], pod)
    BY <1>0, <2>2, <2>3, AgreeStep
  <2>6. Agree(cache'[p], pod)
    BY <1>3, <2>3, <2>4
  <2> QED BY <2>5, <2>6 DEF pod
<1>6. ASSUME statusJob'[p].at \in {"getStatus", "getCached"} PROVE ~statusJob'[p].pod.host
  BY <1>0, <1>6, StatusFilterStep DEF StatusFilters, FilterKnown
<1>7. ASSUME syncJob'[p].at \in {"getPod", "create"} PROVE ~syncJob'[p].pod.host
  BY <1>0, <1>7, SyncFilterStep DEF SyncFilters, FilterKnown
<1> QED BY <1>4, <1>5, <1>6, <1>7

\* No instance is created for a pod that asks for something of the host, unless
\* it took another pod's name between podStatusHandler's filter and its second
\* look at the lister (pod.go:421, 528 and 700-706).
THEOREM FilterHolds == Spec => HostPodsOnlyByReuse
<1>1. Init => FilterInv
  <2> SUFFICES ASSUME Init PROVE FilterInv
    OBVIOUS
  <2>1. TypeOK /\ UidsKnown
    BY InvInit DEF Inv
  <2>2. \A p \in Pods : /\ api[p] = NoPod /\ cache[p] = NoPod
                        /\ syncJob[p].at = "idle" /\ statusJob[p].at = "idle"
    BY DEF Init, NothingCached, AllIdle, Idle
  <2>3. FilterKnown
    BY <2>2 DEF FilterKnown, Agree
  <2> QED BY <2>1, <2>3 DEF FilterInv
<1>2. FilterInv /\ [Next]_vars => FilterInv'
  BY TypeStep, UidsKnownStep, FilterKnownStep DEF FilterInv
<1>3. FilterInv /\ FilterInv' /\ [Next]_vars =>
        [\A p \in Pods :
           /\ syncJob'[p].at = "create" => ~syncJob'[p].pod.host
           /\ statusJob[p].at = "getCached" /\ statusJob'[p].at = "create" =>
                ~statusJob'[p].pod.host \/ statusJob'[p].pod.uid # statusJob[p].pod.uid]_vars
  <2> SUFFICES ASSUME FilterInv, FilterInv', [Next]_vars, NEW p \in Pods
               PROVE  /\ syncJob'[p].at = "create" => ~syncJob'[p].pod.host
                      /\ statusJob[p].at = "getCached" /\ statusJob'[p].at = "create" =>
                           \/ ~statusJob'[p].pod.host
                           \/ statusJob'[p].pod.uid # statusJob[p].pod.uid
    OBVIOUS
  <2>1. syncJob'[p].at = "create" => ~syncJob'[p].pod.host
    BY DEF FilterInv, FilterKnown
  <2>2. ASSUME statusJob[p].at = "getCached", statusJob'[p].at = "create",
               statusJob'[p].pod.uid = statusJob[p].pod.uid
        PROVE  ~statusJob'[p].pod.host
    <3>1. ~statusJob[p].pod.host /\ Agree(cache[p], statusJob[p].pod)
      BY <2>2 DEF FilterInv, FilterKnown
    <3>2. statusJob'[p].pod \in {statusJob[p].pod, cache[p]}
      BY <2>2, StatusJobStep DEF StatusMoves, FilterInv
    <3> QED BY <2>2, <3>1, <3>2 DEF Agree
  <2> QED BY <2>1, <2>2
<1> QED BY <1>1, <1>2, <1>3, PTL DEF Spec, HostPodsOnlyByReuse
==============================================================================
