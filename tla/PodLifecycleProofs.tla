-------------------------- MODULE PodLifecycleProofs --------------------------
(***************************************************************************)
(* That the pod controller implements PodLifecycle, what its start-up      *)
(* spares and removes, and that it does nothing if its keys do not split:  *)
(* for any number of pods, workers, retries, faults, restarts and          *)
(* incarnations.                                                           *)
(***************************************************************************)
EXTENDS PodControllerProofs

\* Whoever has a copy of a pod has one that was once given: 1 is left to the
\* instances of an earlier process.
Given(p, uid) == uid \in 2..uids[p]

PodKnown(p, pod) == pod = NoPod \/ Given(p, pod.uid)

UidsKnown ==
    \A p \in Pods :
        /\ uids[p] >= 1
        /\ PodKnown(p, api[p]) /\ PodKnown(p, cache[p])
        /\ syncJob[p].at \in {"getPod", "create"} => Given(p, syncJob[p].pod.uid)
        /\ statusJob[p].at # "idle" => Given(p, statusJob[p].pod.uid)
        /\ prov[p] # NoInstance => prov[p].uid \in 1..uids[p]

\* Before the workers start nobody works, so what deleteDanglingPods has seen of
\* the provider stays true until it acts on it.
WorkersWait ==
    ~WorkersUp => /\ \A p \in Pods : /\ syncJob[p].at = "idle" /\ deleteJob[p].at = "idle"
                                     /\ statusJob[p].at = "idle"

Dangles(p) == prov[p] # NoInstance => prov[p].uid # api[p].uid

SparesLive ==
    \A p \in Pods :
        /\ phase \in {"listing", "checking"} /\ cache[p] = NoPod => Dangles(p)
        /\ phase = "deleting" /\ p \in dangling => Dangles(p)

\* An instance that was left behind, of a name not given since, is on the list of
\* deleteDanglingPods until it is removed.
LeftoversListed ==
    faults = 0 =>
        \A p \in Pods :
            prov[p].uid = 1 /\ prov[p].labelled /\ uids[p] = 1 =>
                \/ phase \in {"syncing", "listing"}
                \/ phase \in {"checking", "deleting"} /\ p \in dangling

------------------------------------------------------------------------------
(* As long as the name is not used again.                                  *)

\* There was one pod of the name, and nobody wants it any more.
Over(p) == uids[p] = 2 /\ (api[p] = NoPod \/ Deleting(api[p]))

\* The controller has, or had since it started, a copy of the pod.
Seen(p) == Pending(syncQ, p) \/ syncJob[p].at # "idle" \/ events[p] # <<>>

OverKnown ==
    \A p \in Pods :
        uids[p] <= 2 =>
            /\ Deleting(cache[p]) => Over(p)
            /\ cache[p] = NoPod /\ Seen(p) => Over(p)
            /\ syncJob[p].at \in {"deleteMissing", "deleteProviderPod"} => Over(p)
            /\ Pending(deleteQ, p) \/ deleteJob[p].at # "idle" => Over(p)

Inv == TypeOK /\ UidsKnown /\ WorkersWait /\ SparesLive /\ OverKnown

------------------------------------------------------------------------------
(* Who writes what.                                                        *)

\* Only users, the deleting worker and the status worker write pods.
LEMMA ApiWriters ==
    [Next]_vars => \/ UNCHANGED <<api, uids>>
                   \/ \E p \in Pods : User(p) \/ DeleteDeletePod(p) \/ StatusUpdateStatus(p)
<1> SUFFICES ASSUME [Next]_vars, \A p \in Pods : ~User(p) /\ ~DeleteDeletePod(p)
                                                /\ ~StatusUpdateStatus(p)
             PROVE  UNCHANGED <<api, uids>>
  OBVIOUS
<1>1. CASE UNCHANGED vars
  BY <1>1 DEF vars, envVars
<1>2. CASE Run \/ Stop \/ Restart
  BY <1>2 DEF Run, Stop, Restart, InformerList, ListProviderPods, MarkDangling, StartWorkers,
              DeleteDangling, envVars
<1>3. ASSUME NEW p \in Pods, SyncWorker(p) PROVE UNCHANGED <<api, uids>>
  BY <1>3 DEF SyncWorker, SyncTake, SyncStep, SyncDeleteMissing, SyncDeleteProviderPod,
              SyncGetPod, SyncCreate, SyncUpdate, envVars
<1>4. ASSUME NEW p \in Pods, DeleteTake(p) \/ DeleteDeleteProviderPod(p)
      PROVE  UNCHANGED <<api, uids>>
  BY <1>4 DEF DeleteTake, DeleteStep, DeleteDeleteProviderPod, envVars
<1>5. ASSUME NEW p \in Pods,
             StatusTake(p) \/ StatusGetStatus(p) \/ StatusGetCached(p) \/ StatusCreate(p)
      PROVE  UNCHANGED <<api, uids>>
  BY <1>5 DEF StatusTake, StatusStep, StatusGetStatus, StatusGetCached, StatusCreate, envVars
<1>6. ASSUME NEW p \in Pods, \/ ContainersProgress(p) \/ InformerWatch(p) \/ InformerResync(p)
                             \/ EventHandler(p)
      PROVE  UNCHANGED <<api, uids>>
  BY <1>6 DEF ContainersProgress, InformerWatch, InformerResync, EventHandler, AddFunc,
              DeleteFunc, UpdateFunc, NextEvent, envVars
<1>7. ASSUME NEW p \in Pods, \/ SyncDelayElapsed(p) \/ DeleteDelayElapsed(p)
                             \/ StatusDelayElapsed(p)
      PROVE  UNCHANGED <<api, uids>>
  BY <1>7 DEF SyncDelayElapsed, DeleteDelayElapsed, StatusDelayElapsed, envVars
<1> QED BY <1>1, <1>2, <1>3, <1>4, <1>5, <1>6, <1>7 DEF Next, DeleteWorker, StatusWorker

\* What a step can do to a pod: give the name, take it away, or write the pod
\* without changing its number and its use of the host, or taking its deletion back.
ApiMoves(p) ==
    \/ UserCreate(p)
    \/ /\ uids'[p] = uids[p]
       /\ \/ api'[p] = NoPod
          \/ /\ api[p] # NoPod /\ api'[p].uid = api[p].uid /\ api'[p].host = api[p].host
             /\ \/ api'[p].deletionTimestamp = api[p].deletionTimestamp
                \/ ~Deleting(api[p]) /\ api'[p].deletionTimestamp = api[p].uid

\* Every step of every actor.
LEMMA ApiStep ==
    ASSUME TypeOK, [Next]_vars, NEW j \in Pods
    PROVE  ApiMoves(j)
<1>0. api \in [Pods -> Pod] /\ uids \in [Pods -> Nat]
  BY DEF TypeOK
<1>1. ASSUME UNCHANGED <<api, uids>> PROVE ApiMoves(j)
  BY <1>1 DEF ApiMoves
<1>2. ASSUME NEW p \in Pods, NEW pod, api' = [api EXCEPT ![p] = pod], UNCHANGED uids,
             \/ pod = NoPod
             \/ /\ api[p] # NoPod /\ pod.uid = api[p].uid /\ pod.host = api[p].host
                /\ \/ pod.deletionTimestamp = api[p].deletionTimestamp
                   \/ ~Deleting(api[p]) /\ pod.deletionTimestamp = api[p].uid
      PROVE  ApiMoves(j)
  BY <1>0, <1>2 DEF ApiMoves
<1>3. ASSUME NEW p \in Pods, User(p) PROVE ApiMoves(j)
  <2>1. CASE UserCreate(p)
    <3>1. j # p => api'[j] = api[j] /\ uids'[j] = uids[j]
      BY <1>0, <2>1 DEF UserCreate
    <3> QED BY <2>1, <3>1 DEF ApiMoves
  <2>2. CASE UserUpdate(p)
    <3> DEFINE pod == [api[p] EXCEPT !.spec = @ + 1, !.rv = @ + 1]
    <3>1. /\ pod.uid = api[p].uid /\ pod.host = api[p].host
          /\ pod.deletionTimestamp = api[p].deletionTimestamp
      BY <1>0 DEF Pod
    <3>2. api' = [api EXCEPT ![p] = pod] /\ UNCHANGED uids /\ api[p] # NoPod
      BY <2>2 DEF UserUpdate
    <3> HIDE DEF pod
    <3> QED BY <1>2, <3>1, <3>2
  <2>3. CASE UserDelete(p)
    <3> DEFINE pod == [api[p] EXCEPT !.deletionTimestamp = api[p].uid, !.rv = @ + 1]
    <3>1. /\ pod.uid = api[p].uid /\ pod.host = api[p].host
          /\ pod.deletionTimestamp = api[p].uid
      BY <1>0 DEF Pod
    <3>2. api' = [api EXCEPT ![p] = pod] /\ UNCHANGED uids /\ api[p] # NoPod /\ ~Deleting(api[p])
      BY <2>3 DEF UserDelete
    <3> HIDE DEF pod
    <3> QED BY <1>2, <3>1, <3>2
  <2>4. CASE UserForceDelete(p)
    BY <1>2, <2>4 DEF UserForceDelete
  <2> QED BY <1>3, <2>1, <2>2, <2>3, <2>4 DEF User
<1>4. ASSUME NEW p \in Pods, DeleteDeletePod(p) PROVE ApiMoves(j)
  <2>1. api' = api \/ api' = [api EXCEPT ![p] = NoPod]
    BY <1>4 DEF DeleteDeletePod, ApiDeletePod
  <2>2. UNCHANGED uids
    BY <1>4 DEF DeleteDeletePod, DeleteStep
  <2> QED BY <1>1, <1>2, <2>1, <2>2
<1>5. ASSUME NEW p \in Pods, StatusUpdateStatus(p) PROVE ApiMoves(j)
  <2>1. PICK status, result : ApiUpdateStatus(p, statusJob[p].pod, status, result)
    BY <1>5 DEF StatusUpdateStatus
  <2> DEFINE written == [api[p] EXCEPT !.status = status, !.rv = @ + 1]
  <2>2. \/ api' = api
        \/ api[p] # NoPod /\ api' = [api EXCEPT ![p] = written]
    BY <2>1 DEF ApiUpdateStatus
  <2>3. /\ written.uid = api[p].uid /\ written.host = api[p].host
        /\ written.deletionTimestamp = api[p].deletionTimestamp
    BY <1>0 DEF Pod
  <2>4. UNCHANGED uids
    BY <1>5 DEF StatusUpdateStatus, StatusStep
  <2> HIDE DEF written
  <2> QED BY <1>1, <1>2, <2>2, <2>3, <2>4
<1> QED BY <1>1, <1>3, <1>4, <1>5, ApiWriters

\* Only the containers themselves, the three workers and deleteDanglingPods
\* change what the provider runs.
LEMMA ProvWriters ==
    [Next]_vars =>
        \/ UNCHANGED prov
        \/ \E p \in Pods : \/ ContainersProgress(p) \/ DeleteDangling(p)
                           \/ SyncDeleteMissing(p) \/ SyncDeleteProviderPod(p)
                           \/ SyncCreate(p) \/ SyncUpdate(p)
                           \/ DeleteDeleteProviderPod(p) \/ StatusCreate(p)
<1> SUFFICES ASSUME [Next]_vars,
                    \A p \in Pods : /\ ~ContainersProgress(p) /\ ~DeleteDangling(p)
                                    /\ ~SyncDeleteMissing(p) /\ ~SyncDeleteProviderPod(p)
                                    /\ ~SyncCreate(p) /\ ~SyncUpdate(p)
                                    /\ ~DeleteDeleteProviderPod(p) /\ ~StatusCreate(p)
             PROVE  UNCHANGED prov
  OBVIOUS
<1>1. CASE UNCHANGED vars
  BY <1>1 DEF vars, envVars
<1>2. CASE Run \/ Stop \/ Restart
  BY <1>2 DEF Run, Stop, Restart, InformerList, ListProviderPods, MarkDangling, StartWorkers,
              envVars
<1>3. ASSUME NEW p \in Pods, SyncTake(p) \/ SyncGetPod(p) PROVE UNCHANGED prov
  BY <1>3 DEF SyncTake, SyncGetPod, ProviderGet, envVars
<1>4. ASSUME NEW p \in Pods, DeleteTake(p) \/ DeleteDeletePod(p) PROVE UNCHANGED prov
  BY <1>4 DEF DeleteTake, DeleteDeletePod, envVars
<1>5. ASSUME NEW p \in Pods,
             StatusTake(p) \/ StatusGetStatus(p) \/ StatusGetCached(p) \/ StatusUpdateStatus(p)
      PROVE  UNCHANGED prov
  BY <1>5 DEF StatusTake, StatusGetStatus, StatusGetCached, StatusUpdateStatus, ProviderGet, envVars
<1>6. ASSUME NEW p \in Pods, \/ User(p) \/ InformerWatch(p) \/ InformerResync(p)
                             \/ EventHandler(p)
      PROVE  UNCHANGED prov
  BY <1>6 DEF User, UserCreate, UserUpdate, UserDelete, UserForceDelete, InformerWatch,
              InformerResync, EventHandler, AddFunc, DeleteFunc, UpdateFunc, NextEvent, envVars
<1>7. ASSUME NEW p \in Pods, \/ SyncDelayElapsed(p) \/ DeleteDelayElapsed(p)
                             \/ StatusDelayElapsed(p)
      PROVE  UNCHANGED prov
  BY <1>7 DEF SyncDelayElapsed, DeleteDelayElapsed, StatusDelayElapsed, envVars
<1> QED BY <1>1, <1>2, <1>3, <1>4, <1>5, <1>6, <1>7
        DEF Next, SyncWorker, DeleteWorker, StatusWorker

\* Somebody is about to tell the provider to remove the instance, or to run one.
Removing(p) ==
    \/ syncJob[p].at \in {"deleteMissing", "deleteProviderPod"}
    \/ deleteJob[p].at = "deleteProviderPod"
    \/ phase = "deleting" /\ p \in dangling

Creating(p, uid) ==
    \/ syncJob[p].at = "create" /\ syncJob[p].pod.uid = uid
    \/ statusJob[p].at = "create" /\ statusJob[p].pod.uid = uid

\* What a step can do to an instance: leave its number and its labels, remove it,
\* or create one.
ProvMoves(p) ==
    \/ prov'[p] = prov[p]
    \/ prov[p] # NoInstance /\ prov'[p].uid = prov[p].uid /\ prov'[p].labelled = prov[p].labelled
    \/ prov'[p] = NoInstance /\ Removing(p)
    \/ prov[p] = NoInstance /\ Creating(p, prov'[p].uid)

\* Every step of every actor.
LEMMA ProvStep ==
    ASSUME TypeOK, [Next]_vars, NEW j \in Pods
    PROVE  ProvMoves(j)
<1>0. prov \in [Pods -> Instance]
  BY DEF TypeOK
<1>1. ASSUME NEW p \in Pods, NEW inst, prov' = [prov EXCEPT ![p] = inst],
             \/ prov[p] # NoInstance /\ inst.uid = prov[p].uid /\ inst.labelled = prov[p].labelled
             \/ inst = NoInstance /\ Removing(p)
             \/ prov[p] = NoInstance /\ Creating(p, inst.uid)
      PROVE  ProvMoves(j)
  BY <1>0, <1>1 DEF ProvMoves
<1>2. ASSUME UNCHANGED prov PROVE ProvMoves(j)
  BY <1>2 DEF ProvMoves
<1>3. ASSUME NEW p \in Pods, ContainersProgress(p) PROVE ProvMoves(j)
  <2>1. PICK state : prov[p] # NoInstance /\ prov' = [prov EXCEPT ![p] = [prov[p] EXCEPT !.state = state]]
    BY <1>0, <1>3 DEF ContainersProgress
  <2> DEFINE inst == [prov[p] EXCEPT !.state = state]
  <2>2. inst.uid = prov[p].uid /\ inst.labelled = prov[p].labelled
    BY <1>0 DEF Instance
  <2> HIDE DEF inst
  <2>3. prov' = [prov EXCEPT ![p] = inst]
    BY <2>1 DEF inst
  <2> QED BY <1>1, <2>1, <2>2, <2>3
<1>4. ASSUME NEW p \in Pods, NEW result, ProviderDeletePod(p, result), Removing(p)
      PROVE  ProvMoves(j)
  BY <1>1, <1>2, <1>4 DEF ProviderDeletePod
<1>5. ASSUME NEW p \in Pods, DeleteDangling(p) PROVE ProvMoves(j)
  BY <1>4, <1>5 DEF DeleteDangling, Removing
<1>6. ASSUME NEW p \in Pods, \/ SyncDeleteMissing(p) \/ SyncDeleteProviderPod(p)
                             \/ DeleteDeleteProviderPod(p)
      PROVE  ProvMoves(j)
  BY <1>4, <1>6 DEF SyncDeleteMissing, SyncDeleteProviderPod, DeleteDeleteProviderPod, SyncStep,
                    DeleteStep, Removing
<1>7. ASSUME NEW p \in Pods, NEW pod, NEW result, ProviderCreatePod(p, pod, result),
             Creating(p, pod.uid)
      PROVE  ProvMoves(j)
  <2> DEFINE inst == [uid |-> pod.uid, spec |-> pod.spec, state |-> "pending", labelled |-> TRUE]
  <2>1. \/ UNCHANGED prov
        \/ prov[p] = NoInstance /\ prov' = [prov EXCEPT ![p] = inst]
    BY <1>7 DEF ProviderCreatePod
  <2>2. inst.uid = pod.uid
    OBVIOUS
  <2> HIDE DEF inst
  <2> QED BY <1>1, <1>2, <1>7, <2>1, <2>2
<1>8. ASSUME NEW p \in Pods, SyncCreate(p) \/ StatusCreate(p) PROVE ProvMoves(j)
  BY <1>7, <1>8 DEF SyncCreate, StatusCreate, SyncStep, StatusStep, Creating
<1>9. ASSUME NEW p \in Pods, SyncUpdate(p) PROVE ProvMoves(j)
  <2> DEFINE inst == [prov[p] EXCEPT !.spec = syncJob[p].inst.spec]
  <2>1. \/ UNCHANGED prov
        \/ prov[p] # NoInstance /\ prov' = [prov EXCEPT ![p] = inst]
    BY <1>9 DEF SyncUpdate, ProviderUpdatePod
  <2>2. inst.uid = prov[p].uid /\ inst.labelled = prov[p].labelled
    BY <1>0 DEF Instance
  <2> HIDE DEF inst
  <2> QED BY <1>1, <1>2, <2>1, <2>2
<1> QED BY <1>2, <1>3, <1>5, <1>6, <1>8, <1>9, ProvWriters

------------------------------------------------------------------------------
(* Who learns what.                                                        *)

\* No operation makes a key pending but one that adds this key.
LEMMA PendingOnly ==
    ASSUME NEW q \in Queue, NEW k \in Pods, NEW j \in Pods, NEW err
    PROVE  /\ j # k /\ Pending(Add(q, k), j) => Pending(q, j)
           /\ j # k /\ Pending(AddAfter(q, k), j) => Pending(q, j)
           /\ j # k /\ Pending(AddRateLimited(q, k), j) => Pending(q, j)
           /\ j # k /\ Pending(HandlerReturned(q, k, err), j) => Pending(q, j)
           /\ Pending(Forget(q, k), j) => Pending(q, j)
           /\ Pending(Get(q, k), j) => Pending(q, j)
           /\ (j # k \/ k \in q.waiting) /\ Pending(DelayElapsed(q, k), j) => Pending(q, j)
<1>1. \A r \in Queue : /\ j # k /\ Pending(Add(r, k), j) => Pending(r, j)
                       /\ j # k /\ Pending(AddAfter(r, k), j) => Pending(r, j)
                       /\ Pending(Forget(r, k), j) => Pending(r, j)
                       /\ Pending(Done(r, k), j) => Pending(r, j)
  BY DEF Pending, Add, AddAfter, Forget, Done, Queue
<1>2. j # k /\ Pending(AddRateLimited(q, k), j) => Pending(q, j)
  BY <1>1 DEF AddRateLimited, AddAfter, Pending, Queue
<1>3. j # k /\ Pending(HandlerReturned(q, k, err), j) => Pending(q, j)
  BY <1>1, <1>2, QueueOpsType DEF HandlerReturned
<1>4. Pending(Get(q, k), j) => Pending(q, j)
  BY DEF Pending, Get, Queue
<1>5. (j # k \/ k \in q.waiting) /\ Pending(DelayElapsed(q, k), j) => Pending(q, j)
  BY DEF Pending, DelayElapsed, Add, Queue
<1> QED BY <1>1, <1>2, <1>3, <1>4, <1>5

\* The informer's store holds what it held or what the API server has, but for a
\* new process, where it is empty.
LEMMA CacheStep ==
    ASSUME TypeOK, [Next]_vars, NEW j \in Pods
    PROVE  cache'[j] \in {cache[j], api[j]} \/ (Restart /\ cache'[j] = NoPod)
<1>1. CASE UNCHANGED cache
  BY <1>1
<1>2. CASE InformerList
  BY <1>2 DEF InformerList
<1>3. CASE Restart
  BY <1>3 DEF Restart, NothingCached
<1>4. ASSUME NEW p \in Pods, InformerWatch(p) PROVE cache'[j] \in {cache[j], api[j]}
  BY <1>4 DEF InformerWatch, TypeOK
<1>5. SUFFICES ASSUME ~InformerList, ~Restart, \A p \in Pods : ~InformerWatch(p)
               PROVE  UNCHANGED cache
  BY <1>1, <1>2, <1>3, <1>4
<1>6. CASE UNCHANGED vars
  BY <1>6 DEF vars, informerVars
<1>7. CASE Run \/ Stop
  BY <1>5, <1>7 DEF Run, Stop, ListProviderPods, MarkDangling, StartWorkers, DeleteDangling,
                    informerVars
<1>8. ASSUME NEW p \in Pods, \/ User(p) \/ ContainersProgress(p) \/ InformerResync(p)
                             \/ EventHandler(p) \/ SyncDelayElapsed(p) \/ DeleteDelayElapsed(p)
                             \/ StatusDelayElapsed(p)
      PROVE  UNCHANGED cache
  BY <1>8 DEF User, UserCreate, UserUpdate, UserDelete, UserForceDelete, ContainersProgress,
              InformerResync, EventHandler, AddFunc, DeleteFunc, UpdateFunc, NextEvent,
              SyncDelayElapsed, DeleteDelayElapsed, StatusDelayElapsed, informerVars
<1>9. ASSUME NEW p \in Pods, SyncWorker(p) \/ DeleteWorker(p) PROVE UNCHANGED cache
  BY <1>9 DEF SyncWorker, SyncTake, SyncStep, SyncDeleteMissing, SyncDeleteProviderPod,
              SyncGetPod, SyncCreate, SyncUpdate, DeleteWorker, DeleteTake, DeleteStep,
              DeleteDeletePod, DeleteDeleteProviderPod, informerVars
<1>10. ASSUME NEW p \in Pods, StatusWorker(p) PROVE UNCHANGED cache
  BY <1>10 DEF StatusWorker, StatusTake, StatusStep, StatusGetStatus, StatusGetCached,
               StatusCreate, StatusUpdateStatus, informerVars
<1> QED BY <1>5, <1>6, <1>7, <1>8, <1>9, <1>10 DEF Next

\* Only the sync worker, or a new process, changes what the sync worker does.
LEMMA SyncJobWriters ==
    [Next]_vars => UNCHANGED syncJob \/ Restart \/ \E p \in Pods : SyncWorker(p)
<1> SUFFICES ASSUME [Next]_vars, ~Restart, \A p \in Pods : ~SyncWorker(p)
             PROVE  UNCHANGED syncJob
  OBVIOUS
<1>1. CASE UNCHANGED vars
  BY <1>1 DEF vars, jobs
<1>2. CASE Run \/ Stop
  BY <1>2 DEF Run, Stop, InformerList, ListProviderPods, MarkDangling, StartWorkers,
              DeleteDangling, jobs
<1>3. ASSUME NEW p \in Pods, \/ User(p) \/ ContainersProgress(p) \/ InformerWatch(p)
                             \/ InformerResync(p) \/ EventHandler(p)
      PROVE  UNCHANGED syncJob
  BY <1>3 DEF User, UserCreate, UserUpdate, UserDelete, UserForceDelete, ContainersProgress,
              InformerWatch, InformerResync, EventHandler, AddFunc, DeleteFunc, UpdateFunc,
              NextEvent, jobs
<1>4. ASSUME NEW p \in Pods, \/ DeleteWorker(p) \/ StatusWorker(p) \/ SyncDelayElapsed(p)
                             \/ DeleteDelayElapsed(p) \/ StatusDelayElapsed(p)
      PROVE  UNCHANGED syncJob
  BY <1>4 DEF DeleteWorker, DeleteTake, DeleteStep, DeleteDeletePod, DeleteDeleteProviderPod,
              StatusWorker, StatusTake, StatusStep, StatusGetStatus, StatusGetCached,
              StatusCreate, StatusUpdateStatus, SyncDelayElapsed, DeleteDelayElapsed,
              StatusDelayElapsed, jobs
<1> QED BY <1>1, <1>2, <1>3, <1>4 DEF Next

\* The sync worker removes an instance because the lister has no pod or one that
\* is being deleted, and creates one from a pod the lister gave it.
SyncMoves(p) ==
    /\ syncJob'[p].at = "deleteMissing" =>
         syncJob[p].at = "deleteMissing" \/ (cache[p] = NoPod /\ Seen(p))
    /\ syncJob'[p].at = "deleteProviderPod" =>
         syncJob[p].at = "deleteProviderPod" \/ Deleting(cache[p])
    /\ syncJob'[p].at \in {"getPod", "create"} =>
         \/ syncJob[p].at \in {"getPod", "create"} /\ syncJob'[p].pod = syncJob[p].pod
         \/ cache[p] # NoPod /\ syncJob'[p].pod = cache[p]

\* Every step of every actor.
LEMMA SyncJobStep ==
    ASSUME TypeOK, [Next]_vars, NEW j \in Pods
    PROVE  SyncMoves(j)
<1>0. syncJob \in [Pods -> Job(SyncPoints)] /\ syncQ \in Queue
  BY DEF TypeOK
<1>1. CASE UNCHANGED syncJob
  BY <1>1 DEF SyncMoves
<1>2. CASE Restart
  BY <1>2 DEF Restart, AllIdle, Idle, SyncMoves
<1>3. ASSUME NEW p \in Pods, SyncWorker(p) PROVE SyncMoves(j)
  <2>1. ASSUME NEW job, syncJob' = [syncJob EXCEPT ![p] = job],
               j = p => \/ job.at \notin {"deleteMissing", "deleteProviderPod", "getPod", "create"}
                        \/ job.at = "deleteMissing" /\ cache[p] = NoPod /\ Seen(p)
                        \/ job.at = "deleteProviderPod" /\ Deleting(cache[p])
                        \/ /\ job.at \in {"getPod", "create"}
                           /\ \/ syncJob[p].at \in {"getPod", "create"} /\ job.pod = syncJob[p].pod
                              \/ cache[p] # NoPod /\ job.pod = cache[p]
        PROVE  SyncMoves(j)
    <3>1. CASE j # p
      BY <1>0, <2>1, <3>1 DEF SyncMoves
    <3>2. CASE j = p
      <4>1. syncJob'[j] = job
        BY <1>0, <2>1, <3>2
      <4> QED BY <2>1, <3>2, <4>1 DEF SyncMoves
    <3> QED BY <3>1, <3>2
  <2>2. ASSUME NEW q, NEW err, SyncReturns(q, p, err) PROVE SyncMoves(j)
    <3>1. Idle.at = "idle" /\ syncJob' = [syncJob EXCEPT ![p] = Idle]
      BY <2>2 DEF SyncReturns, Idle
    <3> QED BY <2>1, <3>1
  <2>3. CASE SyncTake(p)
    <3>1. Seen(p)
      BY <2>3 DEF SyncTake, CanTake, CanGet, Seen, Pending
    <3>2. CASE \E q, err : SyncReturns(q, p, err)
      BY <2>2, <3>2
    <3>3. CASE cache[p] = NoPod /\ SyncCalls(p, "deleteMissing", NoPod, NoInstance)
      BY <2>1, <3>1, <3>3 DEF SyncCalls
    <3>4. CASE Deleting(cache[p]) /\ SyncCalls(p, "deleteProviderPod", NoPod, NoInstance)
      BY <2>1, <3>4 DEF SyncCalls
    <3>5. CASE cache[p] # NoPod /\ SyncCalls(p, "getPod", cache[p], NoInstance)
      BY <2>1, <3>5 DEF SyncCalls
    <3> QED BY <2>3, <3>2, <3>3, <3>4, <3>5 DEF SyncTake
  <2>4. CASE SyncGetPod(p)
    <3>1. syncJob[p].at = "getPod"
      BY <2>4 DEF SyncGetPod, SyncStep
    <3>2. CASE SyncCalls(p, "create", syncJob[p].pod, NoInstance)
      BY <2>1, <3>1, <3>2 DEF SyncCalls
    <3>3. CASE \E inst : SyncCalls(p, "update", NoPod, inst)
      BY <2>1, <3>3 DEF SyncCalls
    <3> QED BY <2>4, <3>2, <3>3 DEF SyncGetPod
  <2>5. CASE SyncDeleteMissing(p) \/ SyncDeleteProviderPod(p) \/ SyncCreate(p) \/ SyncUpdate(p)
    BY <2>2, <2>5 DEF SyncDeleteMissing, SyncDeleteProviderPod, SyncCreate, SyncUpdate
  <2> QED BY <1>3, <2>3, <2>4, <2>5 DEF SyncWorker
<1> QED BY <1>1, <1>2, <1>3, SyncJobWriters

\* Only the status worker, or a new process, changes what the status worker does.
LEMMA StatusJobWriters ==
    [Next]_vars => UNCHANGED statusJob \/ Restart \/ \E p \in Pods : StatusWorker(p)
<1> SUFFICES ASSUME [Next]_vars, ~Restart, \A p \in Pods : ~StatusWorker(p)
             PROVE  UNCHANGED statusJob
  OBVIOUS
<1>1. CASE UNCHANGED vars
  BY <1>1 DEF vars, jobs
<1>2. CASE Run \/ Stop
  BY <1>2 DEF Run, Stop, InformerList, ListProviderPods, MarkDangling, StartWorkers,
              DeleteDangling, jobs
<1>3. ASSUME NEW p \in Pods, \/ User(p) \/ ContainersProgress(p) \/ InformerWatch(p)
                             \/ InformerResync(p) \/ EventHandler(p)
      PROVE  UNCHANGED statusJob
  BY <1>3 DEF User, UserCreate, UserUpdate, UserDelete, UserForceDelete, ContainersProgress,
              InformerWatch, InformerResync, EventHandler, AddFunc, DeleteFunc, UpdateFunc,
              NextEvent, jobs
<1>4. ASSUME NEW p \in Pods, \/ DeleteWorker(p) \/ SyncWorker(p) \/ SyncDelayElapsed(p)
                             \/ DeleteDelayElapsed(p) \/ StatusDelayElapsed(p)
      PROVE  UNCHANGED statusJob
  BY <1>4 DEF DeleteWorker, DeleteTake, DeleteStep, DeleteDeletePod, DeleteDeleteProviderPod,
              SyncWorker, SyncTake, SyncStep, SyncDeleteMissing, SyncDeleteProviderPod,
              SyncGetPod, SyncCreate, SyncUpdate, SyncDelayElapsed, DeleteDelayElapsed,
              StatusDelayElapsed, jobs
<1> QED BY <1>1, <1>2, <1>3, <1>4 DEF Next

\* The status worker works on a pod that the lister gave it.
StatusMoves(p) ==
    statusJob'[p].at # "idle" =>
        \/ statusJob[p].at # "idle" /\ statusJob'[p].pod = statusJob[p].pod
        \/ cache[p] # NoPod /\ statusJob'[p].pod = cache[p]

\* Every step of every actor.
LEMMA StatusJobStep ==
    ASSUME TypeOK, [Next]_vars, NEW j \in Pods
    PROVE  StatusMoves(j)
<1>0. statusJob \in [Pods -> Job(StatusPoints)]
  BY DEF TypeOK
<1>1. CASE UNCHANGED statusJob
  BY <1>1 DEF StatusMoves
<1>2. CASE Restart
  BY <1>2 DEF Restart, AllIdle, Idle, StatusMoves
<1>3. ASSUME NEW p \in Pods, StatusWorker(p) PROVE StatusMoves(j)
  <2>1. ASSUME NEW job, statusJob' = [statusJob EXCEPT ![p] = job],
               j = p => \/ job.at = "idle"
                        \/ statusJob[p].at # "idle" /\ job.pod = statusJob[p].pod
                        \/ cache[p] # NoPod /\ job.pod = cache[p]
        PROVE  StatusMoves(j)
    <3>1. CASE j # p
      BY <1>0, <2>1, <3>1 DEF StatusMoves
    <3>2. CASE j = p
      <4>1. statusJob'[j] = job
        BY <1>0, <2>1, <3>2
      <4> QED BY <2>1, <3>2, <4>1 DEF StatusMoves
    <3> QED BY <3>1, <3>2
  <2>2. ASSUME NEW q, NEW add, NEW err, StatusReturns(q, p, add, err) PROVE StatusMoves(j)
    <3>1. Idle.at = "idle" /\ statusJob' = [statusJob EXCEPT ![p] = Idle]
      BY <2>2 DEF StatusReturns, Idle
    <3> QED BY <2>1, <3>1
  <2>3. ASSUME NEW at, NEW pod, NEW inst, StatusCalls(p, at, pod, inst),
               \/ statusJob[p].at # "idle" /\ pod = statusJob[p].pod
               \/ cache[p] # NoPod /\ pod = cache[p]
        PROVE  StatusMoves(j)
    BY <2>1, <2>3 DEF StatusCalls
  <2>4. CASE StatusTake(p)
    BY <2>2, <2>3, <2>4 DEF StatusTake
  <2>5. CASE StatusGetStatus(p)
    <3>1. statusJob[p].at # "idle"
      BY <2>5 DEF StatusGetStatus, StatusStep
    <3> QED BY <2>2, <2>3, <2>5, <3>1 DEF StatusGetStatus
  <2>6. CASE StatusGetCached(p)
    BY <2>2, <2>3, <2>6 DEF StatusGetCached
  <2>7. CASE StatusCreate(p) \/ StatusUpdateStatus(p)
    BY <2>2, <2>7 DEF StatusCreate, StatusUpdateStatus
  <2> QED BY <1>3, <2>4, <2>5, <2>6, <2>7 DEF StatusWorker
<1> QED BY <1>1, <1>2, <1>3, StatusJobWriters

\* The deleting worker has p to do.
Doomed(p) == Pending(deleteQ, p) \/ deleteJob[p].at # "idle"

\* The deleting worker gets a pod to do because the sync worker has seen that it
\* is being deleted.
LEMMA DoomedStep ==
    ASSUME TypeOK, [Next]_vars, NEW j \in Pods, Doomed(j)'
    PROVE  Doomed(j) \/ Deleting(cache[j]) \/ syncJob[j].at = "deleteProviderPod"
<1>0. /\ deleteJob \in [Pods -> Job(DeletePoints)] /\ deleteQ \in Queue
      /\ \A p \in Pods : Get(deleteQ, p) \in Queue
  BY QueueOpsType DEF TypeOK
<1>1. CASE UNCHANGED <<deleteQ, deleteJob>>
  BY <1>1 DEF Doomed, Pending
<1>2. CASE Restart
  BY <1>2 DEF Restart, AllIdle, Idle, EmptyQueue, Doomed, Pending
<1>3. ASSUME NEW p \in Pods, DeleteFunc(p) PROVE Doomed(j)
  <2>1. deleteQ' \in {deleteQ, Forget(deleteQ, p)} /\ UNCHANGED deleteJob
    BY <1>3 DEF DeleteFunc, NextEvent, jobs
  <2> QED BY <1>0, <2>1, PendingOnly DEF Doomed, Pending
<1>4. ASSUME NEW p \in Pods, DeleteDelayElapsed(p) PROVE Doomed(j)
  <2>1. deleteQ' = DelayElapsed(deleteQ, p) /\ p \in deleteQ.waiting /\ UNCHANGED deleteJob
    BY <1>4 DEF DeleteDelayElapsed, jobs
  <2>2. Pending(deleteQ', j) => Pending(deleteQ, j)
    BY <1>0, <2>1, PendingOnly
  <2> QED BY <2>1, <2>2 DEF Doomed, Pending
<1>5. ASSUME NEW p \in Pods, SyncWorker(p)
      PROVE  Doomed(j) \/ Deleting(cache[j]) \/ syncJob[j].at = "deleteProviderPod"
  <2>1. UNCHANGED deleteJob
    BY <1>5 DEF SyncWorker, SyncTake, SyncStep, SyncDeleteMissing, SyncDeleteProviderPod,
                SyncGetPod, SyncCreate, SyncUpdate
  <2>2. \/ UNCHANGED deleteQ
        \/ deleteQ' = Add(deleteQ, p) /\ Finished(cache[p])
        \/ deleteQ' = AddAfter(deleteQ, p) /\ syncJob[p].at = "deleteProviderPod"
    BY <1>5 DEF SyncWorker, SyncTake, SyncStep, SyncDeleteMissing, SyncDeleteProviderPod,
                SyncGetPod, SyncCreate, SyncUpdate
  <2>3. CASE j = p
    BY <1>1, <2>1, <2>2, <2>3 DEF Finished
  <2>4. CASE j # p
    <3>1. Pending(deleteQ', j) => Pending(deleteQ, j)
      BY <1>0, <2>2, <2>4, PendingOnly
    <3> QED BY <2>1, <3>1 DEF Doomed, Pending
  <2> QED BY <2>3, <2>4
<1>6. ASSUME NEW p \in Pods, DeleteWorker(p) PROVE Doomed(j)
  <2>1. CASE j = p
    <3>1. Doomed(p)
      BY <1>6 DEF DeleteWorker, DeleteTake, DeleteStep, DeleteDeletePod, DeleteDeleteProviderPod,
                  CanTake, CanGet, Doomed, Pending
    <3> QED BY <2>1, <3>1
  <2>2. CASE j # p
    <3>1. PICK q \in {deleteQ, Get(deleteQ, p)} :
               \/ \E err : DeleteReturns(q, p, err)
               \/ \E at : DeleteCalls(p, at) /\ deleteQ' = q
      BY <1>6 DEF DeleteWorker, DeleteTake, DeleteDeletePod, DeleteDeleteProviderPod
    <3>2. deleteJob'[j] = deleteJob[j]
      BY <1>0, <2>2, <3>1 DEF DeleteReturns, DeleteCalls
    <3>3. Pending(q, j) => Pending(deleteQ, j)
      BY <1>0, PendingOnly
    <3>4. \A err : DeleteReturns(q, p, err) => (Pending(deleteQ', j) => Pending(q, j))
      BY <1>0, <2>2, PendingOnly DEF DeleteReturns
    <3>5. Pending(deleteQ', j) => Pending(deleteQ, j)
      BY <3>1, <3>3, <3>4 DEF Pending
    <3> QED BY <3>2, <3>5 DEF Doomed, Pending
  <2> QED BY <2>1, <2>2
<1>7. SUFFICES ASSUME ~Restart, \A p \in Pods : /\ ~DeleteFunc(p) /\ ~DeleteDelayElapsed(p)
                                               /\ ~SyncWorker(p) /\ ~DeleteWorker(p)
               PROVE  UNCHANGED <<deleteQ, deleteJob>>
  BY <1>1, <1>2, <1>3, <1>4, <1>5, <1>6
<1>8. CASE UNCHANGED vars
  BY <1>8 DEF vars, queues, jobs
<1>9. CASE Run \/ Stop
  BY <1>9 DEF Run, Stop, InformerList, ListProviderPods, MarkDangling, StartWorkers,
              DeleteDangling, queues, jobs
<1>10. ASSUME NEW p \in Pods, \/ User(p) \/ ContainersProgress(p) \/ InformerWatch(p)
                              \/ InformerResync(p) \/ AddFunc(p) \/ UpdateFunc(p)
       PROVE  UNCHANGED <<deleteQ, deleteJob>>
  BY <1>10 DEF User, UserCreate, UserUpdate, UserDelete, UserForceDelete, ContainersProgress,
               InformerWatch, InformerResync, AddFunc, UpdateFunc, NextEvent, queues, jobs
<1>11. ASSUME NEW p \in Pods, StatusWorker(p) \/ SyncDelayElapsed(p) \/ StatusDelayElapsed(p)
       PROVE  UNCHANGED <<deleteQ, deleteJob>>
  BY <1>11 DEF StatusWorker, StatusTake, StatusStep, StatusGetStatus, StatusGetCached,
               StatusCreate, StatusUpdateStatus, SyncDelayElapsed, StatusDelayElapsed, jobs
<1> QED BY <1>7, <1>8, <1>9, <1>10, <1>11 DEF Next, EventHandler

\* The controller has heard of a pod that is not in the informer's store: the
\* store held the pod before, or the step is the informer's and finds it gone.
LEMMA SeenStep ==
    ASSUME TypeOK, [Next]_vars, NEW j \in Pods, Seen(j)', cache'[j] = NoPod
    PROVE  \/ cache[j] = NoPod /\ Seen(j)
           \/ cache[j] # NoPod /\ api[j] = NoPod
<1>0. /\ syncQ \in Queue /\ \A p \in Pods : Get(syncQ, p) \in Queue
      /\ syncJob \in [Pods -> Job(SyncPoints)]
      /\ events \in [Pods -> Seq([old: Pod, new: Pod])] /\ cache \in [Pods -> Pod]
  BY QueueOpsType DEF TypeOK
<1>1. ASSUME Seen(j), cache'[j] = cache[j] PROVE cache[j] = NoPod /\ Seen(j)
  BY <1>1
<1>2. ASSUME UNCHANGED <<cache, syncJob>>, events'[j] = events[j],
             Pending(syncQ', j) => Pending(syncQ, j)
      PROVE  cache[j] = NoPod /\ Seen(j)
  BY <1>2 DEF Seen
<1>3. CASE Restart
  BY <1>3 DEF Restart, AllIdle, Idle, EmptyQueue, NoEvents, Seen, Pending
<1>4. CASE InformerList
  <2>1. UNCHANGED <<syncQ, syncJob>> /\ cache' = api
    BY <1>4 DEF InformerList, queues, jobs
  <2>2. events'[j] = <<>>
    BY <1>4, <2>1 DEF InformerList
  <2>3. Seen(j)
    BY <2>1, <2>2 DEF Seen, Pending
  <2> QED BY <2>1, <2>3
<1>5. ASSUME NEW p \in Pods, InformerWatch(p)
      PROVE  \/ cache[j] = NoPod /\ Seen(j)
             \/ cache[j] # NoPod /\ api[j] = NoPod
  <2>1. UNCHANGED <<syncQ, syncJob>>
    BY <1>5 DEF InformerWatch, queues, jobs
  <2>2. CASE j = p
    <3>1. cache'[j] = api[j] /\ ~SameVersion(api[j], cache[j])
      BY <1>0, <1>5, <2>2 DEF InformerWatch
    <3> QED BY <3>1 DEF SameVersion
  <2>3. CASE j # p
    <3>1. cache'[j] = cache[j] /\ events'[j] = events[j]
      BY <1>0, <1>5, <2>3 DEF InformerWatch
    <3> QED BY <2>1, <3>1 DEF Seen, Pending
  <2> QED BY <2>2, <2>3
<1>6. ASSUME NEW p \in Pods, InformerResync(p) PROVE cache[j] = NoPod /\ Seen(j)
  <2>1. /\ UNCHANGED <<syncQ, syncJob, cache>> /\ cache[p] # NoPod
        /\ j # p => events'[j] = events[j]
    BY <1>0, <1>6 DEF InformerResync, queues, jobs
  <2> QED BY <1>2, <2>1 DEF Pending
<1>7. ASSUME NEW p \in Pods, EventHandler(p) PROVE cache[j] = NoPod /\ Seen(j)
  <2>1. /\ UNCHANGED <<cache, syncJob>> /\ events[p] # <<>>
        /\ j # p => events'[j] = events[j]
        /\ syncQ' \in {syncQ, AddRateLimited(syncQ, p)}
    BY <1>0, <1>7 DEF EventHandler, AddFunc, DeleteFunc, UpdateFunc, NextEvent, queues, jobs
  <2>2. CASE j = p
    BY <1>1, <2>1, <2>2 DEF Seen
  <2>3. CASE j # p
    BY <1>0, <1>2, <2>1, <2>3, PendingOnly
  <2> QED BY <2>2, <2>3
<1>8. ASSUME NEW p \in Pods, SyncWorker(p) PROVE cache[j] = NoPod /\ Seen(j)
  <2>1. UNCHANGED <<cache, events>>
    BY <1>8 DEF SyncWorker, SyncTake, SyncStep, SyncDeleteMissing, SyncDeleteProviderPod,
                SyncGetPod, SyncCreate, SyncUpdate, informerVars
  <2>2. CASE j = p
    <3>1. Seen(p)
      BY <1>8 DEF SyncWorker, SyncTake, CanTake, CanGet, SyncStep, SyncDeleteMissing,
                  SyncDeleteProviderPod, SyncGetPod, SyncCreate, SyncUpdate, Seen, Pending
    <3> QED BY <1>1, <2>1, <2>2, <3>1
  <2>3. CASE j # p
    <3>1. PICK q \in {syncQ, Get(syncQ, p)} :
               \/ \E err : SyncReturns(q, p, err)
               \/ \E at, pod, inst : SyncCalls(p, at, pod, inst) /\ syncQ' = q
      BY <1>8 DEF SyncWorker, SyncTake, SyncDeleteMissing, SyncDeleteProviderPod, SyncGetPod,
                  SyncCreate, SyncUpdate
    <3>2. syncJob'[j] = syncJob[j]
      BY <1>0, <2>3, <3>1 DEF SyncReturns, SyncCalls
    <3>3. Pending(q, j) => Pending(syncQ, j)
      BY <1>0, PendingOnly
    <3>4. \A err : SyncReturns(q, p, err) => (Pending(syncQ', j) => Pending(q, j))
      BY <1>0, <2>3, PendingOnly DEF SyncReturns
    <3>5. Pending(syncQ', j) => Pending(syncQ, j)
      BY <3>1, <3>3, <3>4 DEF Pending
    <3> QED BY <2>1, <3>2, <3>5 DEF Seen
  <2> QED BY <2>2, <2>3
<1>9. ASSUME NEW p \in Pods, SyncDelayElapsed(p) PROVE cache[j] = NoPod /\ Seen(j)
  <2>1. /\ UNCHANGED <<cache, events, syncJob>>
        /\ syncQ' = DelayElapsed(syncQ, p) /\ p \in syncQ.waiting
    BY <1>9 DEF SyncDelayElapsed, informerVars, jobs
  <2>2. Pending(syncQ', j) => Pending(syncQ, j)
    BY <1>0, <2>1, PendingOnly
  <2> QED BY <1>2, <2>1, <2>2
<1>10. SUFFICES ASSUME ~Restart, ~InformerList,
                       \A p \in Pods : /\ ~InformerWatch(p) /\ ~InformerResync(p)
                                       /\ ~EventHandler(p) /\ ~SyncWorker(p)
                                       /\ ~SyncDelayElapsed(p)
                PROVE  UNCHANGED <<cache, events, syncJob, syncQ>>
  BY <1>2, <1>3, <1>4, <1>5, <1>6, <1>7, <1>8, <1>9 DEF Pending
<1>11. CASE UNCHANGED vars
  BY <1>11 DEF vars, informerVars, queues, jobs
<1>12. CASE Run \/ Stop
  BY <1>10, <1>12 DEF Run, Stop, ListProviderPods, MarkDangling, StartWorkers, DeleteDangling,
                      informerVars, queues, jobs
<1>13. ASSUME NEW p \in Pods, \/ User(p) \/ ContainersProgress(p) \/ DeleteDelayElapsed(p)
                              \/ StatusDelayElapsed(p)
       PROVE  UNCHANGED <<cache, events, syncJob, syncQ>>
  BY <1>13 DEF User, UserCreate, UserUpdate, UserDelete, UserForceDelete, ContainersProgress,
               DeleteDelayElapsed, StatusDelayElapsed, informerVars, queues, jobs
<1>14. ASSUME NEW p \in Pods, DeleteWorker(p) \/ StatusWorker(p)
       PROVE  UNCHANGED <<cache, events, syncJob, syncQ>>
  BY <1>14 DEF DeleteWorker, DeleteTake, DeleteStep, DeleteDeletePod, DeleteDeleteProviderPod,
               StatusWorker, StatusTake, StatusStep, StatusGetStatus, StatusGetCached,
               StatusCreate, StatusUpdateStatus, informerVars
<1> QED BY <1>10, <1>11, <1>12, <1>13, <1>14 DEF Next

------------------------------------------------------------------------------
(* The invariants are inductive.                                           *)

\* Numbers only grow, and copies are made of what is there.
LEMMA UidsKnownStep ==
    ASSUME TypeOK, UidsKnown, [Next]_vars
    PROVE  UidsKnown'
<1> SUFFICES ASSUME NEW p \in Pods
             PROVE  /\ uids'[p] >= 1
                    /\ PodKnown(p, api[p])' /\ PodKnown(p, cache[p])'
                    /\ syncJob'[p].at \in {"getPod", "create"} => Given(p, syncJob[p].pod.uid)'
                    /\ statusJob'[p].at # "idle" => Given(p, statusJob[p].pod.uid)'
                    /\ prov'[p] # NoInstance => prov'[p].uid \in 1..uids'[p]
  BY DEF UidsKnown
<1>0. uids[p] \in Nat /\ uids[p] >= 1 /\ PodKnown(p, api[p]) /\ PodKnown(p, cache[p])
  BY DEF UidsKnown, TypeOK
<1>1. uids'[p] \in Nat /\ uids'[p] >= uids[p]
  <2>1. CASE UserCreate(p)
    BY <1>0, <2>1 DEF UserCreate, TypeOK
  <2> QED BY <1>0, <2>1, ApiStep DEF ApiMoves
<1>2. \A uid : Given(p, uid) => Given(p, uid)'
  BY <1>0, <1>1 DEF Given
<1>3. \A pod : PodKnown(p, pod) => (pod = NoPod \/ Given(p, pod.uid)')
  BY <1>2 DEF PodKnown
<1>4. PodKnown(p, api[p])'
  <2>1. CASE UserCreate(p)
    <3>1. api'[p].uid = uids[p] + 1 /\ uids'[p] = uids[p] + 1
      BY <2>1 DEF UserCreate, TypeOK
    <3> QED BY <1>0, <3>1 DEF PodKnown, Given
  <2>2. CASE api'[p] = NoPod
    BY <2>2 DEF PodKnown
  <2>3. CASE api[p] # NoPod /\ api'[p].uid = api[p].uid
    <3>1. Given(p, api[p].uid)
      BY <1>0, <2>3 DEF PodKnown
    <3>2. api'[p].uid \in 2..uids'[p]
      BY <1>0, <1>1, <2>3, <3>1 DEF Given
    <3> QED BY <3>2 DEF PodKnown, Given
  <2> QED BY <2>1, <2>2, <2>3, ApiStep DEF ApiMoves
<1>5. PodKnown(p, cache[p])'
  <2>1. cache'[p] \in {cache[p], api[p], NoPod}
    BY CacheStep
  <2> QED BY <1>0, <1>3, <2>1 DEF PodKnown, Given
<1>6. ASSUME syncJob'[p].at \in {"getPod", "create"} PROVE Given(p, syncJob[p].pod.uid)'
  <2>1. Given(p, syncJob'[p].pod.uid)
    BY <1>0, <1>6, SyncJobStep DEF SyncMoves, UidsKnown, PodKnown
  <2> QED BY <1>0, <1>1, <2>1 DEF Given
<1>7. ASSUME statusJob'[p].at # "idle" PROVE Given(p, statusJob[p].pod.uid)'
  <2>1. Given(p, statusJob'[p].pod.uid)
    BY <1>0, <1>7, StatusJobStep DEF StatusMoves, UidsKnown, PodKnown
  <2> QED BY <1>0, <1>1, <2>1 DEF Given
<1>8. ASSUME prov'[p] # NoInstance PROVE prov'[p].uid \in 1..uids'[p]
  <2>1. \A uid : Creating(p, uid) => Given(p, uid)
    BY DEF Creating, UidsKnown
  <2>2. prov'[p].uid \in 1..uids[p]
    BY <1>0, <1>8, <2>1, ProvStep DEF ProvMoves, UidsKnown, Given
  <2> QED BY <1>0, <1>1, <2>2
<1> QED BY <1>0, <1>1, <1>4, <1>5, <1>6, <1>7, <1>8

\* Nothing is known of the first pod of a name but what stays true: it is gone,
\* or on its way.
LEMMA OverKnownStep ==
    ASSUME TypeOK, UidsKnown, OverKnown, [Next]_vars
    PROVE  OverKnown'
<1> SUFFICES ASSUME NEW p \in Pods, uids'[p] <= 2
             PROVE  /\ Deleting(cache[p])' => Over(p)'
                    /\ cache'[p] = NoPod /\ Seen(p)' => Over(p)'
                    /\ syncJob'[p].at \in {"deleteMissing", "deleteProviderPod"} => Over(p)'
                    /\ Doomed(p)' => Over(p)'
  BY DEF OverKnown, Doomed
<1>0. /\ uids[p] \in Nat /\ uids[p] >= 1 /\ PodKnown(p, api[p]) /\ PodKnown(p, cache[p])
      /\ api[p] \in Pod
  BY DEF UidsKnown, TypeOK
<1>1. uids[p] <= 2 /\ (UserCreate(p) => uids[p] = 1)
  <2>1. CASE UserCreate(p)
    <3>1. uids'[p] = uids[p] + 1
      BY <2>1 DEF UserCreate, TypeOK
    <3> QED BY <1>0, <3>1
  <2> QED BY <1>0, <2>1, ApiStep DEF ApiMoves
<1>2. ASSUME Over(p) PROVE Over(p)'
  <2>1. ~UserCreate(p)
    BY <1>1, <1>2 DEF Over
  <2>2. uids'[p] = 2
    BY <1>2, <2>1, ApiStep DEF ApiMoves, Over
  <2>3. api'[p] = NoPod \/ api'[p].deletionTimestamp # 0
    BY <1>2, <2>1, ApiStep DEF ApiMoves, Over, Deleting
  <2> QED BY <2>2, <2>3 DEF Over, Deleting
<1>3. ~Deleting(NoPod)
  BY DEF Deleting, NoPod
<1>4. \A pod : PodKnown(p, pod) /\ pod # NoPod => uids[p] = 2
  BY <1>0, <1>1 DEF PodKnown, Given
<1>5. Deleting(api[p]) => Over(p)
  BY <1>0, <1>3, <1>4 DEF Over
<1>6. cache[p] # NoPod /\ api[p] = NoPod => Over(p)
  BY <1>0, <1>4 DEF Over
<1>7. /\ Deleting(cache[p]) => Over(p)
      /\ cache[p] = NoPod /\ Seen(p) => Over(p)
      /\ syncJob[p].at \in {"deleteMissing", "deleteProviderPod"} => Over(p)
      /\ Doomed(p) => Over(p)
  BY <1>1 DEF OverKnown, Doomed
<1>8. ASSUME Deleting(cache[p])' PROVE Over(p)'
  <2>1. cache'[p] \in {cache[p], api[p], NoPod} /\ Deleting(cache'[p])
    BY <1>8, CacheStep DEF Deleting
  <2> QED BY <1>2, <1>3, <1>5, <1>7, <2>1
<1>9. ASSUME cache'[p] = NoPod, Seen(p)' PROVE Over(p)'
  BY <1>2, <1>6, <1>7, <1>9, SeenStep
<1>10. ASSUME syncJob'[p].at \in {"deleteMissing", "deleteProviderPod"} PROVE Over(p)'
  BY <1>2, <1>7, <1>10, SyncJobStep DEF SyncMoves
<1>11. ASSUME Doomed(p)' PROVE Over(p)'
  BY <1>2, <1>7, <1>11, DoomedStep
<1> QED BY <1>8, <1>9, <1>10, <1>11

\* The workers work once they have been started, and leave Run's state alone.
LEMMA WorkersStep ==
    ASSUME WorkersWait, NEW p \in Pods, SyncWorker(p) \/ DeleteWorker(p) \/ StatusWorker(p)
    PROVE  WorkersUp /\ UNCHANGED runVars
<1>1. CASE SyncTake(p) \/ DeleteTake(p) \/ StatusTake(p)
  BY <1>1 DEF SyncTake, DeleteTake, StatusTake, CanTake
<1>2. CASE SyncWorker(p) /\ ~SyncTake(p)
  BY <1>2 DEF SyncWorker, SyncStep, SyncDeleteMissing, SyncDeleteProviderPod, SyncGetPod,
              SyncCreate, SyncUpdate, WorkersWait
<1>3. CASE DeleteWorker(p) /\ ~DeleteTake(p)
  BY <1>3 DEF DeleteWorker, DeleteStep, DeleteDeletePod, DeleteDeleteProviderPod, WorkersWait
<1>4. CASE StatusWorker(p) /\ ~StatusTake(p)
  BY <1>4 DEF StatusWorker, StatusStep, StatusGetStatus, StatusGetCached, StatusCreate,
              StatusUpdateStatus, WorkersWait
<1> QED BY <1>1, <1>2, <1>3, <1>4

\* Apart from the workers and a new process, no job is begun or ended, and only
\* Run and its end change how far Run has come.
LEMMA OthersStep ==
    ASSUME [Next]_vars, ~Restart,
           \A p \in Pods : ~SyncWorker(p) /\ ~DeleteWorker(p) /\ ~StatusWorker(p)
    PROVE  UNCHANGED jobs /\ (UNCHANGED runVars \/ Run \/ Stop)
<1>1. CASE UNCHANGED vars
  BY <1>1 DEF vars
<1>2. CASE Run \/ Stop
  BY <1>2 DEF Run, Stop, InformerList, ListProviderPods, MarkDangling, StartWorkers,
              DeleteDangling
<1>3. ASSUME NEW p \in Pods, \/ User(p) \/ ContainersProgress(p) \/ InformerWatch(p)
                             \/ InformerResync(p) \/ EventHandler(p)
      PROVE  UNCHANGED <<jobs, runVars>>
  BY <1>3 DEF User, UserCreate, UserUpdate, UserDelete, UserForceDelete, ContainersProgress,
              InformerWatch, InformerResync, EventHandler, AddFunc, DeleteFunc, UpdateFunc,
              NextEvent
<1>4. ASSUME NEW p \in Pods, \/ SyncDelayElapsed(p) \/ DeleteDelayElapsed(p)
                             \/ StatusDelayElapsed(p)
      PROVE  UNCHANGED <<jobs, runVars>>
  BY <1>4 DEF SyncDelayElapsed, DeleteDelayElapsed, StatusDelayElapsed
<1> QED BY <1>1, <1>2, <1>3, <1>4 DEF Next

\* Run starts the workers last, and nothing but the end of the process stops them.
LEMMA WorkersWaitStep ==
    ASSUME TypeOK, WorkersWait, [Next]_vars
    PROVE  WorkersWait'
<1>1. CASE Restart
  BY <1>1 DEF Restart, AllIdle, Idle, WorkersWait
<1>2. ASSUME NEW p \in Pods, SyncWorker(p) \/ DeleteWorker(p) \/ StatusWorker(p)
      PROVE  WorkersWait'
  BY <1>2, WorkersStep DEF runVars, WorkersUp, WorkersWait
<1>3. CASE /\ UNCHANGED jobs /\ (UNCHANGED runVars \/ Run \/ Stop)
  <2>1. ~WorkersUp' => ~WorkersUp
    BY <1>3 DEF runVars, WorkersUp, Run, Stop, InformerList, ListProviderPods, MarkDangling,
                StartWorkers, DeleteDangling
  <2> QED BY <1>3, <2>1 DEF jobs, WorkersWait
<1> QED BY <1>1, <1>2, <1>3, OthersStep

\* How Run comes on.
RunMoves ==
    \/ UNCHANGED runVars
    \/ phase = "syncing" /\ phase' = "listing" /\ UNCHANGED dangling
    \/ /\ phase = "listing"
       /\ \/ phase' = "checking"
          \/ phase' = "deleting" /\ dangling' = {}
    \/ /\ phase = "checking" /\ phase' = "deleting"
       /\ dangling' = {p \in dangling : cache[p] = NoPod}
    \/ phase = "deleting" /\ phase' = "deleting" /\ dangling' \subseteq dangling
    \/ phase' \in {"running", "stopped"} /\ UNCHANGED dangling
    \/ phase' = "syncing"

\* Every step of every actor.
LEMMA RunStep ==
    ASSUME WorkersWait, [Next]_vars
    PROVE  RunMoves
<1>1. CASE Restart
  BY <1>1 DEF Restart, RunMoves
<1>2. ASSUME NEW p \in Pods, SyncWorker(p) \/ DeleteWorker(p) \/ StatusWorker(p)
      PROVE  RunMoves
  BY <1>2, WorkersStep DEF RunMoves
<1>3. CASE UNCHANGED runVars \/ Run \/ Stop
  BY <1>3 DEF runVars, Run, Stop, InformerList, ListProviderPods, MarkDangling, StartWorkers,
              DeleteDangling, RunMoves
<1> QED BY <1>1, <1>2, <1>3, OthersStep

\* Until the workers start, an instance whose pod is not there stays without one:
\* who takes the name again gets another number.
LEMMA SparesLiveStep ==
    ASSUME TypeOK, UidsKnown, WorkersWait, SparesLive, [Next]_vars
    PROVE  SparesLive'
<1> SUFFICES ASSUME NEW p \in Pods
             PROVE  /\ phase' \in {"listing", "checking"} /\ cache'[p] = NoPod => Dangles(p)'
                    /\ phase' = "deleting" /\ p \in dangling' => Dangles(p)'
  BY DEF SparesLive
<1>0. /\ uids[p] \in Nat /\ prov[p] \in Instance /\ api[p] \in Pod
      /\ prov[p] # NoInstance => prov[p].uid \in 1..uids[p]
  BY DEF UidsKnown, TypeOK
<1>1. ASSUME ~WorkersUp, Dangles(p) PROVE Dangles(p)'
  <2>1. ~\E uid : Creating(p, uid)
    BY <1>1 DEF WorkersWait, Creating
  <2>2. \/ prov'[p] = NoInstance
        \/ prov[p] # NoInstance /\ prov'[p].uid = prov[p].uid
    BY <2>1, ProvStep DEF ProvMoves
  <2>3. ASSUME prov[p] # NoInstance PROVE prov[p].uid # api'[p].uid
    <3>1. CASE UserCreate(p)
      <4>1. api'[p].uid = uids[p] + 1
        BY <3>1 DEF UserCreate, TypeOK
      <4> QED BY <1>0, <2>3, <4>1
    <3>2. CASE api'[p] = NoPod
      BY <1>0, <2>3, <3>2 DEF NoPod
    <3>3. CASE api'[p].uid = api[p].uid
      BY <1>1, <2>3, <3>3 DEF Dangles
    <3> QED BY <3>1, <3>2, <3>3, ApiStep DEF ApiMoves
  <2> QED BY <2>2, <2>3 DEF Dangles
<1>2. api[p] = NoPod => Dangles(p)
  BY <1>0 DEF Dangles, NoPod
<1>3. ASSUME phase' \in {"listing", "checking"}, cache'[p] = NoPod PROVE Dangles(p)'
  <2>1. ~Restart
    BY <1>3 DEF Restart
  <2>2. cache'[p] = cache[p] \/ api[p] = NoPod
    BY <1>3, <2>1, CacheStep
  <2>3. /\ phase \in {"syncing", "listing", "checking"}
        /\ phase = "syncing" => InformerList
    <3>1. phase \in {"syncing", "listing", "checking"}
      BY <1>3, RunStep DEF RunMoves, runVars
    <3>2. ASSUME phase = "syncing" PROVE InformerList
      <4>1. \A k \in Pods : ~SyncWorker(k) /\ ~DeleteWorker(k) /\ ~StatusWorker(k)
        BY <3>2, WorkersStep DEF WorkersUp
      <4> QED BY <1>3, <2>1, <3>2, <4>1, OthersStep
              DEF runVars, Run, Stop, ListProviderPods, MarkDangling, StartWorkers, DeleteDangling
    <3> QED BY <3>1, <3>2
  <2>4. phase = "syncing" => api[p] = NoPod
    BY <1>3, <2>3 DEF InformerList
  <2>5. Dangles(p)
    BY <1>2, <1>3, <2>2, <2>3, <2>4 DEF SparesLive
  <2> QED BY <1>1, <2>3, <2>5 DEF WorkersUp
<1>4. ASSUME phase' = "deleting", p \in dangling' PROVE Dangles(p)'
  <2>1. /\ phase \in {"listing", "checking", "deleting"}
        /\ Dangles(p)
    BY <1>4, RunStep DEF RunMoves, runVars, SparesLive
  <2> QED BY <1>1, <2>1 DEF WorkersUp
<1> QED BY <1>3, <1>4

\* Faults are counted.
LEMMA FaultsStep ==
    ASSUME TypeOK, [Next]_vars, faults' = 0
    PROVE  faults = 0
<1>0. faults \in Nat
  BY DEF TypeOK
<1>1. ASSUME Works \/ Fails PROVE faults = 0
  BY <1>0, <1>1 DEF Works, Fails
<1>2. ASSUME NEW p \in Pods, SyncWorker(p) PROVE faults = 0
  BY <1>1, <1>2 DEF SyncWorker, SyncTake, SyncDeleteMissing, SyncDeleteProviderPod, SyncGetPod,
                    SyncCreate, SyncUpdate, ProviderDeletePod, ProviderGet, ProviderCreatePod,
                    ProviderUpdatePod, envVars
<1>3. ASSUME NEW p \in Pods, DeleteWorker(p) PROVE faults = 0
  BY <1>1, <1>3 DEF DeleteWorker, DeleteTake, DeleteDeletePod, DeleteDeleteProviderPod,
                    ApiDeletePod, ProviderDeletePod, envVars
<1>4. ASSUME NEW p \in Pods, StatusWorker(p) PROVE faults = 0
  BY <1>1, <1>4 DEF StatusWorker, StatusTake, StatusGetStatus, StatusGetCached, StatusCreate,
                    StatusUpdateStatus, ProviderGet, ProviderCreatePod, ApiUpdateStatus, envVars
<1>5. CASE Run \/ Stop \/ Restart
  BY <1>1, <1>5 DEF Run, Stop, Restart, InformerList, ListProviderPods, MarkDangling,
                    StartWorkers, DeleteDangling, ProviderDeletePod, envVars
<1>6. CASE UNCHANGED vars
  BY <1>6 DEF vars, envVars
<1>7. ASSUME NEW p \in Pods, \/ User(p) \/ ContainersProgress(p) \/ InformerWatch(p)
                             \/ InformerResync(p) \/ EventHandler(p) \/ SyncDelayElapsed(p)
                             \/ DeleteDelayElapsed(p) \/ StatusDelayElapsed(p)
      PROVE  faults = 0
  BY <1>7 DEF User, UserCreate, UserUpdate, UserDelete, UserForceDelete, ContainersProgress,
              InformerWatch, InformerResync, EventHandler, AddFunc, DeleteFunc, UpdateFunc,
              NextEvent, SyncDelayElapsed, DeleteDelayElapsed, StatusDelayElapsed, envVars
<1> QED BY <1>2, <1>3, <1>4, <1>5, <1>6, <1>7 DEF Next

\* The list is made of everything labelled, keeps what the lister does not know,
\* and loses what the provider has removed.
LEMMA LeftoversListedStep ==
    ASSUME TypeOK, UidsKnown, WorkersWait, LeftoversListed, [Next]_vars
    PROVE  LeftoversListed'
<1> SUFFICES ASSUME faults' = 0, NEW p \in Pods,
                    prov'[p].uid = 1, prov'[p].labelled, uids'[p] = 1
             PROVE  \/ phase' \in {"syncing", "listing"}
                    \/ phase' \in {"checking", "deleting"} /\ p \in dangling'
  BY DEF LeftoversListed
<1>0. /\ uids[p] \in Nat /\ uids[p] >= 1 /\ prov[p] \in Instance /\ faults = 0
      /\ PodKnown(p, cache[p])
  BY FaultsStep DEF UidsKnown, TypeOK
<1>1. uids[p] = 1
  <2>1. CASE UserCreate(p)
    BY <1>0, <2>1 DEF UserCreate, TypeOK
  <2> QED BY <1>0, <2>1, ApiStep DEF ApiMoves
<1>2. cache[p] = NoPod
  BY <1>0, <1>1 DEF PodKnown, Given
<1>3. prov[p].uid = 1 /\ prov[p].labelled
  <2>1. \A uid : Creating(p, uid) => Given(p, uid)
    BY DEF Creating, UidsKnown
  <2>2. ~Creating(p, prov'[p].uid)
    BY <1>1, <2>1 DEF Given
  <2>3. prov'[p] # NoInstance
    BY DEF NoInstance
  <2> QED BY <2>2, <2>3, ProvStep DEF ProvMoves
<1>4. \/ phase \in {"syncing", "listing"}
      \/ phase \in {"checking", "deleting"} /\ p \in dangling
  BY <1>0, <1>1, <1>3 DEF LeftoversListed
<1>5. CASE UNCHANGED runVars \/ Restart
  BY <1>4, <1>5 DEF runVars, Restart
<1>6. CASE InformerList \/ MarkDangling \/ StartWorkers \/ Stop
  BY <1>2, <1>4, <1>6 DEF InformerList, MarkDangling, StartWorkers, Stop
<1>7. CASE ListProviderPods
  <2>1. ~Fails
    BY <1>0 DEF Fails
  <2>2. prov[p] # NoInstance
    BY <1>3 DEF NoInstance
  <2> QED BY <1>3, <1>7, <2>1, <2>2 DEF ListProviderPods
<1>8. ASSUME NEW k \in Pods, DeleteDangling(k) PROVE phase' = "deleting" /\ p \in dangling'
  <2>1. k # p
    <3>1. prov'[p] # NoInstance /\ prov[p] # NoInstance /\ ~Fails /\ prov \in [Pods -> Instance]
      BY <1>0, <1>3 DEF NoInstance, Fails, TypeOK
    <3>2. ~\E result : ProviderDeletePod(p, result)
      BY <3>1 DEF ProviderDeletePod
    <3> QED BY <1>8, <3>2 DEF DeleteDangling
  <2> QED BY <1>4, <1>8, <2>1 DEF DeleteDangling
<1>9. ~WorkersUp
  BY <1>4 DEF WorkersUp
<1> QED BY <1>5, <1>6, <1>7, <1>8, <1>9, OthersStep, WorkersStep DEF Run

\* The invariants hold from the start.
LEMMA InvInit == Init => Inv /\ LeftoversListed
<1> SUFFICES ASSUME Init PROVE Inv /\ LeftoversListed
  OBVIOUS
<1>1. TypeOK
  BY InitTypeOK
<1>2. \A p \in Pods : /\ uids[p] = 1 /\ api[p] = NoPod /\ cache[p] = NoPod
                      /\ syncJob[p].at = "idle" /\ deleteJob[p].at = "idle"
                      /\ statusJob[p].at = "idle" /\ events[p] = <<>>
  BY DEF Init, NothingCached, NoEvents, AllIdle, Idle
<1>3. \A p \in Pods : prov[p] # NoInstance => prov[p].uid = 1
  BY ControllerAssumption DEF Init
<1>4. phase = "syncing" /\ ~Deleting(NoPod) /\ \A p \in Pods : ~Pending(syncQ, p) /\ ~Pending(deleteQ, p)
  BY DEF Init, Deleting, NoPod, EmptyQueue, Pending
<1>5. UidsKnown
  <2> SUFFICES ASSUME NEW p \in Pods
               PROVE  /\ uids[p] >= 1
                      /\ PodKnown(p, api[p]) /\ PodKnown(p, cache[p])
                      /\ syncJob[p].at \notin {"getPod", "create"} /\ statusJob[p].at = "idle"
                      /\ prov[p] # NoInstance => prov[p].uid \in 1..uids[p]
    BY DEF UidsKnown
  <2>1. prov[p] # NoInstance => prov[p].uid \in 1..uids[p]
    BY <1>2, <1>3
  <2> QED BY <1>2, <2>1 DEF PodKnown
<1>6. WorkersWait /\ SparesLive /\ LeftoversListed
  BY <1>2, <1>4 DEF WorkersWait, SparesLive, LeftoversListed
<1>7. OverKnown
  BY <1>2, <1>4 DEF OverKnown, Seen
<1> QED BY <1>1, <1>5, <1>6, <1>7 DEF Inv

\* And every step keeps them.
LEMMA InvStep == Inv /\ [Next]_vars => Inv'
  BY TypeStep, UidsKnownStep, WorkersWaitStep, SparesLiveStep, OverKnownStep DEF Inv

------------------------------------------------------------------------------
(* What follows.                                                           *)

\* deleteDanglingPods' two snapshots are enough (pod.go:294-305 and 597-637): at
\* no moment of the start-up can what it removes be the instance of a pod that is
\* there, whatever users do in the meantime and however often the process starts.
THEOREM DanglingSafe == Spec => DanglingSparesLive
<1>1. Inv /\ [Next]_vars =>
        [\A p \in Pods :
           p \in dangling /\ p \notin dangling' /\ prov'[p] # prov[p]
           => prov[p].uid # api[p].uid]_vars
  <2> SUFFICES ASSUME Inv, Next, NEW p \in Pods,
                      p \in dangling, p \notin dangling', prov'[p] # prov[p]
               PROVE  prov[p].uid # api[p].uid
    OBVIOUS
  <2>1. ~Restart /\ ~Stop
    BY DEF Restart, Stop, envVars
  <2>2. \A k \in Pods : ~SyncWorker(k) /\ ~DeleteWorker(k) /\ ~StatusWorker(k)
    BY WorkersStep DEF Inv, runVars
  <2>3. Run
    BY <2>1, <2>2, OthersStep DEF runVars
  <2>4. PICK k \in Pods : DeleteDangling(k)
    BY <2>3 DEF Run, InformerList, ListProviderPods, MarkDangling, StartWorkers, envVars
  <2>5. Dangles(p)
    BY <2>4 DEF DeleteDangling, Inv, SparesLive
  <2>6. k = p
    BY <2>4 DEF DeleteDangling
  <2>7. prov[p] # NoInstance
    <3>1. prov \in [Pods -> Instance]
      BY DEF Inv, TypeOK
    <3> QED BY <2>4, <2>6, <3>1 DEF DeleteDangling, ProviderDeletePod
  <2> QED BY <2>5, <2>7 DEF Dangles
<1> QED BY <1>1, InvInit, InvStep, PTL DEF Spec, DanglingSparesLive

\* deleteDanglingPods leaves nothing behind (pod.go:582-644): once the workers
\* run, and unless a call failed, an earlier process's instance is gone, or it
\* cannot be told whose it is, or its name was given to a pod again.
THEOREM NothingLeftBehind == Spec => []LeftoversGone
<1>1. Inv /\ LeftoversListed /\ [Next]_vars => LeftoversListed'
  BY LeftoversListedStep DEF Inv
<1>2. Inv /\ LeftoversListed => LeftoversGone
  <2> SUFFICES ASSUME Inv, LeftoversListed, WorkersUp, faults = 0, NEW p \in Pods,
                      prov[p].uid = 1, prov[p].labelled
               PROVE  uids[p] > 1
    BY DEF LeftoversGone
  <2>1. uids[p] \in Nat /\ uids[p] >= 1
    BY DEF Inv, TypeOK, UidsKnown
  <2>2. uids[p] # 1
    BY DEF LeftoversListed, WorkersUp
  <2> QED BY <2>1, <2>2
<1> QED BY <1>1, <1>2, InvInit, InvStep, PTL DEF Spec

\* No name is given to a second pod.
NamesOnce == \A p \in Pods : uids[p] <= 2

\* The bound on incarnations is kept.
LEMMA NamesOnceHolds ==
    ASSUME MaxUid <= 2
    PROVE  /\ Init => NamesOnce
           /\ Inv /\ NamesOnce /\ [Next]_vars => NamesOnce'
<1>1. ASSUME Init, NEW p \in Pods PROVE uids[p] <= 2
  <2>1. uids[p] = 1
    BY <1>1 DEF Init
  <2> QED BY <2>1
<1>2. ASSUME Inv, NamesOnce, [Next]_vars, NEW p \in Pods PROVE uids'[p] <= 2
  <2>0. uids \in [Pods -> Nat] /\ MaxUid \in Nat
    BY <1>2, ControllerAssumption DEF Inv, TypeOK
  <2>1. CASE UserCreate(p)
    <3>1. uids'[p] = uids[p] + 1 /\ uids[p] < MaxUid
      BY <2>0, <2>1 DEF UserCreate
    <3> QED BY <2>0, <3>1
  <2> QED BY <1>2, <2>1, ApiStep DEF ApiMoves, NamesOnce, Inv
<1> QED BY <1>1, <1>2 DEF NamesOnce

\* While names are not used twice, the deleting worker, which asks no question
\* (pod.go:480-491), removes no pod whose deletion nobody asked for: what it was
\* told when its key was queued cannot have been taken back.
THEOREM NoForcedDeletion ==
    ASSUME MaxUid <= 2
    PROVE  Spec => ForceDeleteOnlyDeleted
<1>1. Inv /\ NamesOnce /\ [Next]_vars =>
        [\A p \in Pods :
           /\ deleteJob[p].at = "deletePod" /\ deleteJob'[p].at # "deletePod"
           /\ api[p] # NoPod /\ api'[p] = NoPod
           => Deleting(api[p])]_vars
  BY DEF Inv, NamesOnce, OverKnown, Over
<1> QED BY <1>1, InvInit, InvStep, NamesOnceHolds, PTL DEF Spec, ForceDeleteOnlyDeleted

------------------------------------------------------------------------------
(* The refinement.                                                         *)

\* The two worlds are never changed in one step, and one name at a time: no
\* handler makes two calls at once.
LEMMA OneName ==
    ASSUME TypeOK, [Next]_vars
    PROVE  \/ UNCHANGED <<api, uids, prov>>
           \/ \E p \in Pods : /\ api' = [api EXCEPT ![p] = api'[p]]
                              /\ uids' = [uids EXCEPT ![p] = uids'[p]]
                              /\ UNCHANGED prov
           \/ \E p \in Pods : /\ prov' = [prov EXCEPT ![p] = prov'[p]]
                              /\ UNCHANGED <<api, uids>>
<1>0. api \in [Pods -> Pod] /\ uids \in [Pods -> Nat] /\ prov \in [Pods -> Instance]
  BY DEF TypeOK
<1>1. ASSUME NEW p \in Pods, NEW pod, api' = [api EXCEPT ![p] = pod],
             UNCHANGED prov, UNCHANGED uids
      PROVE  /\ api' = [api EXCEPT ![p] = api'[p]]
             /\ uids' = [uids EXCEPT ![p] = uids'[p]]
             /\ UNCHANGED prov
  BY <1>0, <1>1
<1>2. ASSUME NEW p \in Pods, NEW inst, prov' = [prov EXCEPT ![p] = inst], UNCHANGED <<api, uids>>
      PROVE  prov' = [prov EXCEPT ![p] = prov'[p]] /\ UNCHANGED <<api, uids>>
  BY <1>0, <1>2
<1> DEFINE ApiAt(p) == /\ api' = [api EXCEPT ![p] = api'[p]]
                       /\ uids' = [uids EXCEPT ![p] = uids'[p]]
                       /\ UNCHANGED prov
           ProvAt(p) == prov' = [prov EXCEPT ![p] = prov'[p]] /\ UNCHANGED <<api, uids>>
           Same == UNCHANGED <<api, uids, prov>>
<1>3. ASSUME NEW p \in Pods, User(p) PROVE ApiAt(p)
  <2>1. CASE UserCreate(p)
    <3>1. PICK pod : api' = [api EXCEPT ![p] = pod]
      BY <2>1 DEF UserCreate
    <3>2. uids' = [uids EXCEPT ![p] = uids[p] + 1] /\ UNCHANGED prov
      BY <2>1 DEF UserCreate
    <3> QED BY <1>0, <3>1, <3>2
  <2>2. CASE ~UserCreate(p)
    <3>1. /\ \E pod : api' = [api EXCEPT ![p] = pod]
          /\ UNCHANGED <<uids, prov>>
      BY <1>3, <2>2 DEF User, UserUpdate, UserDelete, UserForceDelete
    <3> QED BY <1>1, <3>1
  <2> QED BY <2>1, <2>2
<1>4. ASSUME NEW p \in Pods, DeleteDeletePod(p) \/ StatusUpdateStatus(p) PROVE Same \/ ApiAt(p)
  <2>1. /\ api' = api \/ \E pod : api' = [api EXCEPT ![p] = pod]
        /\ UNCHANGED <<uids, prov>>
    BY <1>4 DEF DeleteDeletePod, DeleteStep, StatusUpdateStatus, StatusStep, ApiDeletePod,
                ApiUpdateStatus
  <2> QED BY <1>1, <2>1
<1>5. ASSUME NEW p \in Pods, \/ ContainersProgress(p) \/ DeleteDangling(p)
                             \/ SyncDeleteMissing(p) \/ SyncDeleteProviderPod(p)
                             \/ DeleteDeleteProviderPod(p)
      PROVE  Same \/ ProvAt(p)
  <2>1. UNCHANGED <<api, uids>>
    BY <1>5 DEF ContainersProgress, DeleteDangling, SyncDeleteMissing, SyncDeleteProviderPod,
                SyncStep, DeleteDeleteProviderPod, DeleteStep
  <2>2. CASE ContainersProgress(p)
    <3>1. \E inst : prov' = [prov EXCEPT ![p] = inst]
      BY <2>2 DEF ContainersProgress
    <3> QED BY <1>2, <2>1, <3>1
  <2>3. CASE \E result : ProviderDeletePod(p, result)
    BY <1>2, <2>1, <2>3 DEF ProviderDeletePod
  <2> QED BY <1>5, <2>2, <2>3 DEF DeleteDangling, SyncDeleteMissing, SyncDeleteProviderPod,
                                  DeleteDeleteProviderPod
<1>6. ASSUME NEW p \in Pods, SyncCreate(p) \/ SyncUpdate(p) \/ StatusCreate(p)
      PROVE  Same \/ ProvAt(p)
  <2>1. UNCHANGED <<api, uids>>
    BY <1>6 DEF SyncCreate, SyncUpdate, SyncStep, StatusCreate, StatusStep
  <2>2. prov' = prov \/ \E inst : prov' = [prov EXCEPT ![p] = inst]
    BY <1>6 DEF SyncCreate, SyncUpdate, StatusCreate, ProviderCreatePod, ProviderUpdatePod
  <2> QED BY <1>2, <2>1, <2>2
<1> QED BY <1>3, <1>4, <1>5, <1>6, ApiWriters, ProvWriters

\* A change of one pod is one of what is shown of it.
LEMMA ShowsStep ==
    ASSUME TypeOK, NEW p \in Pods, api' = [api EXCEPT ![p] = api'[p]]
    PROVE  Shows' = [Shows EXCEPT ![p] = Shown(api'[p])] /\ Shows[p] = Shown(api[p])
  BY DEF TypeOK, Shows

\* What is not there shows as what is not there, and nothing else does.
LEMMA ShownStages ==
    ASSUME NEW pod
    PROVE  /\ Shown(pod).uid = pod.uid
           /\ pod = NoPod <=> Shown(pod).stage = "none"
           /\ Shown(pod).stage = "going" <=> pod # NoPod /\ Deleting(pod)
           /\ Shown(pod).stage = "wanted" <=> pod # NoPod /\ ~Deleting(pod)
           /\ pod = NoPod => Shown(pod) = [uid |-> 0, stage |-> "none"]
           /\ pod # NoPod /\ Deleting(pod) => Shown(pod) = [uid |-> pod.uid, stage |-> "going"]
           /\ pod # NoPod /\ ~Deleting(pod) => Shown(pod) = [uid |-> pod.uid, stage |-> "wanted"]
<1>1. NoPod.uid = 0
  BY DEF NoPod
<1> QED BY <1>1 DEF Shown

\* What a step does to the API server's pods is somebody's asking or leaving.
LEMMA ApiImplements ==
    ASSUME TypeOK, UidsKnown, [Next]_vars, NEW p \in Pods, UNCHANGED prov,
           api' = [api EXCEPT ![p] = api'[p]], uids' = [uids EXCEPT ![p] = uids'[p]]
    PROVE  \/ UNCHANGED <<Shows, uids, Deploys>>
           \/ Lifecycle!Assign(p) \/ Lifecycle!AskDeletion(p) \/ Lifecycle!Leaves(p)
<1>0. /\ uids \in [Pods -> Nat] /\ api[p] \in Pod /\ api' \in [Pods -> Pod]
      /\ PodKnown(p, api[p]) /\ uids[p] \in Nat
  BY TypeStep DEF TypeOK, UidsKnown
<1>1. UNCHANGED Deploys
  BY DEF Deploys
<1>2. Shows' = [Shows EXCEPT ![p] = Shown(api'[p])] /\ Shows[p] = Shown(api[p])
  BY ShowsStep
<1>3. Shows = [Shows EXCEPT ![p] = Shows[p]]
  BY DEF Shows
<1>4. CASE UserCreate(p)
  <2>1. api[p] = NoPod /\ uids' = [uids EXCEPT ![p] = uids[p] + 1]
    BY <1>4 DEF UserCreate
  <2>2. api'[p].uid = uids[p] + 1 /\ api'[p].deletionTimestamp = 0
    BY <1>0, <1>4 DEF UserCreate, TypeOK
  <2>3. api'[p] # NoPod /\ ~Deleting(api'[p])
    <3>1. NoPod.uid = 0
      BY DEF NoPod
    <3> QED BY <1>0, <2>2, <3>1 DEF Deleting
  <2>4. Shown(api'[p]) = [uid |-> uids[p] + 1, stage |-> "wanted"]
    BY <2>2, <2>3, ShownStages
  <2>5. Shows[p] = [uid |-> 0, stage |-> "none"]
    BY <1>2, <2>1, ShownStages
  <2> QED BY <1>1, <1>2, <2>1, <2>4, <2>5 DEF Lifecycle!Assign, Lifecycle!None
<1>5. CASE UNCHANGED uids /\ api'[p] = NoPod
  <2>1. CASE api[p] = NoPod
    BY <1>1, <1>2, <1>3, <1>5, <2>1
  <2>2. CASE api[p] # NoPod
    <3>1. Shows[p] # [uid |-> 0, stage |-> "none"]
      BY <1>2, <2>2, ShownStages
    <3>2. Shown(api'[p]) = [uid |-> 0, stage |-> "none"]
      BY <1>5, ShownStages
    <3> QED BY <1>1, <1>2, <1>5, <3>1, <3>2 DEF Lifecycle!Leaves, Lifecycle!None
  <2> QED BY <2>1, <2>2
<1>6. CASE /\ UNCHANGED uids /\ api[p] # NoPod /\ api'[p].uid = api[p].uid
           /\ \/ api'[p].deletionTimestamp = api[p].deletionTimestamp
              \/ ~Deleting(api[p]) /\ api'[p].deletionTimestamp = api[p].uid
  <2>1. api[p].uid \in 2..uids[p]
    BY <1>0, <1>6 DEF PodKnown, Given
  <2>2. api'[p] # NoPod /\ api[p].uid # 0
    <3>1. NoPod.uid = 0
      BY DEF NoPod
    <3> QED BY <1>6, <2>1, <3>1
  <2>3. CASE api'[p].deletionTimestamp = api[p].deletionTimestamp
    <3>1. Deleting(api'[p]) <=> Deleting(api[p])
      BY <2>3 DEF Deleting
    <3>2. Shown(api'[p]) = Shown(api[p])
      BY <1>6, <2>2, <3>1, ShownStages
    <3> QED BY <1>1, <1>2, <1>3, <1>6, <3>2
  <2>4. CASE ~Deleting(api[p]) /\ api'[p].deletionTimestamp = api[p].uid
    <3>1. Deleting(api'[p])
      BY <2>2, <2>4 DEF Deleting
    <3>2. Shown(api'[p]) = [uid |-> api[p].uid, stage |-> "going"]
      BY <1>6, <2>2, <3>1, ShownStages
    <3>3. Shows[p].stage = "wanted" /\ Shows[p].uid = api[p].uid
      BY <1>2, <1>6, <2>4, ShownStages
    <3> QED BY <1>1, <1>2, <1>6, <3>2, <3>3 DEF Lifecycle!AskDeletion
  <2> QED BY <1>6, <2>3, <2>4
<1>7. uids'[p] = uids[p] => UNCHANGED uids
  BY <1>0
<1> QED BY <1>4, <1>5, <1>6, <1>7, ApiStep DEF ApiMoves

\* What a step does to the provider's instances is to deploy a pod that was given,
\* or to take down one that nobody wants: who is about to remove it learnt so of
\* the one pod the name has had.
LEMMA ProvImplements ==
    ASSUME Inv, [Next]_vars, NEW p \in Pods, UNCHANGED <<api, uids>>,
           prov' = [prov EXCEPT ![p] = prov'[p]]
    PROVE  \/ UNCHANGED <<Shows, uids, Deploys>>
           \/ Lifecycle!Deploy(p) \/ Lifecycle!Undeploy(p)
<1>0. /\ TypeOK /\ prov \in [Pods -> Instance] /\ uids[p] \in Nat /\ uids[p] >= 1
      /\ prov[p] # NoInstance => prov[p].uid \in 1..uids[p]
  BY DEF Inv, TypeOK, UidsKnown
<1>1. UNCHANGED Shows
  BY DEF Shows
<1>2. Deploys' = [Deploys EXCEPT ![p] = prov'[p].uid] /\ Deploys[p] = prov[p].uid
  BY <1>0 DEF Deploys
<1>3. Deploys = [Deploys EXCEPT ![p] = Deploys[p]]
  BY DEF Deploys
<1>4. NoInstance.uid = 0
  BY DEF NoInstance
<1>5. CASE prov'[p].uid = prov[p].uid
  BY <1>1, <1>2, <1>3, <1>5
<1>6. CASE prov[p] # NoInstance /\ prov'[p] = NoInstance /\ Removing(p)
  <2>1. Deploys[p] # 0 /\ prov'[p].uid = 0
    BY <1>0, <1>2, <1>4, <1>6
  <2>2. ASSUME uids[p] <= 2 PROVE ~(Shows[p].stage = "wanted" /\ Shows[p].uid = Deploys[p])
    <3>1. Shows[p] = Shown(api[p])
      BY DEF Shows
    <3>2. CASE phase = "deleting" /\ p \in dangling
      <4>1. prov[p].uid # api[p].uid
        BY <1>6, <3>2 DEF Inv, SparesLive, Dangles
      <4> QED BY <1>2, <3>1, <4>1, ShownStages
    <3>3. CASE Over(p)
      BY <3>1, <3>3, ShownStages DEF Over
    <3> QED BY <1>6, <2>2, <3>2, <3>3 DEF Removing, Inv, OverKnown
  <2>3. ~(uids[p] <= 2) => uids[p] > 2
    BY <1>0
  <2> QED BY <1>1, <1>2, <2>1, <2>2, <2>3
          DEF Lifecycle!Undeploy, Lifecycle!Needed, Lifecycle!Reused
<1>7. CASE prov[p] = NoInstance /\ Creating(p, prov'[p].uid)
  <2>1. prov'[p].uid \in 2..uids[p]
    BY <1>7 DEF Creating, Inv, UidsKnown, Given
  <2>2. Deploys[p] = 0
    BY <1>2, <1>4, <1>7
  <2> QED BY <1>1, <1>2, <2>1, <2>2 DEF Lifecycle!Deploy
<1>8. ProvMoves(p)
  BY <1>0, ProvStep
<1> QED BY <1>5, <1>6, <1>7, <1>8 DEF ProvMoves

\* Every step of the pod controller, and of those around it, is a step of PodLifecycle
\* on one name, or none.
LEMMA StepImplements == Inv /\ [Next]_vars => [Lifecycle!Next]_Lifecycle!vars
<1> SUFFICES ASSUME Inv, [Next]_vars PROVE [Lifecycle!Next]_Lifecycle!vars
  OBVIOUS
<1>1. CASE UNCHANGED <<api, uids, prov>>
  BY <1>1 DEF Lifecycle!vars, Shows, Deploys
<1>2. ASSUME NEW p \in Pods, api' = [api EXCEPT ![p] = api'[p]],
             uids' = [uids EXCEPT ![p] = uids'[p]], UNCHANGED prov
      PROVE  [Lifecycle!Next]_Lifecycle!vars
  BY <1>2, ApiImplements DEF Inv, Lifecycle!Next, Lifecycle!vars
<1>3. ASSUME NEW p \in Pods, prov' = [prov EXCEPT ![p] = prov'[p]], UNCHANGED <<api, uids>>
      PROVE  [Lifecycle!Next]_Lifecycle!vars
  BY <1>3, ProvImplements DEF Lifecycle!Next, Lifecycle!vars
<1> QED BY <1>1, <1>2, <1>3, OneName DEF Inv

\* The pod controller implements PodLifecycle: informer, queues, retries, workers
\* and restarts show nothing to the outside but pods deployed that were given and
\* instances taken down that no one wants (pod.go:403-448, 471-525, 551-580,
\* 583-644 and 699-710).
THEOREM Implementation == Spec => ImplementsLifecycle
<1>1. Init => Lifecycle!Init
  <2> SUFFICES ASSUME Init PROVE Lifecycle!Init
    OBVIOUS
  <2>1. Shows = [p \in Pods |-> [uid |-> 0, stage |-> "none"]]
    <3>1. \A p \in Pods : Shown(api[p]) = [uid |-> 0, stage |-> "none"]
      BY ShownStages DEF Init
    <3> QED BY <3>1 DEF Shows
  <2>2. \A p \in Pods : prov[p].uid \in {0, 1}
    <3>1. NoInstance.uid = 0
      BY DEF NoInstance
    <3> QED BY <3>1, ControllerAssumption DEF Init
  <2>3. Deploys \in [Pods -> {0, 1}]
    BY <2>2 DEF Deploys
  <2>4. uids = [p \in Pods |-> 1]
    BY DEF Init
  <2> QED BY <2>1, <2>3, <2>4 DEF Lifecycle!Init, Lifecycle!None
<1> QED BY <1>1, StepImplements, InvInit, InvStep, PTL DEF Spec, ImplementsLifecycle, Lifecycle!Spec

\* Until a name is given to a second pod, the instance of a pod that is wanted stays:
\* no stale copy in the cache, key left in a queue, retry, poll or start of another
\* process takes it down or puts another in its place (pod.go:471-525, 583-644).
THEOREM WantedStaysDeployed ==
    Spec => [][\A p \in Pods :
                 /\ uids[p] <= 2
                 /\ Shows[p].stage = "wanted" /\ Shows[p].uid = Deploys[p]
                 => Deploys'[p] = Deploys[p]]_vars
<1> DEFINE Stays(p) == /\ uids[p] <= 2
                       /\ Shows[p].stage = "wanted" /\ Shows[p].uid = Deploys[p]
                       => Deploys'[p] = Deploys[p]
<1>1. ASSUME Inv, [Next]_vars, NEW p \in Pods PROVE Stays(p)
  <2>0. /\ uids[p] \in Nat /\ Deploys \in [Pods -> Nat]
        /\ Shows[p].stage = "wanted" => Shows[p].uid # 0
    <3>1. /\ uids \in [Pods -> Nat] /\ prov \in [Pods -> Instance]
          /\ PodKnown(p, api[p]) /\ NoPod.uid = 0
      BY <1>1 DEF Inv, TypeOK, UidsKnown, NoPod
    <3>2. Shows[p].stage = "wanted" => Shows[p].uid \in 2..uids[p]
      BY <3>1, ShownStages DEF Shows, PodKnown, Given
    <3>3. Deploys \in [Pods -> Nat]
      BY <3>1 DEF Deploys, Instance
    <3> QED BY <3>1, <3>2, <3>3
  <2>1. CASE UNCHANGED Deploys
    BY <2>1
  <2>2. ASSUME NEW n \in Pods, Lifecycle!Deploy(n) PROVE Stays(p)
    <3>1. CASE n = p
      BY <2>0, <2>2, <3>1 DEF Lifecycle!Deploy
    <3>2. CASE n # p
      BY <2>0, <2>2, <3>2 DEF Lifecycle!Deploy
    <3> QED BY <3>1, <3>2
  <2>3. ASSUME NEW n \in Pods, Lifecycle!Undeploy(n) PROVE Stays(p)
    <3>1. CASE n = p
      <4>1. ~Lifecycle!Needed(p) \/ uids[p] > 2
        BY <2>3, <3>1 DEF Lifecycle!Undeploy, Lifecycle!Reused
      <4> QED BY <2>0, <4>1 DEF Lifecycle!Needed
    <3>2. CASE n # p
      BY <2>0, <2>3, <3>2 DEF Lifecycle!Undeploy
    <3> QED BY <3>1, <3>2
  <2>4. \/ UNCHANGED Deploys
        \/ \E n \in Pods : Lifecycle!Deploy(n) \/ Lifecycle!Undeploy(n)
    BY <1>1, StepImplements DEF Lifecycle!Next, Lifecycle!vars, Lifecycle!Assign,
       Lifecycle!AskDeletion, Lifecycle!Leaves
  <2> QED BY <2>1, <2>2, <2>3, <2>4
<1>2. Inv /\ [Next]_vars => \A p \in Pods : Stays(p)
  BY <1>1
<1> QED BY <1>2, InvInit, InvStep, PTL DEF Spec

------------------------------------------------------------------------------
(* Keys that do not split.                                                 *)

\* No handler gets as far as a call, and no instance but an earlier process's runs.
NothingBegun ==
    \A p \in Pods :
        /\ syncJob[p].at = "idle" /\ deleteJob[p].at = "idle" /\ statusJob[p].at = "idle"
        /\ prov[p].uid \in {0, 1}

\* Each handler returns as soon as it has taken the key.
LEMMA HandlersReturn ==
    ASSUME ~KeySplits, TypeOK, NothingBegun, NEW k \in Pods,
           SyncWorker(k) \/ DeleteWorker(k) \/ StatusWorker(k)
    PROVE  /\ UNCHANGED <<api, prov>>
           /\ \A p \in Pods : /\ syncJob'[p].at = "idle" /\ deleteJob'[p].at = "idle"
                              /\ statusJob'[p].at = "idle"
<1>1. /\ syncJob \in [Pods -> Job(SyncPoints)] /\ deleteJob \in [Pods -> Job(DeletePoints)]
      /\ statusJob \in [Pods -> Job(StatusPoints)] /\ Idle.at = "idle"
  BY DEF TypeOK, Idle
<1>2. CASE SyncWorker(k)
  <2>1. SyncTake(k)
    BY <1>2 DEF SyncWorker, SyncDeleteMissing, SyncDeleteProviderPod, SyncGetPod, SyncCreate,
       SyncUpdate, SyncStep, NothingBegun
  <2>2. /\ syncJob' = [syncJob EXCEPT ![k] = Idle] /\ UNCHANGED <<api, prov>>
        /\ UNCHANGED <<deleteJob, statusJob>>
    BY <2>1 DEF SyncTake, SyncReturns, envVars
  <2> QED BY <1>1, <2>2 DEF NothingBegun
<1>3. CASE DeleteWorker(k)
  <2>1. DeleteTake(k)
    BY <1>3 DEF DeleteWorker, DeleteDeletePod, DeleteDeleteProviderPod, DeleteStep,
       NothingBegun
  <2>2. /\ deleteJob' = [deleteJob EXCEPT ![k] = Idle] /\ UNCHANGED <<api, prov>>
        /\ UNCHANGED <<syncJob, statusJob>>
    BY <2>1 DEF DeleteTake, DeleteReturns, envVars
  <2> QED BY <1>1, <2>2 DEF NothingBegun
<1>4. CASE StatusWorker(k)
  <2>1. StatusTake(k)
    BY <1>4 DEF StatusWorker, StatusGetStatus, StatusGetCached, StatusCreate,
       StatusUpdateStatus, StatusStep, NothingBegun
  <2>2. /\ statusJob' = [statusJob EXCEPT ![k] = Idle] /\ UNCHANGED <<api, prov>>
        /\ UNCHANGED <<syncJob, deleteJob>>
    BY <2>1 DEF StatusTake, StatusReturns, envVars
  <2> QED BY <1>1, <2>2 DEF NothingBegun
<1> QED BY <1>2, <1>3, <1>4

LEMMA NothingBegins ==
    ASSUME ~KeySplits, TypeOK, NothingBegun, [Next]_vars
    PROVE  NothingBegun'
<1>1. SUFFICES ASSUME NEW p \in Pods
               PROVE  /\ syncJob'[p].at = "idle" /\ deleteJob'[p].at = "idle"
                      /\ statusJob'[p].at = "idle"
                      /\ prov'[p].uid \in {0, 1}
  BY DEF NothingBegun
<1>2. /\ syncJob[p].at = "idle" /\ deleteJob[p].at = "idle" /\ statusJob[p].at = "idle"
      /\ prov[p].uid \in {0, 1}
  BY DEF NothingBegun
<1>3. prov'[p].uid \in {0, 1}
  BY <1>2, ProvStep DEF ProvMoves, Creating, NoInstance
<1>4. CASE Restart
  BY <1>3, <1>4 DEF Restart, AllIdle, Idle
<1>5. ASSUME NEW k \in Pods, SyncWorker(k) \/ DeleteWorker(k) \/ StatusWorker(k)
      PROVE  /\ syncJob'[p].at = "idle" /\ deleteJob'[p].at = "idle"
             /\ statusJob'[p].at = "idle"
  BY <1>5, HandlersReturn
<1>6. CASE /\ ~Restart
           /\ \A k \in Pods : ~SyncWorker(k) /\ ~DeleteWorker(k) /\ ~StatusWorker(k)
  BY <1>2, <1>3, <1>6, OthersStep DEF jobs
<1> QED BY <1>3, <1>4, <1>5, <1>6

\* If client-go's SplitMetaNamespaceKey takes no key of three parts, the pod controller
\* never does anything for a pod (pod.go:232, 395-399, 437-441 and 472-478): no pod
\* is ever deployed, whatever fails, is retried or is started again, and nobody but its user
\* writes or removes a pod.
THEOREM NothingHandled ==
    ASSUME ~KeySplits
    PROVE  Spec => /\ [](\A p \in Pods : Deploys[p] \in {0, 1})
                   /\ [][\A p \in Pods : api'[p] # api[p] => User(p)]_vars
<1> DEFINE Undeployed == \A p \in Pods : Deploys[p] \in {0, 1}
           UsersOnly == \A p \in Pods : api'[p] # api[p] => User(p)
<1>1. Init => NothingBegun
  <2>1. Idle.at = "idle" /\ NoInstance.uid = 0
    BY DEF Idle, NoInstance
  <2> QED BY <2>1, ControllerAssumption DEF Init, AllIdle, NothingBegun
<1>2. Inv /\ NothingBegun /\ [Next]_vars => NothingBegun'
  BY NothingBegins DEF Inv
<1>3. NothingBegun => Undeployed
  BY DEF NothingBegun, Deploys
<1>4. Inv /\ NothingBegun /\ [Next]_vars => UsersOnly
  <2> SUFFICES ASSUME Inv, NothingBegun, [Next]_vars, NEW p \in Pods, api'[p] # api[p]
               PROVE  User(p)
    OBVIOUS
  <2>1. \A k \in Pods : ~DeleteDeletePod(k) /\ ~StatusUpdateStatus(k)
    BY DEF NothingBegun, DeleteDeletePod, DeleteStep, StatusUpdateStatus, StatusStep
  <2>2. PICK k \in Pods : User(k)
    BY <2>1, ApiWriters
  <2>3. api \in [Pods -> Pod] /\ \E pod : api' = [api EXCEPT ![k] = pod]
    BY <2>2 DEF User, UserCreate, UserUpdate, UserDelete, UserForceDelete, Inv, TypeOK
  <2>4. k = p
    BY <2>3
  <2> QED BY <2>2, <2>4
<1> QED BY <1>1, <1>2, <1>3, <1>4, InvInit, InvStep, PTL DEF Spec
==============================================================================
