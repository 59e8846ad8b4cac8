------------------------------ MODULE PodPollProofs ------------------------------
(***************************************************************************)
(* The status poll never dies out, for any number of pods, workers,        *)
(* retries, faults and restarts, whether keys split or not and whatever    *)
(* the provider's errors are.                                              *)
(***************************************************************************)
EXTENDS PodControllerProofs

\* Someone has the status key of p still to take, or is polling it, or will be
\* made to queue it.
PollArranged(p) ==
    \/ Pending(statusQ, p)
    \/ statusJob[p].at # "idle"
    \/ EventIn(p, Wakes)

PollAliveAt(p) == Pollable(cache[p]) => PollArranged(p)

\* The API server numbers pods from 1, so a listed pod differs from no pod and
\* its event wakes the poll.
ApiHasUids == \A p \in Pods : api[p] = NoPod \/ api[p].uid # 0

PollInv == TypeOK /\ ApiHasUids /\ StatusPollAlive

------------------------------------------------------------------------------
(* What the queue's operations and the event handlers do to a pending key. *)

\* No operation but Get takes a pending key away, and Get takes one.
LEMMA PendingKept ==
    ASSUME NEW q \in Queue, NEW k \in Pods, NEW j \in Pods, NEW err
    PROVE  /\ Pending(AddRateLimited(q, k), k)
           /\ Pending(q, j) => /\ Pending(AddRateLimited(q, k), j) /\ Pending(Forget(q, k), j)
                               /\ Pending(Done(q, k), j) /\ Pending(DelayElapsed(q, k), j)
                               /\ Pending(HandlerReturned(q, k, err), j)
                               /\ j # k => Pending(Get(q, k), j)
<1>1. \A r \in Queue : /\ Pending(AddRateLimited(r, k), k)
                       /\ Pending(r, j) => Pending(AddRateLimited(r, k), j)
  BY DEF Pending, AddRateLimited, AddAfter, Queue
<1>2. \A r \in Queue : Pending(r, j) => Pending(Forget(r, k), j) /\ Pending(Done(r, k), j)
  BY DEF Pending, Forget, Done, Queue
<1>3. Pending(q, j) => Pending(DelayElapsed(q, k), j)
  BY DEF Pending, DelayElapsed, Add, Queue
<1>4. Pending(q, j) => Pending(HandlerReturned(q, k, err), j)
  BY <1>1, <1>2, QueueOpsType DEF HandlerReturned
<1>5. Pending(q, j) /\ j # k => Pending(Get(q, k), j)
  BY DEF Pending, Get, Queue
<1> QED BY <1>1, <1>2, <1>3, <1>4, <1>5

\* podStatusHandler's returns: with shouldAddQueue the key is pending whatever
\* handleQueueItem then makes of the error, and no other key is touched.
LEMMA StatusReturnsPending ==
    ASSUME NEW p \in Pods, NEW q \in Queue, NEW add \in BOOLEAN, NEW err,
           StatusReturns(q, p, add, err)
    PROVE  /\ add => Pending(statusQ', p)
           /\ \A j \in Pods : Pending(q, j) => Pending(statusQ', j)
<1> DEFINE r == IF add THEN AddRateLimited(q, p) ELSE q
<1>1. r \in Queue
  BY QueueOpsType
<1>2. statusQ' = HandlerReturned(r, p, err)
  BY DEF StatusReturns
<1>3. add => Pending(r, p)
  BY PendingKept
<1>4. \A j \in Pods : Pending(q, j) => Pending(r, j)
  BY PendingKept
<1> HIDE DEF r
<1>5. \A j \in Pods : Pending(r, j) => Pending(HandlerReturned(r, p, err), j)
  BY <1>1, PendingKept
<1> QED BY <1>2, <1>3, <1>4, <1>5

\* Taking an event off the informer's notifications loses only that event.
LEMMA EventTaken ==
    ASSUME TypeOK, NEW p \in Pods, NextEvent(p), EventIn(p, Wakes), ~Wakes(Head(events[p]))
    PROVE  EventIn(p, Wakes)'
<1>1. events[p] \in Seq([old: Pod, new: Pod]) /\ events[p] # <<>>
  BY DEF TypeOK, NextEvent
<1>2. PICK i \in 1..Len(events[p]) : Wakes(events[p][i])
  BY DEF EventIn
<1>3. i # 1
  BY <1>1, <1>2
<1>4. events'[p] = Tail(events[p])
  BY DEF NextEvent, TypeOK
<1>5. i - 1 \in 1..Len(Tail(events[p])) /\ Tail(events[p])[i - 1] = events[p][i]
  BY <1>1, <1>3
<1>6. Wakes(events'[p][i - 1]) /\ i - 1 \in 1..Len(events'[p])
  BY <1>2, <1>4, <1>5
<1> QED BY <1>6 DEF EventIn, Wakes

\* A step that concerns one pod's cache, events, status key or status job is
\* judged by that pod.
LEMMA OnePod ==
    ASSUME StatusPollAlive, NEW p \in Pods, PollAliveAt(p)',
           \A j \in Pods \ {p} : /\ cache'[j] = cache[j] /\ events'[j] = events[j]
                                 /\ statusJob'[j] = statusJob[j]
                                 /\ Pending(statusQ, j) => Pending(statusQ', j)
    PROVE  StatusPollAlive'
<1>1. ASSUME NEW j \in Pods \ {p} PROVE PollAliveAt(j)'
  BY <1>1 DEF StatusPollAlive, PollAliveAt, PollArranged, EventIn, Wakes
<1> QED BY <1>1 DEF StatusPollAlive, PollAliveAt, PollArranged

\* A step that leaves all of these alone preserves the invariant.
LEMMA PollUntouched ==
    ASSUME StatusPollAlive, UNCHANGED <<cache, events, statusJob, statusQ>>
    PROVE  StatusPollAlive'
  BY DEF StatusPollAlive, EventIn, Wakes

------------------------------------------------------------------------------
(* The steps that can disturb the poll.                                    *)

\* The informer lists: each pod there is gives an event that wakes its poll.
LEMMA ListWakes == PollInv /\ InformerList => StatusPollAlive'
<1> SUFFICES ASSUME PollInv, InformerList, NEW p \in Pods PROVE PollAliveAt(p)'
  BY DEF StatusPollAlive, PollAliveAt, PollArranged
<1>1. /\ cache'[p] = api[p] /\ api[p] \in Pod /\ (api[p] = NoPod \/ api[p].uid # 0)
      /\ api[p] # NoPod => events'[p] = <<[old |-> NoPod, new |-> api[p]]>>
  BY DEF PollInv, ApiHasUids, TypeOK, InformerList
<1>2. CASE api[p] = NoPod
  BY <1>1, <1>2 DEF PollAliveAt, Pollable
<1>3. CASE api[p] # NoPod
  <2> DEFINE event == [old |-> NoPod, new |-> api[p]]
  <2>1. NoPod.uid = 0
    BY DEF NoPod
  <2>2. Wakes(event)
    BY <1>1, <1>3, <2>1 DEF Wakes, SameVersion
  <2>3. Len(events'[p]) = 1 /\ events'[p][1] = event
    BY <1>1, <1>3
  <2>4. EventIn(p, Wakes)'
    BY <2>2, <2>3 DEF EventIn, Wakes
  <2> QED BY <2>4 DEF PollAliveAt, PollArranged
<1> QED BY <1>2, <1>3

\* The informer sees a new version of a pod: so does an event that wakes the poll.
LEMMA WatchWakes ==
    ASSUME PollInv, NEW p \in Pods, InformerWatch(p)
    PROVE  StatusPollAlive'
<1> DEFINE event == [old |-> cache[p], new |-> api[p]]
<1>1. /\ events[p] \in Seq([old: Pod, new: Pod]) /\ event \in [old: Pod, new: Pod]
      /\ events'[p] = Append(events[p], event) /\ cache'[p] = api[p]
      /\ ~SameVersion(api[p], cache[p])
      /\ statusQ' = statusQ /\ statusJob' = statusJob
      /\ \A j \in Pods \ {p} : cache'[j] = cache[j] /\ events'[j] = events[j]
  BY DEF PollInv, TypeOK, InformerWatch, queues, jobs
<1>2. PollAliveAt(p)'
  <2>1. CASE api[p] = NoPod
    BY <1>1, <2>1 DEF PollAliveAt, Pollable
  <2>2. CASE api[p] # NoPod
    <3>1. Wakes(event)
      BY <1>1, <2>2 DEF Wakes, SameVersion
    <3>2. Len(events'[p]) = Len(events[p]) + 1 /\ events'[p][Len(events[p]) + 1] = event
      BY <1>1
    <3>3. Len(events[p]) + 1 \in 1..Len(events'[p])
      BY <1>1, <3>2
    <3>4. EventIn(p, Wakes)'
      BY <3>1, <3>2, <3>3 DEF EventIn, Wakes
    <3> QED BY <3>4 DEF PollAliveAt, PollArranged
  <2> QED BY <2>1, <2>2
<1> QED BY <1>1, <1>2, OnePod DEF PollInv

\* A resync only adds an event.
LEMMA ResyncKeepsPoll ==
    ASSUME PollInv, NEW p \in Pods, InformerResync(p)
    PROVE  StatusPollAlive'
<1>1. /\ events[p] = <<>> /\ cache' = cache /\ statusQ' = statusQ /\ statusJob' = statusJob
      /\ \A j \in Pods \ {p} : events'[j] = events[j]
  BY DEF PollInv, TypeOK, InformerResync, queues, jobs
<1>2. ~EventIn(p, Wakes)
  BY <1>1 DEF EventIn
<1>3. PollAliveAt(p)'
  BY <1>1, <1>2 DEF PollInv, StatusPollAlive, PollAliveAt, PollArranged
<1> QED BY <1>1, <1>3, OnePod DEF PollInv

\* AddFunc and UpdateFunc turn an event that wakes the poll into a pending key,
\* and Forget, in all three handlers, leaves a pending key where it is.
LEMMA HandlersKeepPoll ==
    ASSUME PollInv, NEW p \in Pods, EventHandler(p)
    PROVE  StatusPollAlive'
<1>1. NextEvent(p)
  BY DEF EventHandler, AddFunc, DeleteFunc, UpdateFunc
<1>2. /\ statusQ \in Queue /\ Forget(statusQ, p) \in Queue
      /\ cache' = cache /\ statusJob' = statusJob
      /\ \A j \in Pods \ {p} : events'[j] = events[j]
  BY <1>1, QueueOpsType DEF PollInv, TypeOK, NextEvent, jobs
<1>3. /\ statusQ' \in {statusQ, Forget(statusQ, p), AddRateLimited(Forget(statusQ, p), p)}
      /\ Wakes(Head(events[p])) => statusQ' = AddRateLimited(Forget(statusQ, p), p)
  BY DEF EventHandler, AddFunc, DeleteFunc, UpdateFunc, Wakes, queues
<1>4. \A j \in Pods : Pending(statusQ, j) => Pending(statusQ', j)
  BY <1>2, <1>3, PendingKept
<1>5. Wakes(Head(events[p])) => Pending(statusQ', p)
  BY <1>2, <1>3, PendingKept
<1>6. EventIn(p, Wakes) /\ ~Wakes(Head(events[p])) => EventIn(p, Wakes)'
  BY <1>1, EventTaken DEF PollInv
<1>7. PollAliveAt(p)'
  BY <1>2, <1>4, <1>5, <1>6 DEF PollInv, StatusPollAlive, PollAliveAt, PollArranged, EventIn
<1> QED BY <1>2, <1>4, <1>7, OnePod DEF PollInv

\* Whenever the status worker takes or leaves a pod worth polling, the job goes
\* on or the key is pending again.
LEMMA StatusWorkerKeepsPoll ==
    ASSUME PollInv, NEW p \in Pods, StatusWorker(p)
    PROVE  StatusPollAlive'
<1>0. /\ statusQ \in Queue /\ Get(statusQ, p) \in Queue /\ Forget(Get(statusQ, p), p) \in Queue
      /\ statusJob \in [Pods -> Job(StatusPoints)]
  BY QueueOpsType DEF PollInv, TypeOK
<1>1. ASSUME NEW at \in StatusPoints, NEW pod, NEW inst, StatusCalls(p, at, pod, inst)
      PROVE  /\ statusJob'[p].at # "idle"
             /\ \A j \in Pods \ {p} : statusJob'[j] = statusJob[j]
  BY <1>0, <1>1 DEF StatusCalls, StatusPoints
<1>2. ASSUME NEW q, NEW add, NEW err, StatusReturns(q, p, add, err)
      PROVE  \A j \in Pods \ {p} : statusJob'[j] = statusJob[j]
  BY <1>0, <1>2 DEF StatusReturns
<1>3. {"getStatus", "getCached", "create", "updateStatus"} = StatusPoints
  BY DEF StatusPoints
<1>4. cache' = cache /\ events' = events
  BY DEF StatusWorker, StatusTake, StatusGetStatus, StatusGetCached, StatusCreate,
         StatusUpdateStatus, StatusStep, informerVars
<1> DEFINE Others == \A j \in Pods \ {p} : /\ statusJob'[j] = statusJob[j]
                                           /\ Pending(statusQ, j) => Pending(statusQ', j)
           Arranged == Pending(statusQ', p) \/ statusJob'[p].at # "idle"
<1>5. \A j \in Pods \ {p} : Pending(statusQ, j) => Pending(Get(statusQ, p), j)
  BY <1>0, PendingKept
<1>6. ASSUME NEW q \in Queue, NEW add \in BOOLEAN, NEW err, StatusReturns(q, p, add, err),
             \A j \in Pods \ {p} : Pending(statusQ, j) => Pending(q, j)
      PROVE  Others /\ (add => Arranged)
  BY <1>2, <1>6, StatusReturnsPending
<1>7. ASSUME NEW at \in StatusPoints, NEW pod, NEW inst, StatusCalls(p, at, pod, inst),
             statusQ' = statusQ \/ statusQ' = Get(statusQ, p)
      PROVE  Others /\ Arranged
  BY <1>1, <1>5, <1>7
<1> HIDE DEF Others, Arranged
<1>8. SUFFICES Others /\ (Pollable(cache[p]) => Arranged)
  <2>1. Others /\ (Pollable(cache[p]) => Arranged) => PollAliveAt(p)'
    BY <1>4 DEF PollAliveAt, PollArranged, Arranged
  <2> QED BY <1>4, <2>1, OnePod DEF PollInv, Others
<1>9. CASE StatusTake(p)
  <2> DEFINE q == Get(statusQ, p)
  <2>1. CASE StatusReturns(q, p, TRUE, TRUE)
    BY <1>0, <1>5, <1>6, <2>1
  <2>2. CASE StatusReturns(Forget(q, p), p, FALSE, FALSE)
             /\ (cache[p] = NoPod \/ Finished(cache[p]))
    <3>1. \A j \in Pods \ {p} : Pending(statusQ, j) => Pending(Forget(q, p), j)
      BY <1>0, <1>5, PendingKept
    <3>2. Others
      BY <1>0, <1>6, <2>2, <3>1
    <3> QED BY <2>2, <3>2 DEF Pollable
  <2>3. CASE StatusReturns(q, p, FALSE, FALSE) /\ filterPodFunc(cache[p])
    <3>1. Others
      BY <1>0, <1>5, <1>6, <2>3
    <3> QED BY <2>3, <3>1 DEF Pollable, filterPodFunc
  <2>4. CASE StatusCalls(p, "getStatus", cache[p], NoInstance) /\ statusQ' = q
    BY <1>3, <1>7, <2>4
  <2> QED BY <1>9, <2>1, <2>2, <2>3, <2>4 DEF StatusTake
<1>10. CASE StatusGetStatus(p)
  <2>1. \/ \E at \in StatusPoints : \E pod, inst : StatusCalls(p, at, pod, inst) /\ statusQ' = statusQ
        \/ \E err : StatusReturns(statusQ, p, TRUE, err)
    BY <1>3, <1>10 DEF StatusGetStatus
  <2> QED BY <1>0, <1>6, <1>7, <2>1
<1>11. CASE StatusGetCached(p)
  <2>1. \/ \E at \in StatusPoints : \E pod, inst : StatusCalls(p, at, pod, inst) /\ statusQ' = statusQ
        \/ \E err : StatusReturns(statusQ, p, TRUE, err)
    BY <1>3, <1>11 DEF StatusGetCached
  <2> QED BY <1>0, <1>6, <1>7, <2>1
<1>12. CASE StatusCreate(p) \/ StatusUpdateStatus(p)
  <2>1. \E err : StatusReturns(statusQ, p, TRUE, err)
    BY <1>12 DEF StatusCreate, StatusUpdateStatus
  <2> QED BY <1>0, <1>6, <2>1
<1> QED BY <1>9, <1>10, <1>11, <1>12 DEF StatusWorker

\* Everything but the informer, its handlers, the status worker, its timer and
\* a restart leaves the poll alone.
LEMMA PollStep == PollInv /\ [Next]_vars => StatusPollAlive'
<1> SUFFICES ASSUME PollInv, [Next]_vars PROVE StatusPollAlive'
  OBVIOUS
<1>1. ASSUME UNCHANGED <<cache, events, statusJob, statusQ>> PROVE StatusPollAlive'
  BY <1>1, PollUntouched DEF PollInv
<1>2. CASE UNCHANGED vars
  BY <1>1, <1>2 DEF vars, informerVars, queues, jobs
<1>3. CASE Run
  <2>1. CASE InformerList
    BY <2>1, ListWakes
  <2>2. CASE ~InformerList
    BY <1>1, <1>3, <2>2 DEF Run, ListProviderPods, MarkDangling, StartWorkers, DeleteDangling,
                           informerVars, queues, jobs
  <2> QED BY <2>1, <2>2
<1>4. CASE Stop
  BY <1>1, <1>4 DEF Stop, informerVars, queues, jobs
<1>5. CASE Restart
  <2>1. \A p \in Pods : cache'[p] = NoPod
    BY <1>5 DEF Restart, NothingCached
  <2> QED BY <2>1 DEF StatusPollAlive, Pollable
<1>6. ASSUME NEW p \in Pods, User(p) \/ ContainersProgress(p) PROVE StatusPollAlive'
  BY <1>1, <1>6 DEF User, UserCreate, UserUpdate, UserDelete, UserForceDelete,
                    ContainersProgress, informerVars, queues, jobs
<1>7. ASSUME NEW p \in Pods, SyncWorker(p) PROVE StatusPollAlive'
  BY <1>1, <1>7 DEF SyncWorker, SyncTake, SyncStep, SyncDeleteMissing, SyncDeleteProviderPod,
                    SyncGetPod, SyncCreate, SyncUpdate, informerVars
<1>8. ASSUME NEW p \in Pods, DeleteWorker(p) PROVE StatusPollAlive'
  BY <1>1, <1>8 DEF DeleteWorker, DeleteTake, DeleteStep, DeleteDeletePod,
                    DeleteDeleteProviderPod, informerVars
<1>9. ASSUME NEW p \in Pods, SyncDelayElapsed(p) \/ DeleteDelayElapsed(p) PROVE StatusPollAlive'
  BY <1>1, <1>9 DEF SyncDelayElapsed, DeleteDelayElapsed, informerVars, jobs
<1>10. ASSUME NEW p \in Pods, StatusDelayElapsed(p) PROVE StatusPollAlive'
  <2>1. /\ cache' = cache /\ events' = events /\ statusJob' = statusJob
        /\ \A j \in Pods : Pending(statusQ, j) => Pending(statusQ', j)
    BY <1>10, PendingKept DEF PollInv, TypeOK, StatusDelayElapsed, informerVars, jobs
  <2> QED BY <2>1 DEF PollInv, StatusPollAlive, EventIn, Wakes
<1> QED BY <1>2, <1>3, <1>4, <1>5, <1>6, <1>7, <1>8, <1>9, <1>10, WatchWakes, ResyncKeepsPoll,
           HandlersKeepPoll, StatusWorkerKeepsPoll DEF Next

\* A pod keeps its number while it exists, and UserCreate, which gives it, counts up.
LEMMA UidStep == PollInv /\ [Next]_vars => ApiHasUids'
<1> SUFFICES ASSUME PollInv, [Next]_vars PROVE ApiHasUids'
  OBVIOUS
<1>0. api \in [Pods -> Pod] /\ uids \in [Pods -> Nat] /\ NoPod.uid = 0 /\ ApiHasUids
  BY DEF PollInv, TypeOK, NoPod
<1>1. ASSUME UNCHANGED api PROVE ApiHasUids'
  BY <1>0, <1>1 DEF ApiHasUids
<1>2. ASSUME NEW p \in Pods, NEW pod, pod = NoPod \/ pod.uid # 0, api' = [api EXCEPT ![p] = pod]
      PROVE  ApiHasUids'
  BY <1>0, <1>2 DEF ApiHasUids
<1>3. CASE UNCHANGED vars
  BY <1>1, <1>3 DEF vars, envVars
<1>4. ASSUME NEW p \in Pods, User(p) PROVE ApiHasUids'
  <2>1. CASE UserCreate(p)
    <3>1. PICK host \in HostKinds :
             api' = [api EXCEPT ![p] = [uid |-> uids[p] + 1, rv |-> 1, spec |-> 1, host |-> host,
                                        deletionTimestamp |-> 0, status |-> "pending"]]
      BY <2>1 DEF UserCreate
    <3>2. uids[p] + 1 # 0
      BY <1>0
    <3> QED BY <1>2, <3>1, <3>2
  <2>2. CASE UserUpdate(p)
    BY <1>0, <2>2 DEF UserUpdate, ApiHasUids, Pod
  <2>3. CASE UserDelete(p)
    BY <1>0, <2>3 DEF UserDelete, ApiHasUids, Pod
  <2>4. CASE UserForceDelete(p)
    BY <1>2, <2>4 DEF UserForceDelete
  <2> QED BY <1>4, <2>1, <2>2, <2>3, <2>4 DEF User
<1>5. ASSUME NEW p \in Pods, DeleteDeletePod(p) PROVE ApiHasUids'
  <2>1. api' = api \/ api' = [api EXCEPT ![p] = NoPod]
    BY <1>5 DEF DeleteDeletePod, ApiDeletePod
  <2> QED BY <1>1, <1>2, <2>1
<1>6. ASSUME NEW p \in Pods, StatusUpdateStatus(p) PROVE ApiHasUids'
  <2>1. PICK status, result : ApiUpdateStatus(p, statusJob[p].pod, status, result)
    BY <1>6 DEF StatusUpdateStatus
  <2> DEFINE written == [api[p] EXCEPT !.status = status, !.rv = @ + 1]
  <2>2. \/ api' = api
        \/ api[p] # NoPod /\ api' = [api EXCEPT ![p] = written]
    BY <2>1 DEF ApiUpdateStatus
  <2>3. api[p] # NoPod => written.uid # 0
    BY <1>0 DEF ApiHasUids, Pod
  <2> HIDE DEF written
  <2> QED BY <1>1, <1>2, <2>2, <2>3
<1>7. ASSUME NEW p \in Pods, DeleteTake(p) \/ DeleteDeleteProviderPod(p) PROVE ApiHasUids'
  BY <1>1, <1>7 DEF DeleteTake, DeleteDeleteProviderPod, envVars
<1>8. ASSUME NEW p \in Pods, StatusTake(p) \/ StatusGetStatus(p) \/ StatusGetCached(p) \/ StatusCreate(p)
      PROVE  ApiHasUids'
  BY <1>1, <1>8 DEF StatusTake, StatusGetStatus, StatusGetCached, StatusCreate, envVars
<1>9. ASSUME NEW p \in Pods, SyncWorker(p) PROVE ApiHasUids'
  BY <1>1, <1>9 DEF SyncWorker, SyncTake, SyncStep, SyncDeleteMissing, SyncDeleteProviderPod,
                    SyncGetPod, SyncCreate, SyncUpdate, envVars
<1>10. ASSUME NEW p \in Pods, ContainersProgress(p) \/ InformerWatch(p) \/ InformerResync(p)
                              \/ EventHandler(p)
       PROVE  ApiHasUids'
  BY <1>1, <1>10 DEF ContainersProgress, InformerWatch, InformerResync, EventHandler, AddFunc,
                     DeleteFunc, UpdateFunc, NextEvent, envVars
<1>11. ASSUME NEW p \in Pods, SyncDelayElapsed(p) \/ DeleteDelayElapsed(p) \/ StatusDelayElapsed(p)
       PROVE  ApiHasUids'
  BY <1>1, <1>11 DEF SyncDelayElapsed, DeleteDelayElapsed, StatusDelayElapsed, envVars
<1>12. ASSUME Run \/ Stop \/ Restart PROVE ApiHasUids'
  BY <1>1, <1>12 DEF Run, Stop, Restart, InformerList, ListProviderPods, MarkDangling,
                     StartWorkers, DeleteDangling, envVars
<1> QED BY <1>3, <1>4, <1>5, <1>6, <1>7, <1>8, <1>9, <1>10, <1>11, <1>12
        DEF Next, DeleteWorker, StatusWorker

\* As long as the controller knows of a pod that is to be polled, its status key
\* is pending or being handled, or an event that queues it is on its way.
THEOREM PollAlive == Spec => []StatusPollAlive
<1>1. Init => PollInv
  <2> SUFFICES ASSUME Init PROVE PollInv
    OBVIOUS
  <2>1. StatusPollAlive /\ ApiHasUids
    BY DEF Init, NothingCached, StatusPollAlive, Pollable, ApiHasUids
  <2> QED BY <2>1, InitTypeOK DEF PollInv
<1>2. PollInv /\ [Next]_vars => PollInv'
  BY TypeStep, PollStep, UidStep DEF PollInv
<1>3. PollInv => StatusPollAlive
  BY DEF PollInv
<1> QED BY <1>1, <1>2, <1>3, PTL DEF Spec
==============================================================================
