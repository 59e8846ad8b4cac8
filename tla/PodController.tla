----------------------------- MODULE PodController -----------------------------
(***************************************************************************)
(* The pod controller, provider/sci/controller/pod.go: the pod informer's  *)
(* event handlers, the three work queues with their workers, and Run's     *)
(* start-up, together with what they act on: the pods in the API server,   *)
(* the users who create and delete them, and the provider's instances.     *)
(*                                                                         *)
(* A worker's handler is cut at every call that leaves the process, so     *)
(* anything can happen between two calls.  Taking a key, splitting it and  *)
(* reading the lister is one step, and so is the last call together with   *)
(* handleQueueItem's epilogue: what the epilogue touches is the queue      *)
(* alone, and nobody else reads what the call just wrote to the job.       *)
(* A queue never hands one key to two workers, so a queue's workers are    *)
(* given by their jobs, one per key; the lister is the informer's cache.   *)
(***************************************************************************)
EXTENDS PodObjects, FiniteSets, Sequences

CONSTANTS
    MaxRequeues,         \* retries handleQueueItem allows: 3
    Workers,             \* podSyncWorkers: goroutines per queue
    SplitAccepts,        \* numbers of "/"-fields SplitMetaNamespaceKey accepts
    NotFoundIsApiError,  \* is the provider's "not found" an apimachinery error?
    Leftovers,           \* instances an earlier process may have left behind
    \* Bounds of the checked instances, on what the environment may do.
    HostKinds,           \* whether users' pods ask something of the host
    Resyncs,             \* is the informer's resync period finite?
    ContainersExit,      \* do containers end by themselves?
    MaxUid,              \* incarnations per name, the earlier process's included
    MaxSpec,             \* spec versions per incarnation
    MaxFaults,           \* calls that fail without a reason of their own
    MaxRestarts,         \* ends of the process, orderly or not
    MaxBacklog           \* notifications the informer holds per pod

ASSUME ControllerAssumption ==
    /\ Workers \in Nat \ {0} /\ MaxRequeues \in Nat
    /\ SplitAccepts \subseteq Nat
    /\ NotFoundIsApiError \in BOOLEAN
    /\ HostKinds \subseteq BOOLEAN /\ ContainersExit \in BOOLEAN /\ Resyncs \in BOOLEAN
    /\ Leftovers \subseteq {i \in Instance : i.uid = 1}
    /\ {MaxUid, MaxSpec, MaxFaults, MaxRestarts, MaxBacklog} \subseteq Nat

VARIABLES
    api,        \* the API server's pods
    uids,       \* the last uid given to each name
    prov,       \* the provider's instances
    cache,      \* the informer's store, which podsLister reads
    events,     \* notifications the informer has still to deliver, per pod
    syncQ,      \* syncPodsFromKubernetesQueue
    deleteQ,    \* deletePodsFromKubernetesQueue
    statusQ,    \* syncPodStatusFromProviderQueue
    syncJob, deleteJob, statusJob,  \* what each queue's workers are doing
    phase,      \* how far Run has come
    dangling,   \* deleteDanglingPods' list: pps, then ptd
    gaveUp,     \* keys forgotten with "max retry reached" since their last event
    faults, restarts

envVars == <<api, uids, prov, faults, restarts>>
informerVars == <<cache, events>>
queues == <<syncQ, deleteQ, statusQ>>
jobs == <<syncJob, deleteJob, statusJob>>
runVars == <<phase, dangling>>
vars == <<envVars, informerVars, queues, jobs, runVars, gaveUp>>

INSTANCE WorkQueue WITH Keys <- Pods

Idle == [at |-> "idle", pod |-> NoPod, inst |-> NoInstance]

\* at: the call the job makes next; pod: the copy it works on, while a call
\* still needs it; inst: what the provider answered (ppod in the sync handler,
\* podStatus in the status handler).
Job(points) == [at: points \cup {"idle"}, pod: Pod, inst: Instance]

SyncPoints   == {"deleteMissing", "deleteProviderPod", "getPod", "create", "update"}
DeletePoints == {"deletePod", "deleteProviderPod"}
StatusPoints == {"getStatus", "getCached", "create", "updateStatus"}
Phases       == {"syncing", "listing", "checking", "deleting", "running", "stopped"}

TypeOK ==
    /\ api \in [Pods -> Pod]
    /\ uids \in [Pods -> Nat]
    /\ prov \in [Pods -> Instance]
    /\ cache \in [Pods -> Pod]
    /\ events \in [Pods -> Seq([old: Pod, new: Pod])]
    /\ syncQ \in Queue /\ deleteQ \in Queue /\ statusQ \in Queue
    /\ syncJob \in [Pods -> Job(SyncPoints)]
    /\ deleteJob \in [Pods -> Job(DeletePoints)]
    /\ statusJob \in [Pods -> Job(StatusPoints)]
    /\ phase \in Phases
    /\ dangling \subseteq Pods
    /\ gaveUp \subseteq Pods
    /\ faults \in Nat /\ restarts \in Nat

NothingCached == [p \in Pods |-> NoPod]
NoEvents      == [p \in Pods |-> <<>>]
AllIdle       == [p \in Pods |-> Idle]

Init ==
    /\ api = [p \in Pods |-> NoPod]
    /\ uids = [p \in Pods |-> 1]
    /\ prov \in [Pods -> {NoInstance} \cup Leftovers]
    /\ faults = 0 /\ restarts = 0
    /\ cache = NothingCached /\ events = NoEvents
    /\ syncQ = EmptyQueue /\ deleteQ = EmptyQueue /\ statusQ = EmptyQueue
    /\ syncJob = AllIdle /\ deleteJob = AllIdle /\ statusJob = AllIdle
    /\ phase = "syncing" /\ dangling = {} /\ gaveUp = {}

------------------------------------------------------------------------------
(* Users, the provider's own progress, and calls into the two.             *)

UserCreate(p) ==
    /\ api[p] = NoPod /\ uids[p] < MaxUid
    /\ uids' = [uids EXCEPT ![p] = @ + 1]
    /\ \E host \in HostKinds :
         api' = [api EXCEPT ![p] = [uid |-> uids[p] + 1, rv |-> 1, spec |-> 1, host |-> host,
                                    deletionTimestamp |-> 0, status |-> "pending"]]
    /\ UNCHANGED <<prov, faults, restarts, informerVars, queues, jobs, runVars, gaveUp>>

\* A change of image, labels or anything else podsEqual compares.
UserUpdate(p) ==
    /\ api[p] # NoPod /\ api[p].spec < MaxSpec
    /\ api' = [api EXCEPT ![p] = [api[p] EXCEPT !.spec = @ + 1, !.rv = @ + 1]]
    /\ UNCHANGED <<uids, prov, faults, restarts, informerVars, queues, jobs, runVars, gaveUp>>

\* Graceful: the API server stamps the pod and waits for the kubelet.
UserDelete(p) ==
    /\ api[p] # NoPod /\ ~Deleting(api[p])
    /\ api' = [api EXCEPT ![p] = [api[p] EXCEPT !.deletionTimestamp = api[p].uid, !.rv = @ + 1]]
    /\ UNCHANGED <<uids, prov, faults, restarts, informerVars, queues, jobs, runVars, gaveUp>>

\* With a grace period of zero the pod is gone at once.
UserForceDelete(p) ==
    /\ api[p] # NoPod
    /\ api' = [api EXCEPT ![p] = NoPod]
    /\ UNCHANGED <<uids, prov, faults, restarts, informerVars, queues, jobs, runVars, gaveUp>>

\* The containers start, and may end, by themselves.
ContainersProgress(p) ==
    /\ prov[p] # NoInstance
    /\ \/ prov[p].state = "pending" /\ prov' = [prov EXCEPT ![p].state = "running"]
       \/ /\ prov[p].state = "running" /\ ContainersExit
          /\ prov' = [prov EXCEPT ![p].state = "exited"]
    /\ UNCHANGED <<api, uids, faults, restarts, informerVars, queues, jobs, runVars, gaveUp>>

Fails == faults < MaxFaults /\ faults' = faults + 1
Works == UNCHANGED faults

\* errors.IsNotFound: the error has to be of the API machinery's own type.
IsNotFound(result) == result = "notFound" /\ NotFoundIsApiError

\* A failed call may have had its effect all the same.
ProviderDeletePod(p, result) ==
    \/ /\ result = "ok" /\ Works /\ prov[p] # NoInstance
       /\ prov' = [prov EXCEPT ![p] = NoInstance]
    \/ result = "notFound" /\ Works /\ prov[p] = NoInstance /\ UNCHANGED prov
    \/ /\ result = "error" /\ Fails
       /\ prov' \in {prov, [prov EXCEPT ![p] = NoInstance]}

ProviderGet(p, result) ==
    /\ UNCHANGED prov
    /\ \/ result = "ok" /\ Works /\ prov[p] # NoInstance
       \/ result = "notFound" /\ Works /\ prov[p] = NoInstance
       \/ result = "error" /\ Fails

ProviderCreatePod(p, pod, result) ==
    LET created == [prov EXCEPT ![p] = [uid |-> pod.uid, spec |-> pod.spec,
                                        state |-> "pending", labelled |-> TRUE]]
    IN  \/ result = "ok" /\ Works /\ prov[p] = NoInstance /\ prov' = created
        \/ result = "error" /\ Works /\ prov[p] # NoInstance /\ UNCHANGED prov
        \/ /\ result = "error" /\ Fails /\ prov[p] = NoInstance
           /\ prov' \in {prov, created}

\* UpdatePod on a nil pod does nothing: it may or may not be reported.
ProviderUpdatePod(p, ppod, result) ==
    LET updated == [prov EXCEPT ![p].spec = ppod.spec]
    IN  \/ /\ ppod = NoInstance /\ result \in {"ok", "error"}
           /\ Works /\ UNCHANGED prov
        \/ /\ ppod # NoInstance /\ prov[p] # NoInstance /\ Works
           /\ result = "ok" /\ prov' = updated
        \/ /\ ppod # NoInstance /\ prov[p] = NoInstance /\ Works
           /\ result = "notFound" /\ UNCHANGED prov
        \/ /\ ppod # NoInstance /\ prov[p] # NoInstance /\ Fails
           /\ result = "error" /\ prov' \in {prov, updated}

\* Pods(ns).Delete(name, 0): by name alone, whatever the incarnation.
ApiDeletePod(p, result) ==
    \/ /\ result = "ok" /\ Works /\ api[p] # NoPod
       /\ api' = [api EXCEPT ![p] = NoPod]
    \/ result = "notFound" /\ Works /\ api[p] = NoPod /\ UNCHANGED api
    \/ /\ result = "error" /\ Fails
       /\ api' \in {api, [api EXCEPT ![p] = NoPod]}

\* UpdateStatus fails on any version but the one the copy was read at, and a
\* write that changes nothing makes no new version.
ApiUpdateStatus(p, pod, status, result) ==
    LET written == IF api[p].status = status THEN api
                   ELSE [api EXCEPT ![p] = [api[p] EXCEPT !.status = status, !.rv = @ + 1]]
    IN  \/ /\ result = "ok" /\ Works /\ api[p] # NoPod /\ SameVersion(api[p], pod)
           /\ api' = written
        \/ /\ result = "error" /\ Works /\ ~SameVersion(api[p], pod)
           /\ UNCHANGED api
        \/ /\ result = "error" /\ Fails /\ api[p] # NoPod /\ SameVersion(api[p], pod)
           /\ api' \in {api, written}

------------------------------------------------------------------------------
(* The informer.  Its store follows the API server, skipping versions when *)
(* it has to list again, and each change is handed to the event handlers   *)
(* later, in order.                                                        *)

\* Mutant: Run does not wait for the cache to be in sync.
InformerList_NotWaited ==
    /\ phase = "syncing"
    /\ phase' = "listing"
    /\ UNCHANGED <<envVars, informerVars, queues, jobs, dangling, gaveUp>>

InformerList ==
    /\ phase = "syncing"
    /\ cache' = api
    /\ events' = [p \in Pods |->
                    IF api[p] = NoPod THEN <<>> ELSE <<[old |-> NoPod, new |-> api[p]]>>]
    /\ phase' = "listing"
    /\ UNCHANGED <<envVars, queues, jobs, dangling, gaveUp>>

InformerUp == phase \notin {"syncing", "stopped"}

InformerWatch(p) ==
    /\ InformerUp
    /\ ~SameVersion(api[p], cache[p])
    /\ Len(events[p]) < MaxBacklog
    /\ cache' = [cache EXCEPT ![p] = api[p]]
    /\ events' = [events EXCEPT ![p] = Append(@, [old |-> cache[p], new |-> api[p]])]
    /\ UNCHANGED <<envVars, queues, jobs, runVars, gaveUp>>

\* Every resync period each cached pod is handed to UpdateFunc as it is.
InformerResync(p) ==
    /\ InformerUp /\ Resyncs
    /\ cache[p] # NoPod /\ events[p] = <<>>
    /\ events' = [events EXCEPT ![p] = <<[old |-> cache[p], new |-> cache[p]]>>]
    /\ UNCHANGED <<envVars, cache, queues, jobs, runVars, gaveUp>>

NextEvent(p) ==
    /\ events[p] # <<>>
    /\ events' = [events EXCEPT ![p] = Tail(@)]
    /\ UNCHANGED <<envVars, cache, jobs, runVars>>

AddFunc(p) ==
    /\ NextEvent(p)
    /\ Head(events[p]).old = NoPod
    /\ syncQ' = AddRateLimited(syncQ, p)
    /\ statusQ' = AddRateLimited(Forget(statusQ, p), p)
    /\ gaveUp' = gaveUp \ {p}
    /\ UNCHANGED deleteQ

\* A deletion the watch missed arrives as a tombstone, which is not a Pod.
DeleteFunc(p) ==
    /\ NextEvent(p)
    /\ Head(events[p]).new = NoPod
    /\ \/ statusQ' = Forget(statusQ, p) /\ deleteQ' = Forget(deleteQ, p)
       \/ UNCHANGED <<statusQ, deleteQ>>
    /\ UNCHANGED <<syncQ, gaveUp>>

UpdateFunc(p) ==
    LET old == Head(events[p]).old
        new == Head(events[p]).new
    IN  /\ NextEvent(p)
        /\ old # NoPod /\ new # NoPod
        /\ \/ SameVersion(old, new) /\ UNCHANGED <<queues, gaveUp>>
           \/ /\ ~SameVersion(old, new)
              /\ statusQ' = AddRateLimited(Forget(statusQ, p), p)
              /\ \/ /\ podShouldEnqueue(old, new)
                    /\ syncQ' = AddRateLimited(syncQ, p)
                    /\ gaveUp' = gaveUp \ {p}
                 \/ ~podShouldEnqueue(old, new) /\ UNCHANGED <<syncQ, gaveUp>>
              /\ UNCHANGED deleteQ

------------------------------------------------------------------------------
(* Run: deleteDanglingPods once the caches are in sync, then the workers.  *)

ListProviderPods ==
    /\ phase = "listing"
    /\ \/ /\ Works
          /\ dangling' = {p \in Pods : prov[p] # NoInstance /\ prov[p].labelled}
          /\ phase' = "checking"
       \/ /\ Fails                       \* best effort: Run goes on
          /\ dangling' = {} /\ phase' = "deleting"
    /\ UNCHANGED <<api, uids, prov, restarts, informerVars, queues, jobs, gaveUp>>

\* Mutant: the lister is not asked.
MarkDangling_All ==
    /\ phase = "checking"
    /\ phase' = "deleting"
    /\ UNCHANGED <<envVars, informerVars, queues, jobs, dangling, gaveUp>>

MarkDangling ==
    /\ phase = "checking"
    /\ dangling' = {p \in dangling : cache[p] = NoPod}
    /\ phase' = "deleting"
    /\ UNCHANGED <<envVars, informerVars, queues, jobs, gaveUp>>

DeleteDangling(p) ==
    /\ phase = "deleting" /\ p \in dangling
    /\ \E result \in {"ok", "notFound", "error"} : ProviderDeletePod(p, result)
    /\ dangling' = dangling \ {p}
    /\ UNCHANGED <<api, uids, restarts, informerVars, queues, jobs, phase, gaveUp>>

\* Mutant: nobody waits for the deletions.
StartWorkers_NoWait ==
    /\ phase = "deleting"
    /\ phase' = "running"
    /\ UNCHANGED <<envVars, informerVars, queues, jobs, dangling, gaveUp>>

StartWorkers ==
    /\ phase = "deleting" /\ dangling = {}
    /\ phase' = "running"
    /\ UNCHANGED <<envVars, informerVars, queues, jobs, dangling, gaveUp>>

\* The context is cancelled and Run returns: it neither shuts the queues down
\* nor waits for the workers.
Stop ==
    /\ phase = "running" /\ restarts < MaxRestarts
    /\ phase' = "stopped"
    /\ UNCHANGED <<envVars, informerVars, queues, jobs, dangling, gaveUp>>

\* The process ends, at any point, and another one is started.
Restart ==
    /\ restarts < MaxRestarts
    /\ restarts' = restarts + 1
    /\ cache' = NothingCached /\ events' = NoEvents
    /\ syncQ' = EmptyQueue /\ deleteQ' = EmptyQueue /\ statusQ' = EmptyQueue
    /\ syncJob' = AllIdle /\ deleteJob' = AllIdle /\ statusJob' = AllIdle
    /\ phase' = "syncing" /\ dangling' = {} /\ gaveUp' = {}
    /\ UNCHANGED <<api, uids, prov, faults>>

------------------------------------------------------------------------------
(* The workers.  handleQueueItem takes a key, runs the queue's handler and *)
(* hands the key back.                                                     *)

WorkersUp == phase \in {"running", "stopped"}

CanTake(q, p) == WorkersUp /\ CanGet(q, p) /\ Cardinality(q.processing) < Workers

\* The handlers' keys are "namespace/name/cluster".
KeySplits == 3 \in SplitAccepts

RetriesLeft(q, p) == NumRequeues(q, p) < MaxRequeues

\* Mutant: Done is not deferred, and not reached when the key is given up.
HandlerReturned_NotDone(q, p, err) ==
    IF ~err THEN Done(Forget(q, p), p)
    ELSE IF RetriesLeft(q, p) THEN Done(AddRateLimited(q, p), p) ELSE Forget(q, p)

\* What handleQueueItem does with the key once the handler has returned.
HandlerReturned(q, p, err) ==
    Done(IF err /\ RetriesLeft(q, p) THEN AddRateLimited(q, p) ELSE Forget(q, p), p)

GaveUpAfter(q, p, err) == IF err /\ ~RetriesLeft(q, p) THEN gaveUp \cup {p} ELSE gaveUp

\* syncHandler goes on with the call at, or returns.
SyncCalls(p, at, pod, inst) ==
    /\ syncJob' = [syncJob EXCEPT ![p] = [at |-> at, pod |-> pod, inst |-> inst]]
    /\ UNCHANGED gaveUp

SyncReturns(q, p, err) ==
    /\ syncQ' = HandlerReturned(q, p, err)
    /\ syncJob' = [syncJob EXCEPT ![p] = Idle]
    /\ gaveUp' = GaveUpAfter(q, p, err)

SyncTake(p) ==
    LET pod == cache[p]
        q == Get(syncQ, p)
    IN  /\ CanTake(syncQ, p)
        /\ \/ /\ ~KeySplits
              /\ SyncReturns(q, p, TRUE) /\ UNCHANGED deleteQ
           \/ /\ KeySplits /\ pod = NoPod
              /\ SyncCalls(p, "deleteMissing", NoPod, NoInstance)
              /\ syncQ' = q /\ UNCHANGED deleteQ
           \/ /\ KeySplits /\ Finished(pod)
              /\ deleteQ' = Add(deleteQ, p)
              /\ SyncReturns(q, p, FALSE)
           \/ /\ KeySplits /\ Deleting(pod) /\ ~Finished(pod)
              /\ SyncCalls(p, "deleteProviderPod", NoPod, NoInstance)
              /\ syncQ' = q /\ UNCHANGED deleteQ
           \/ /\ KeySplits /\ pod # NoPod /\ ~Deleting(pod) /\ ~Finished(pod)
              /\ filterPodFunc(pod)
              /\ SyncReturns(q, p, FALSE) /\ UNCHANGED deleteQ
           \/ /\ KeySplits /\ pod # NoPod /\ ~Deleting(pod) /\ ~Finished(pod)
              /\ ~filterPodFunc(pod)
              /\ SyncCalls(p, "getPod", pod, NoInstance)
              /\ syncQ' = q /\ UNCHANGED deleteQ
        /\ UNCHANGED <<envVars, informerVars, statusQ, deleteJob, statusJob, runVars>>

SyncStep(p, at) ==
    /\ syncJob[p].at = at
    /\ UNCHANGED <<api, uids, restarts, informerVars, statusQ, deleteJob, statusJob, runVars>>

SyncDeleteMissing(p) ==
    /\ SyncStep(p, "deleteMissing")
    /\ \E result \in {"ok", "notFound", "error"} :
         /\ ProviderDeletePod(p, result)
         /\ SyncReturns(syncQ, p, result # "ok" /\ ~IsNotFound(result))
    /\ UNCHANGED deleteQ

\* Mutant: a pod the provider does not know ends the deletion.
SyncDeleteProviderPod_OnlyFound(p) ==
    /\ SyncStep(p, "deleteProviderPod")
    /\ \E result \in {"ok", "notFound", "error"} :
         /\ ProviderDeletePod(p, result)
         /\ SyncReturns(syncQ, p, result = "error")
         /\ deleteQ' = IF result = "ok" THEN AddAfter(deleteQ, p) ELSE deleteQ

\* The grace period starts when the provider has been told.
SyncDeleteProviderPod(p) ==
    /\ SyncStep(p, "deleteProviderPod")
    /\ \E result \in {"ok", "notFound", "error"} :
         LET err == result # "ok" /\ ~IsNotFound(result)
         IN  /\ ProviderDeletePod(p, result)
             /\ SyncReturns(syncQ, p, err)
             /\ deleteQ' = IF err THEN deleteQ ELSE AddAfter(deleteQ, p)

\* An answer that is not recognised as "not found" leads to an update, be it
\* an error, which comes without a pod.
SyncGetPod(p) ==
    LET pod == syncJob[p].pod
    IN  /\ SyncStep(p, "getPod")
        /\ \E result \in {"ok", "notFound", "error"} :
             /\ ProviderGet(p, result)
             /\ \/ /\ IsNotFound(result)
                   /\ SyncCalls(p, "create", pod, NoInstance)
                \/ /\ ~IsNotFound(result)
                   /\ SyncCalls(p, "update", NoPod, IF result = "ok" THEN prov[p] ELSE NoInstance)
        /\ UNCHANGED <<syncQ, deleteQ>>

SyncCreate(p) ==
    /\ SyncStep(p, "create")
    /\ \E result \in {"ok", "error"} :
         /\ ProviderCreatePod(p, syncJob[p].pod, result)
         /\ SyncReturns(syncQ, p, result = "error")
    /\ UNCHANGED deleteQ

\* The provider is given back the pod it answered with.
SyncUpdate(p) ==
    /\ SyncStep(p, "update")
    /\ \E result \in {"ok", "notFound", "error"} :
         /\ ProviderUpdatePod(p, syncJob[p].inst, result)
         /\ SyncReturns(syncQ, p, result # "ok")
    /\ UNCHANGED deleteQ

DeleteReturns(q, p, err) ==
    /\ deleteQ' = HandlerReturned(q, p, err)
    /\ deleteJob' = [deleteJob EXCEPT ![p] = Idle]
    /\ gaveUp' = GaveUpAfter(q, p, err)

DeleteCalls(p, at) ==
    /\ deleteJob' = [deleteJob EXCEPT ![p].at = at]
    /\ UNCHANGED gaveUp

DeleteTake(p) ==
    LET q == Get(deleteQ, p)
    IN  /\ CanTake(deleteQ, p)
        /\ \/ ~KeySplits /\ DeleteReturns(q, p, FALSE)
           \/ KeySplits /\ cache[p] = NoPod /\ DeleteReturns(q, p, TRUE)
           \/ KeySplits /\ cache[p] # NoPod /\ DeleteCalls(p, "deletePod") /\ deleteQ' = q
        /\ UNCHANGED <<envVars, informerVars, syncQ, statusQ, syncJob, statusJob, runVars>>

DeleteStep(p, at) ==
    /\ deleteJob[p].at = at
    /\ UNCHANGED <<uids, restarts, informerVars, syncQ, statusQ, syncJob, statusJob, runVars>>

\* Mutant: a failed deletion is not tried again.
DeleteDeletePod_NoRetry(p) ==
    /\ DeleteStep(p, "deletePod")
    /\ \E result \in {"ok", "notFound", "error"} :
         /\ ApiDeletePod(p, result)
         /\ \/ result = "error" /\ DeleteReturns(deleteQ, p, FALSE)
            \/ result # "error" /\ DeleteCalls(p, "deleteProviderPod") /\ UNCHANGED deleteQ
    /\ UNCHANGED prov

DeleteDeletePod(p) ==
    /\ DeleteStep(p, "deletePod")
    /\ \E result \in {"ok", "notFound", "error"} :
         /\ ApiDeletePod(p, result)
         /\ \/ result = "error" /\ DeleteReturns(deleteQ, p, TRUE)
            \/ result # "error" /\ DeleteCalls(p, "deleteProviderPod") /\ UNCHANGED deleteQ
    /\ UNCHANGED prov

\* The only error handed on is "not found".
DeleteDeleteProviderPod(p) ==
    /\ DeleteStep(p, "deleteProviderPod")
    /\ \E result \in {"ok", "notFound", "error"} :
         /\ ProviderDeletePod(p, result)
         /\ DeleteReturns(deleteQ, p, IsNotFound(result))
    /\ UNCHANGED api

\* Mutant: an error ends the poll, but for handleQueueItem's retries.
StatusReturns_NotOnError(q, p, shouldAddQueue, err) ==
    /\ statusQ' = HandlerReturned(IF shouldAddQueue /\ ~err THEN AddRateLimited(q, p) ELSE q,
                                  p, err)
    /\ statusJob' = [statusJob EXCEPT ![p] = Idle]

\* Mutant: the key stays polled whatever the handler found.
StatusReturns_Always(q, p, shouldAddQueue, err) ==
    /\ statusQ' = HandlerReturned(AddRateLimited(q, p), p, err)
    /\ statusJob' = [statusJob EXCEPT ![p] = Idle]

\* podStatusHandler returns: if the key stays polled, it is added before
\* handleQueueItem looks at the error.
StatusReturns(q, p, shouldAddQueue, err) ==
    /\ statusQ' = HandlerReturned(IF shouldAddQueue THEN AddRateLimited(q, p) ELSE q, p, err)
    /\ statusJob' = [statusJob EXCEPT ![p] = Idle]

StatusCalls(p, at, pod, inst) ==
    statusJob' = [statusJob EXCEPT ![p] = [at |-> at, pod |-> pod, inst |-> inst]]

StatusTake(p) ==
    LET pod == cache[p]
        q == Get(statusQ, p)
    IN  /\ CanTake(statusQ, p)
        /\ \/ ~KeySplits /\ StatusReturns(q, p, TRUE, TRUE)
           \/ /\ KeySplits /\ (pod = NoPod \/ Finished(pod))
              /\ StatusReturns(Forget(q, p), p, FALSE, FALSE)
           \/ /\ KeySplits /\ pod # NoPod /\ ~Finished(pod)
              /\ filterPodFunc(pod)
              /\ StatusReturns(q, p, FALSE, FALSE)
           \/ /\ KeySplits /\ pod # NoPod /\ ~Finished(pod)
              /\ ~filterPodFunc(pod)
              /\ StatusCalls(p, "getStatus", pod, NoInstance)
              /\ statusQ' = q
        /\ UNCHANGED <<envVars, informerVars, syncQ, deleteQ, syncJob, deleteJob, runVars, gaveUp>>

StatusStep(p, at) ==
    /\ statusJob[p].at = at
    /\ UNCHANGED <<uids, restarts, informerVars, syncQ, deleteQ, syncJob, deleteJob, runVars,
                   gaveUp>>

StatusGetStatus(p) ==
    LET pod == statusJob[p].pod
    IN  /\ StatusStep(p, "getStatus")
        /\ \E result \in {"ok", "notFound", "error"} :
             /\ ProviderGet(p, result)
             /\ \/ /\ IsNotFound(result)
                   /\ StatusCalls(p, "getCached", pod, NoInstance) /\ UNCHANGED statusQ
                \/ /\ result # "ok" /\ ~IsNotFound(result)
                   /\ StatusReturns(statusQ, p, TRUE, TRUE)
                \/ /\ result = "ok" /\ podStatusEffectiveEqual(pod.status, prov[p].state)
                   /\ StatusReturns(statusQ, p, TRUE, FALSE)
                \/ /\ result = "ok" /\ ~podStatusEffectiveEqual(pod.status, prov[p].state)
                   /\ StatusCalls(p, "updateStatus", pod, prov[p]) /\ UNCHANGED statusQ
        /\ UNCHANGED api

\* Mutant: a pod that is being deleted leaves the poll.
StatusGetCached_LeavesPoll(p) ==
    /\ StatusStep(p, "getCached")
    /\ \/ /\ cache[p] = NoPod \/ Deleting(cache[p])
          /\ StatusReturns(statusQ, p, FALSE, FALSE)
       \/ /\ cache[p] # NoPod /\ ~Deleting(cache[p])
          /\ StatusCalls(p, "create", cache[p], NoInstance) /\ UNCHANGED statusQ
    /\ UNCHANGED <<api, prov, faults>>

\* Mutant: a pod the provider does not have is left to the sync worker.
StatusGetCached_NoCreate(p) ==
    /\ StatusStep(p, "getCached")
    /\ StatusReturns(statusQ, p, TRUE, FALSE)
    /\ UNCHANGED <<api, prov, faults>>

\* The lister is read a second time; podFilterFunc is not asked again.
StatusGetCached(p) ==
    /\ StatusStep(p, "getCached")
    /\ \/ /\ cache[p] = NoPod \/ Deleting(cache[p])
          /\ StatusReturns(statusQ, p, TRUE, FALSE)
       \/ /\ cache[p] # NoPod /\ ~Deleting(cache[p])
          /\ StatusCalls(p, "create", cache[p], NoInstance) /\ UNCHANGED statusQ
    /\ UNCHANGED <<api, prov, faults>>

\* Whatever comes of it, the handler returns GetPodStatus' error.
StatusCreate(p) ==
    /\ StatusStep(p, "create")
    /\ \E result \in {"ok", "error"} : ProviderCreatePod(p, statusJob[p].pod, result)
    /\ StatusReturns(statusQ, p, TRUE, TRUE)
    /\ UNCHANGED api

StatusUpdateStatus(p) ==
    /\ StatusStep(p, "updateStatus")
    /\ \E result \in {"ok", "error"} :
         /\ ApiUpdateStatus(p, statusJob[p].pod, statusJob[p].inst.state, result)
         /\ StatusReturns(statusQ, p, TRUE, result = "error")
    /\ UNCHANGED prov

\* A key's delay is over.
SyncDelayElapsed(p) ==
    /\ p \in syncQ.waiting
    /\ syncQ' = DelayElapsed(syncQ, p)
    /\ UNCHANGED <<envVars, informerVars, deleteQ, statusQ, jobs, runVars, gaveUp>>

DeleteDelayElapsed(p) ==
    /\ p \in deleteQ.waiting
    /\ deleteQ' = DelayElapsed(deleteQ, p)
    /\ UNCHANGED <<envVars, informerVars, syncQ, statusQ, jobs, runVars, gaveUp>>

StatusDelayElapsed(p) ==
    /\ p \in statusQ.waiting
    /\ statusQ' = DelayElapsed(statusQ, p)
    /\ UNCHANGED <<envVars, informerVars, syncQ, deleteQ, jobs, runVars, gaveUp>>

------------------------------------------------------------------------------
User(p) == UserCreate(p) \/ UserUpdate(p) \/ UserDelete(p) \/ UserForceDelete(p)

EventHandler(p) == AddFunc(p) \/ DeleteFunc(p) \/ UpdateFunc(p)

SyncWorker(p) == \/ SyncTake(p) \/ SyncDeleteMissing(p) \/ SyncDeleteProviderPod(p)
                 \/ SyncGetPod(p) \/ SyncCreate(p) \/ SyncUpdate(p)

DeleteWorker(p) == DeleteTake(p) \/ DeleteDeletePod(p) \/ DeleteDeleteProviderPod(p)

StatusWorker(p) == \/ StatusTake(p) \/ StatusGetStatus(p) \/ StatusGetCached(p)
                   \/ StatusCreate(p) \/ StatusUpdateStatus(p)

Run == InformerList \/ ListProviderPods \/ MarkDangling \/ StartWorkers
       \/ \E p \in Pods : DeleteDangling(p)

Next ==
    \/ Run \/ Stop \/ Restart
    \/ \E p \in Pods :
         \/ User(p) \/ ContainersProgress(p)
         \/ InformerWatch(p) \/ InformerResync(p) \/ EventHandler(p)
         \/ SyncWorker(p) \/ DeleteWorker(p) \/ StatusWorker(p)
         \/ SyncDelayElapsed(p) \/ DeleteDelayElapsed(p) \/ StatusDelayElapsed(p)

Spec == Init /\ [][Next]_vars

\* Every goroutine that can go on does, and every delay ends.  Nothing is asked
\* of the users, of faults, of restarts, of resyncs and of the containers.
Fairness ==
    /\ WF_vars(Run)
    /\ \A p \in Pods :
         /\ WF_vars(InformerWatch(p)) /\ WF_vars(EventHandler(p))
         /\ WF_vars(SyncWorker(p)) /\ WF_vars(DeleteWorker(p)) /\ WF_vars(StatusWorker(p))
         /\ WF_vars(SyncDelayElapsed(p)) /\ WF_vars(DeleteDelayElapsed(p))
         /\ WF_vars(StatusDelayElapsed(p))

FairSpec == Spec /\ Fairness
==============================================================================
