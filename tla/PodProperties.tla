----------------------------- MODULE PodProperties -----------------------------
(* What the pod controller should get right, whatever the interleaving.    *)
EXTENDS PodController

\* A pod the status worker has reason to look at: it is not refused, and it
\* is not on its way out with its containers stopped (pod.go:414-424).
Pollable(pod) ==
    /\ pod # NoPod
    /\ ~pod.host
    /\ ~Finished(pod)

\* The event makes UpdateFunc or AddFunc queue the pod's status key.
Wakes(event) == event.new # NoPod /\ ~SameVersion(event.old, event.new)

EventIn(p, Test(_)) == \E i \in 1..Len(events[p]) : Test(events[p][i])

\* The poll of a pod's status never dies out: each poll arranges the next one,
\* by the deferred AddRateLimited of podStatusHandler, although the handler's
\* errors use up retries and "max retry reached" forgets the key (pod.go:382-392
\* and 662-674).
StatusPollAlive ==
    \A p \in Pods :
        Pollable(cache[p]) =>
            \/ Pending(statusQ, p)
            \/ statusJob[p].at # "idle"
            \/ EventIn(p, Wakes)

\* Each key a queue has handed out is with the job of one of its workers.
Held(q, job) == \A p \in Pods : p \in q.processing <=> job[p].at # "idle"

\* A key is handed back by every way out of a handler: done, to be retried, or
\* given up, and also when events, the poll or another queue's worker have added
\* it again meanwhile; one that is not would never be handed out again, however
\* often it is added (pod.go:651-674).
KeysHeld ==
    Held(syncQ, syncJob) /\ Held(deleteQ, deleteJob) /\ Held(statusQ, statusJob)

\* AddFunc or UpdateFunc will queue the pod's sync key.
Enqueues(event) ==
    /\ Wakes(event)
    /\ event.old = NoPod \/ podShouldEnqueue(event.old, event.new)

\* A call has failed, or "not found" is taken for a failure.
CallFailed == faults > 0 \/ ~NotFoundIsApiError

\* A deletion the controller has seen is never dropped between the event
\* handlers, the sync queue and the delayed delete queue: somebody still has it
\* to do, or the pod that was being deleted is gone from the API server, or a
\* call has failed and the retries were used up: late events, delays and handlers
\* that fail for a reason of their own are not enough (pod.go:509-525 and
\* 471-504).
DeletionTracked ==
    \A p \in Pods :
        Deleting(cache[p]) =>
            \/ Pending(syncQ, p) \/ syncJob[p].at = "deleteProviderPod"
            \/ Pending(deleteQ, p) \/ deleteJob[p].at = "deletePod"
            \/ EventIn(p, Enqueues)
            \/ p \in gaveUp /\ CallFailed
            \/ api[p].uid # cache[p].uid

\* Nothing is created at the provider for a pod that asks for something of the
\* host, but for one window: podStatusHandler filters the pod it reads first
\* and creates the one it reads after GetPodStatus (pod.go:421 and 700-706), so
\* a refused pod gets through if it took another pod's name in between.
HostPodsOnlyByReuse ==
    [][\A p \in Pods :
         /\ syncJob'[p].at = "create" => ~syncJob'[p].pod.host
         /\ statusJob[p].at = "getCached" /\ statusJob'[p].at = "create" =>
              ~statusJob'[p].pod.host \/ statusJob'[p].pod.uid # statusJob[p].pod.uid
      ]_vars

\* While names are not used twice, the deleting worker removes a pod from the
\* API server only if somebody asked for its deletion (pod.go:480-491, which
\* asks no question before it deletes).
ForceDeleteOnlyDeleted ==
    [][\A p \in Pods :
         /\ deleteJob[p].at = "deletePod" /\ deleteJob'[p].at # "deletePod"
         /\ api[p] # NoPod /\ api'[p] = NoPod
         => Deleting(api[p])]_vars

\* What users and the provider see of the controller is a PodLifecycle.
Shown(pod) ==
    [uid |-> pod.uid,
     stage |-> IF pod = NoPod THEN "none" ELSE IF Deleting(pod) THEN "going" ELSE "wanted"]

Shows == [p \in Pods |-> Shown(api[p])]

Deploys == [p \in Pods |-> prov[p].uid]

Lifecycle == INSTANCE PodLifecycle WITH
                 Names <- Pods, pods <- Shows, given <- uids, deployed <- Deploys

\* Whatever the informer has missed, the queues hold and the workers are in the
\* middle of, what the controller does is to deploy pods it was given and to take
\* down instances whose pod is deleted, or whose name is used again (pod.go:403-
\* 448, 471-525, 551-580, 583-644, 699-710).
ImplementsLifecycle == Lifecycle!Spec

------------------------------------------------------------------------------
(* Liveness, under FairSpec.                                               *)

Wanted(p) == api[p] # NoPod /\ ~Deleting(api[p]) /\ ~api[p].host

\* A pod assigned to the node is deployed, or no longer wanted, although a call
\* may fail: what the sync worker gives up on, the status poll creates
\* (pod.go:551-567 and 699-710).
PodDeployed == \A p \in Pods : Wanted(p) ~> prov[p] # NoInstance \/ ~Wanted(p)

\* A deleted pod leaves the API server, unless a call failed and the key was
\* given up.  One failed call is enough for that: AddFunc, UpdateFunc and an
\* earlier failure count against the same three retries (pod.go:235, 263 and
\* 663-670).
PodRemoved ==
    \A p \in Pods, u \in 1..MaxUid :
        api[p].uid = u /\ Deleting(api[p])
        ~> api[p].uid # u \/ (p \in gaveUp /\ faults > 0)

\* The state the provider reports reaches the pod's status again and again, or
\* there is nothing to report (pod.go:695-735).
StatusReported ==
    \A p \in Pods :
        []<>(~Wanted(p) \/ prov[p] = NoInstance \/ api[p].status = prov[p].state)

Queued(p) == Pending(syncQ, p) \/ Pending(deleteQ, p) \/ Pending(statusQ, p)

\* Once a pod is gone for good its key leaves the three queues: the status poll
\* ends and the retries of handlers that no longer find it run out
\* (pod.go:403-407, 481-483, 670).
KeysRetire ==
    \A p \in Pods : uids[p] = MaxUid /\ api[p] = NoPod ~> []~Queued(p)

\* What the sync worker's comment promises, that it "compares the actual state
\* with the desired, and attempts to converge the two" (pod.go:370): nothing
\* runs for good at the provider once its pod is gone for good.
OrphansConverge ==
    \A p \in Pods : uids[p] = MaxUid /\ api[p] = NoPod ~> prov[p] = NoInstance

------------------------------------------------------------------------------
(* Keys.                                                                   *)

\* What podStatusHandler and syncHandler say of a key that does not split, "do
\* not requeue the key as it is invalid" (pod.go:397 and 439): handling it
\* leaves nothing waiting that did not wait before.
InvalidKeysNotRequeued ==
    [][\A p \in Pods :
         /\ ~KeySplits
         /\ p \in syncQ.dirty /\ p \notin syncQ'.dirty
         => (p \in syncQ'.waiting => p \in syncQ.waiting)]_vars

------------------------------------------------------------------------------
(* Start-up.                                                               *)

\* deleteDanglingPods never removes the instance of a pod that exists: it works
\* on two snapshots, the provider's list and the synced cache (pod.go:294-305
\* and 597-637).
DanglingSparesLive ==
    [][\A p \in Pods :
         p \in dangling /\ p \notin dangling' /\ prov'[p] # prov[p]
         => prov[p].uid # api[p].uid]_vars

\* Once the workers run, and unless a call failed, an instance an earlier
\* process left behind is gone, or carries no labels, or its name was given
\* to a pod again (pod.go:582-644).
LeftoversGone ==
    WorkersUp /\ faults = 0 =>
        \A p \in Pods : prov[p].uid = 1 /\ prov[p].labelled => uids[p] > 1
==============================================================================
