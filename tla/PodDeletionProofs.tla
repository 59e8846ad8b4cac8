--------------------------- MODULE PodDeletionProofs ---------------------------
(***************************************************************************)
(* A deletion the controller has seen is never dropped, for any number of  *)
(* pods, workers, retries, faults, restarts and incarnations, if keys      *)
(* split.                                                                  *)
(***************************************************************************)
EXTENDS PodLifecycleProofs, PodPollProofs

\* A deletion is stamped with the number of the pod it deletes.
StampOf(pod) == pod.deletionTimestamp \in {0, pod.uid}

Stamped == \A p \in Pods : StampOf(api[p]) /\ StampOf(cache[p])

\* Somebody has the deletion to do, or the key was given up after a call failed.
Tracked(p) ==
    \/ Pending(syncQ, p) \/ syncJob[p].at = "deleteProviderPod"
    \/ Pending(deleteQ, p) \/ deleteJob[p].at = "deletePod"
    \/ EventIn(p, Enqueues)
    \/ p \in gaveUp /\ CallFailed

\* The copy is not of the pod the API server has.
Outdated(p) == api[p].uid # cache[p].uid

DeletionInv == TypeOK /\ UidsKnown /\ Stamped /\ DeletionTracked

------------------------------------------------------------------------------
(* What the queue's operations and the event handlers do to it.            *)

\* No other operation takes a pending key away either, and what adds a key leaves
\* it pending.
LEMMA AddedPending ==
    ASSUME NEW q \in Queue, NEW k \in Pods, NEW j \in Pods
    PROVE  /\ Pending(Add(q, k), k) /\ Pending(AddAfter(q, k), k)
           /\ Pending(q, j) => Pending(Add(q, k), j) /\ Pending(AddAfter(q, k), j)
  BY DEF Pending, Add, AddAfter, Queue

\* A handler's error leaves its key pending, or given up (handleQueueItem).
LEMMA ErrorTracked ==
    ASSUME NEW q \in Queue, NEW k \in Pods
    PROVE  Pending(HandlerReturned(q, k, TRUE), k) \/ k \in GaveUpAfter(q, k, TRUE)
<1>1. CASE RetriesLeft(q, k)
  <2>1. AddRateLimited(q, k) \in Queue /\ Pending(AddRateLimited(q, k), k)
    BY QueueOpsType, PendingKept
  <2>2. Pending(Done(AddRateLimited(q, k), k), k)
    BY <2>1, PendingKept
  <2> QED BY <1>1, <2>2 DEF HandlerReturned
<1>2. CASE ~RetriesLeft(q, k)
  BY <1>2 DEF GaveUpAfter
<1> QED BY <1>1, <1>2

\* Failures are not forgotten.
LEMMA FailedStays == ASSUME TypeOK, [Next]_vars PROVE CallFailed => CallFailed'
<1>1. faults \in Nat /\ faults' \in Nat
  BY TypeStep DEF TypeOK
<1>2. faults' = 0 => faults = 0
  BY FaultsStep
<1> QED BY <1>1, <1>2 DEF CallFailed

\* A call that fails for no reason of its own is counted.
LEMMA FailsCounted == ASSUME TypeOK, Fails PROVE CallFailed'
  BY DEF Fails, TypeOK, CallFailed

\* Taking an event off the informer's notifications loses only that event.
LEMMA EnqueueTaken ==
    ASSUME TypeOK, NEW p \in Pods, NextEvent(p), EventIn(p, Enqueues), ~Enqueues(Head(events[p]))
    PROVE  EventIn(p, Enqueues)'
<1>1. events[p] \in Seq([old: Pod, new: Pod]) /\ events[p] # <<>>
  BY DEF TypeOK, NextEvent
<1>2. PICK i \in 1..Len(events[p]) : Enqueues(events[p][i])
  BY DEF EventIn
<1>3. i # 1
  BY <1>1, <1>2
<1>4. events'[p] = Tail(events[p])
  BY DEF NextEvent, TypeOK
<1>5. i - 1 \in 1..Len(Tail(events[p])) /\ Tail(events[p])[i - 1] = events[p][i]
  BY <1>1, <1>3
<1>6. Enqueues(events'[p][i - 1]) /\ i - 1 \in 1..Len(events'[p])
  BY <1>2, <1>4, <1>5
<1> QED BY <1>6 DEF EventIn, Enqueues, Wakes

\* An event handler that ends the queueing of an event has queued the pod.
LEMMA HandlersTrack ==
    ASSUME TypeOK, NEW k \in Pods, EventHandler(k), NEW p \in Pods, Tracked(p)
    PROVE  Tracked(p)'
<1>0. /\ syncQ \in Queue /\ deleteQ \in Queue
      /\ events \in [Pods -> Seq([old: Pod, new: Pod])]
  BY DEF TypeOK
<1>1. UNCHANGED <<syncJob, deleteJob>> /\ (CallFailed => CallFailed')
  BY DEF EventHandler, AddFunc, DeleteFunc, UpdateFunc, NextEvent, jobs, envVars, CallFailed
<1>2. /\ syncQ' \in {syncQ, AddRateLimited(syncQ, k)}
      /\ deleteQ' \in {deleteQ, Forget(deleteQ, k)}
      /\ gaveUp' = gaveUp \/ (gaveUp' = gaveUp \ {k} /\ syncQ' = AddRateLimited(syncQ, k))
  BY DEF EventHandler, AddFunc, DeleteFunc, UpdateFunc, queues
<1>3. /\ Pending(syncQ, p) => Pending(syncQ', p)
      /\ Pending(deleteQ, p) => Pending(deleteQ', p)
      /\ syncQ' = AddRateLimited(syncQ, k) => Pending(syncQ', k)
  BY <1>0, <1>2, PendingKept
<1>4. CASE p # k
  <2>1. events'[p] = events[p]
    BY <1>0, <1>4 DEF EventHandler, AddFunc, DeleteFunc, UpdateFunc, NextEvent
  <2>2. EventIn(p, Enqueues) => EventIn(p, Enqueues)'
    BY <2>1 DEF EventIn, Enqueues, Wakes
  <2> QED BY <1>1, <1>2, <1>3, <1>4, <2>2 DEF Tracked
<1>5. CASE p = k
  <2>1. ASSUME EventIn(p, Enqueues), Enqueues(Head(events[p])) PROVE Pending(syncQ', p)
    <3>1. syncQ' = AddRateLimited(syncQ, k)
      BY <1>5, <2>1 DEF EventHandler, AddFunc, DeleteFunc, UpdateFunc, Enqueues, Wakes
    <3> QED BY <1>3, <1>5, <3>1
  <2>2. NextEvent(p)
    BY <1>5 DEF EventHandler, AddFunc, DeleteFunc, UpdateFunc
  <2>3. EventIn(p, Enqueues) => Pending(syncQ', p) \/ EventIn(p, Enqueues)'
    BY <2>1, <2>2, EnqueueTaken
  <2> QED BY <1>1, <1>2, <1>3, <1>5, <2>3 DEF Tracked
<1> QED BY <1>4, <1>5

\* A new version the informer has seen is on its way to the handlers; if they will
\* not queue it, it was being deleted before.
LEMMA InformerTracks ==
    ASSUME DeletionInv, NEW k \in Pods, InformerWatch(k) \/ InformerResync(k),
           NEW p \in Pods, Deleting(cache'[p])
    PROVE  Tracked(p)' \/ Outdated(p)'
<1>0. /\ events \in [Pods -> Seq([old: Pod, new: Pod])]
      /\ api \in [Pods -> Pod] /\ cache \in [Pods -> Pod]
      /\ UNCHANGED <<syncQ, deleteQ, syncJob, deleteJob, gaveUp, api, faults>>
  BY DEF DeletionInv, TypeOK, InformerWatch, InformerResync, queues, jobs, envVars
<1>1. ASSUME Tracked(p), EventIn(p, Enqueues) => EventIn(p, Enqueues)' PROVE Tracked(p)'
  BY <1>0, <1>1 DEF Tracked, Pending, CallFailed
<1>2. CASE k # p
  <2>1. cache'[p] = cache[p] /\ events'[p] = events[p]
    BY <1>0, <1>2 DEF InformerWatch, InformerResync
  <2>2. EventIn(p, Enqueues) => EventIn(p, Enqueues)'
    BY <2>1 DEF EventIn, Enqueues, Wakes
  <2>3. Tracked(p) \/ Outdated(p)
    BY <2>1 DEF DeletionInv, DeletionTracked, Tracked, Outdated
  <2> QED BY <1>0, <1>1, <2>1, <2>2, <2>3 DEF Outdated
<1>3. CASE k = p /\ InformerResync(p)
  <2>1. cache' = cache /\ events[p] = <<>>
    BY <1>3 DEF InformerResync
  <2>2. ~EventIn(p, Enqueues)
    BY <2>1 DEF EventIn
  <2>3. Tracked(p) \/ Outdated(p)
    BY <2>1 DEF DeletionInv, DeletionTracked, Tracked, Outdated
  <2> QED BY <1>0, <1>1, <2>1, <2>2, <2>3 DEF Outdated
<1>4. CASE k = p /\ InformerWatch(p)
  <2> DEFINE event == [old |-> cache[p], new |-> api[p]]
  <2>1. /\ events'[p] = Append(events[p], event) /\ cache'[p] = api[p]
        /\ ~SameVersion(api[p], cache[p])
        /\ event \in [old: Pod, new: Pod]
    BY <1>0, <1>4 DEF InformerWatch
  <2>2. /\ Len(events'[p]) = Len(events[p]) + 1
        /\ events'[p][Len(events'[p])] = event
        /\ \A i \in 1..Len(events[p]) : events'[p][i] = events[p][i]
    BY <1>0, <2>1
  <2>3. Len(events[p]) \in Nat
    BY <1>0
  <2>4. EventIn(p, Enqueues) => EventIn(p, Enqueues)'
    BY <2>2, <2>3 DEF EventIn, Enqueues, Wakes
  <2>5. CASE Enqueues(event)
    <3>1. Len(events'[p]) \in 1..Len(events'[p])
      BY <2>2, <2>3
    <3>2. Enqueues(events'[p][Len(events'[p])])
      BY <2>2, <2>5
    <3>3. EventIn(p, Enqueues)'
      BY <3>1, <3>2 DEF EventIn, Enqueues, Wakes
    <3> QED BY <3>3 DEF Tracked
  <2>6. CASE ~Enqueues(event)
    <3>1. Deleting(api[p]) /\ api[p] # NoPod
      BY <2>1 DEF Deleting, NoPod
    <3>2. cache[p].deletionTimestamp = api[p].deletionTimestamp
      BY <2>1, <2>6, <3>1 DEF Enqueues, Wakes, podShouldEnqueue, SameVersion
    <3>3. Deleting(cache[p]) /\ ~Outdated(p)
      BY <3>1, <3>2 DEF Deleting, Outdated, DeletionInv, Stamped, StampOf
    <3>4. Tracked(p)
      BY <3>3 DEF DeletionInv, DeletionTracked, Tracked, Outdated
    <3> QED BY <1>1, <2>4, <3>4
  <2> QED BY <2>5, <2>6
<1> QED BY <1>2, <1>3, <1>4

\* Whatever the informer finds when it lists is new to the handlers.
LEMMA ListTracks ==
    ASSUME DeletionInv, InformerList, NEW p \in Pods, Deleting(cache'[p])
    PROVE  Tracked(p)'
<1> DEFINE event == [old |-> NoPod, new |-> api[p]]
<1>1. api[p] # NoPod /\ cache'[p] = api[p]
  BY DEF InformerList, Deleting, NoPod
<1>2. events'[p] = <<event>>
  BY <1>1 DEF InformerList
<1>3. Enqueues(event)
  <2>1. uids[p] \in Nat /\ api[p].uid \in 2..uids[p]
    BY <1>1 DEF DeletionInv, TypeOK, UidsKnown, PodKnown, Given
  <2>2. NoPod.uid = 0
    BY DEF NoPod
  <2> QED BY <1>1, <2>1, <2>2 DEF Enqueues, Wakes, SameVersion
<1>4. 1 \in 1..Len(events'[p]) /\ events'[p][1] = event
  BY <1>2
<1>5. EventIn(p, Enqueues)'
  BY <1>3, <1>4 DEF EventIn, Enqueues, Wakes
<1> QED BY <1>5 DEF Tracked

------------------------------------------------------------------------------
(* What the workers do to it.                                              *)

\* The sync worker hands a deletion on, tries it again or gives it up.
LEMMA SyncTracks ==
    ASSUME KeySplits, TypeOK, NEW k \in Pods, SyncWorker(k),
           NEW p \in Pods, Deleting(cache[p]), Tracked(p)
    PROVE  Tracked(p)'
<1>0. /\ syncQ \in Queue /\ deleteQ \in Queue /\ Get(syncQ, k) \in Queue
      /\ syncJob \in [Pods -> Job(SyncPoints)]
  BY QueueOpsType DEF TypeOK
<1>1. UNCHANGED <<deleteJob, events>>
  BY DEF SyncWorker, SyncTake, SyncStep, SyncDeleteMissing, SyncDeleteProviderPod, SyncGetPod,
         SyncCreate, SyncUpdate, informerVars
<1>2. EventIn(p, Enqueues) => EventIn(p, Enqueues)'
  BY <1>1 DEF EventIn, Enqueues, Wakes
<1>3. deleteQ' \in {deleteQ, Add(deleteQ, k), AddAfter(deleteQ, k)}
  BY DEF SyncWorker, SyncTake, SyncStep, SyncDeleteMissing, SyncDeleteProviderPod, SyncGetPod,
         SyncCreate, SyncUpdate
<1>4. Pending(deleteQ, p) => Pending(deleteQ', p)
  BY <1>0, <1>3, AddedPending
<1>5. \A q, err : SyncReturns(q, k, err) => gaveUp \subseteq gaveUp'
  BY DEF SyncReturns, GaveUpAfter
<1>6. gaveUp \subseteq gaveUp'
  BY <1>5 DEF SyncWorker, SyncTake, SyncDeleteMissing, SyncDeleteProviderPod, SyncGetPod,
              SyncCreate, SyncUpdate, SyncCalls
<1>7. CallFailed => CallFailed'
  BY FailedStays DEF Next
<1>8. ASSUME \/ Pending(syncQ, p) => Pending(syncQ', p) \/ syncJob'[p].at = "deleteProviderPod"
                                     \/ Pending(deleteQ', p),
             syncJob[p].at = "deleteProviderPod" =>
               \/ syncJob'[p].at = "deleteProviderPod"
               \/ Pending(syncQ', p) \/ Pending(deleteQ', p)
               \/ p \in gaveUp' /\ CallFailed'
      PROVE  Tracked(p)'
  BY <1>1, <1>2, <1>4, <1>6, <1>8, <1>7 DEF Tracked
<1>9. ASSUME NEW q \in Queue, Pending(q, p), \E err : SyncReturns(q, k, err)
      PROVE  Pending(syncQ', p)
  BY <1>9, PendingKept DEF SyncReturns
<1>10. CASE SyncTake(k)
  <2> DEFINE q == Get(syncQ, k)
  <2>1. CASE p # k
    <3>1. Pending(syncQ, p) => Pending(q, p)
      BY <1>0, <2>1, PendingKept
    <3>2. (\E err : SyncReturns(q, k, err)) \/ syncQ' = q
      BY <1>10 DEF SyncTake
    <3>3. Pending(syncQ, p) => Pending(syncQ', p)
      BY <1>0, <1>9, <3>1, <3>2
    <3>4. syncJob'[p] = syncJob[p]
      BY <1>0, <1>10, <2>1 DEF SyncTake, SyncCalls, SyncReturns
    <3> QED BY <1>8, <3>3, <3>4
  <2>2. CASE p = k
    <3>1. cache[p] # NoPod
      BY DEF Deleting, NoPod
    <3>2. CASE Finished(cache[p])
      <4>1. deleteQ' = Add(deleteQ, p)
        BY <1>10, <2>2, <3>1, <3>2 DEF SyncTake
      <4>2. Pending(deleteQ', p)
        BY <1>0, <4>1, AddedPending
      <4> QED BY <4>2 DEF Tracked
    <3>3. CASE ~Finished(cache[p])
      <4>1. SyncCalls(p, "deleteProviderPod", NoPod, NoInstance)
        BY <1>10, <2>2, <3>1, <3>3 DEF SyncTake
      <4>2. syncJob'[p].at = "deleteProviderPod"
        BY <1>0, <4>1 DEF SyncCalls
      <4> QED BY <4>2 DEF Tracked
    <3> QED BY <3>2, <3>3
  <2> QED BY <2>1, <2>2
<1>11. CASE SyncDeleteProviderPod(k)
  <2>1. PICK err \in BOOLEAN : /\ SyncReturns(syncQ, k, err)
                               /\ deleteQ' = IF err THEN deleteQ ELSE AddAfter(deleteQ, k)
                               /\ err => Fails \/ ~NotFoundIsApiError
    BY <1>11, ControllerAssumption DEF SyncDeleteProviderPod, ProviderDeletePod, IsNotFound
  <2>2. Pending(syncQ, p) => Pending(syncQ', p)
    BY <1>0, <1>9, <2>1
  <2>3. CASE p # k
    <3>1. syncJob'[p] = syncJob[p]
      BY <1>0, <2>1, <2>3 DEF SyncReturns
    <3> QED BY <1>8, <2>2, <3>1
  <2>4. CASE p = k /\ err
    <3>1. Pending(syncQ', p) \/ p \in gaveUp'
      BY <1>0, <2>1, <2>4, ErrorTracked DEF SyncReturns
    <3>2. CallFailed'
      BY <2>1, <2>4, FailsCounted DEF CallFailed
    <3> QED BY <3>1, <3>2 DEF Tracked
  <2>5. CASE p = k /\ ~err
    <3>1. Pending(deleteQ', p)
      BY <1>0, <2>1, <2>5, AddedPending
    <3> QED BY <3>1 DEF Tracked
  <2> QED BY <2>3, <2>4, <2>5
<1>12. CASE SyncDeleteMissing(k) \/ SyncGetPod(k) \/ SyncCreate(k) \/ SyncUpdate(k)
  <2>1. /\ (\E err : SyncReturns(syncQ, k, err)) \/ syncQ' = syncQ
        /\ syncJob[k].at # "deleteProviderPod"
        /\ \E job : syncJob' = [syncJob EXCEPT ![k] = job]
    BY <1>12 DEF SyncDeleteMissing, SyncGetPod, SyncCreate, SyncUpdate, SyncStep, SyncReturns,
                 SyncCalls
  <2>2. Pending(syncQ, p) => Pending(syncQ', p)
    BY <1>0, <1>9, <2>1
  <2>3. syncJob[p].at = "deleteProviderPod" => syncJob'[p] = syncJob[p]
    BY <1>0, <2>1
  <2> QED BY <1>8, <2>2, <2>3
<1> QED BY <1>10, <1>11, <1>12 DEF SyncWorker

\* The deleting worker removes the pod, tries it again or gives it up.
LEMMA DeleteTracks ==
    ASSUME KeySplits, TypeOK, NEW k \in Pods, DeleteWorker(k),
           NEW p \in Pods, Deleting(cache[p]), Tracked(p)
    PROVE  Tracked(p)' \/ api'[p] = NoPod
<1>0. /\ syncQ \in Queue /\ deleteQ \in Queue /\ Get(deleteQ, k) \in Queue
      /\ deleteJob \in [Pods -> Job(DeletePoints)] /\ api \in [Pods -> Pod]
  BY QueueOpsType DEF TypeOK
<1>1. UNCHANGED <<syncQ, syncJob, events>>
  BY DEF DeleteWorker, DeleteTake, DeleteStep, DeleteDeletePod, DeleteDeleteProviderPod,
         informerVars
<1>2. EventIn(p, Enqueues) => EventIn(p, Enqueues)'
  BY <1>1 DEF EventIn, Enqueues, Wakes
<1>3. \A q, err : DeleteReturns(q, k, err) => gaveUp \subseteq gaveUp'
  BY DEF DeleteReturns, GaveUpAfter
<1>4. gaveUp \subseteq gaveUp'
  BY <1>3 DEF DeleteWorker, DeleteTake, DeleteDeletePod, DeleteDeleteProviderPod, DeleteCalls
<1>5. CallFailed => CallFailed'
  BY FailedStays DEF Next
<1>6. ASSUME Pending(deleteQ, p) => Pending(deleteQ', p) \/ deleteJob'[p].at = "deletePod",
             deleteJob[p].at = "deletePod" =>
               \/ deleteJob'[p].at = "deletePod" \/ Pending(deleteQ', p)
               \/ p \in gaveUp' /\ CallFailed'
      PROVE  Tracked(p)'
  BY <1>1, <1>2, <1>4, <1>6, <1>5 DEF Tracked, Pending
<1>7. ASSUME NEW q \in Queue, Pending(q, p), \E err : DeleteReturns(q, k, err)
      PROVE  Pending(deleteQ', p)
  BY <1>7, PendingKept DEF DeleteReturns
<1>8. CASE DeleteTake(k)
  <2> DEFINE q == Get(deleteQ, k)
  <2>1. CASE p # k
    <3>1. Pending(deleteQ, p) => Pending(q, p)
      BY <1>0, <2>1, PendingKept
    <3>2. (\E err : DeleteReturns(q, k, err)) \/ deleteQ' = q
      BY <1>8 DEF DeleteTake
    <3>3. Pending(deleteQ, p) => Pending(deleteQ', p)
      BY <1>0, <1>7, <3>1, <3>2
    <3>4. deleteJob'[p] = deleteJob[p]
      BY <1>0, <1>8, <2>1 DEF DeleteTake, DeleteCalls, DeleteReturns
    <3> QED BY <1>6, <3>3, <3>4
  <2>2. CASE p = k
    <3>1. cache[p] # NoPod
      BY DEF Deleting, NoPod
    <3>2. DeleteCalls(p, "deletePod")
      BY <1>8, <2>2, <3>1 DEF DeleteTake
    <3>3. deleteJob'[p].at = "deletePod"
      BY <1>0, <3>2 DEF DeleteCalls, Job
    <3> QED BY <3>3 DEF Tracked
  <2> QED BY <2>1, <2>2
<1>9. CASE DeleteDeletePod(k)
  <2>1. \/ DeleteReturns(deleteQ, k, TRUE) /\ Fails
        \/ /\ DeleteCalls(k, "deleteProviderPod") /\ UNCHANGED deleteQ
           /\ ApiDeletePod(k, "ok") \/ ApiDeletePod(k, "notFound")
    BY <1>9 DEF DeleteDeletePod, ApiDeletePod
  <2>2. Pending(deleteQ, p) => Pending(deleteQ', p)
    BY <1>0, <1>7, <2>1
  <2>3. CASE p # k
    <3>1. deleteJob'[p] = deleteJob[p]
      BY <1>0, <2>1, <2>3 DEF DeleteReturns, DeleteCalls
    <3> QED BY <1>6, <2>2, <3>1
  <2>4. CASE p = k /\ DeleteReturns(deleteQ, k, TRUE) /\ Fails
    <3>1. Pending(deleteQ', p) \/ p \in gaveUp'
      BY <1>0, <2>4, ErrorTracked DEF DeleteReturns
    <3> QED BY <2>4, <3>1, FailsCounted DEF Tracked
  <2>5. CASE p = k /\ (ApiDeletePod(k, "ok") \/ ApiDeletePod(k, "notFound"))
    BY <1>0, <2>5 DEF ApiDeletePod
  <2> QED BY <2>1, <2>3, <2>4, <2>5
<1>10. CASE DeleteDeleteProviderPod(k)
  <2>1. PICK err : DeleteReturns(deleteQ, k, err)
    BY <1>10 DEF DeleteDeleteProviderPod
  <2>2. Pending(deleteQ, p) => Pending(deleteQ', p)
    BY <1>0, <1>7, <2>1
  <2>3. deleteJob[p].at = "deletePod" => deleteJob'[p] = deleteJob[p]
    BY <1>0, <1>10, <2>1 DEF DeleteDeleteProviderPod, DeleteStep, DeleteReturns
  <2> QED BY <1>6, <2>2, <2>3
<1> QED BY <1>8, <1>9, <1>10 DEF DeleteWorker

------------------------------------------------------------------------------
(* The invariant is inductive.                                             *)

\* A deletion is stamped once, by UserDelete, and copied.
LEMMA StampedStep ==
    ASSUME TypeOK, Stamped, [Next]_vars
    PROVE  Stamped'
<1> SUFFICES ASSUME NEW p \in Pods PROVE StampOf(api'[p]) /\ StampOf(cache'[p])
  BY DEF Stamped, StampOf
<1>1. StampOf(NoPod)
  BY DEF StampOf, NoPod
<1>2. StampOf(api'[p])
  <2>1. CASE UserCreate(p)
    BY <2>1 DEF UserCreate, StampOf, TypeOK
  <2>2. CASE ~UserCreate(p)
    BY <1>1, <2>2, ApiStep DEF ApiMoves, Stamped, StampOf
  <2> QED BY <2>1, <2>2
<1>3. StampOf(cache'[p])
  BY <1>1, CacheStep DEF Stamped
<1> QED BY <1>2, <1>3

\* A copy that is out of date stays so: numbers are not given twice.
LEMMA OutdatedStep ==
    ASSUME TypeOK, UidsKnown, [Next]_vars, NEW p \in Pods, Deleting(cache[p]), Outdated(p),
           cache'[p] = cache[p]
    PROVE  Outdated(p)'
<1>1. uids[p] \in Nat /\ cache[p].uid \in 2..uids[p]
  BY DEF TypeOK, UidsKnown, PodKnown, Given, Deleting, NoPod
<1>2. CASE UserCreate(p)
  <2>1. api'[p].uid = uids[p] + 1
    BY <1>2 DEF UserCreate, TypeOK
  <2> QED BY <1>1, <2>1 DEF Outdated
<1>3. CASE api'[p] = NoPod
  BY <1>1, <1>3 DEF Outdated, NoPod
<1>4. CASE api'[p].uid = api[p].uid
  BY <1>4 DEF Outdated
<1> QED BY <1>2, <1>3, <1>4, ApiStep DEF ApiMoves

\* A delay that has elapsed leaves its key dirty, and the rest leaves it alone.
LEMMA OthersTrack ==
    ASSUME TypeOK, NEW p \in Pods, Tracked(p),
           \/ UNCHANGED vars
           \/ Stop \/ (Run /\ ~InformerList)
           \/ \E k \in Pods : \/ User(k) \/ ContainersProgress(k) \/ StatusWorker(k)
                              \/ SyncDelayElapsed(k) \/ DeleteDelayElapsed(k)
                              \/ StatusDelayElapsed(k)
    PROVE  Tracked(p)' /\ UNCHANGED cache
<1>0. syncQ \in Queue /\ deleteQ \in Queue
  BY DEF TypeOK
<1>1. CallFailed => CallFailed'
  BY FailedStays DEF Next
<1>2. ASSUME UNCHANGED <<informerVars, syncJob, deleteJob, gaveUp>>,
             Pending(syncQ, p) => Pending(syncQ', p),
             Pending(deleteQ, p) => Pending(deleteQ', p)
      PROVE  Tracked(p)' /\ UNCHANGED cache
  BY <1>2, <1>1 DEF Tracked, EventIn, Enqueues, Wakes, informerVars
<1>3. CASE UNCHANGED vars \/ Stop \/ (Run /\ ~InformerList)
  BY <1>2, <1>3 DEF vars, Stop, Run, ListProviderPods, MarkDangling, StartWorkers,
                    DeleteDangling, queues, jobs
<1>4. ASSUME NEW k \in Pods, User(k) \/ ContainersProgress(k)
      PROVE  Tracked(p)' /\ UNCHANGED cache
  BY <1>2, <1>4 DEF User, UserCreate, UserUpdate, UserDelete, UserForceDelete,
                    ContainersProgress, queues, jobs
<1>5. ASSUME NEW k \in Pods, StatusWorker(k) PROVE Tracked(p)' /\ UNCHANGED cache
  BY <1>2, <1>5 DEF StatusWorker, StatusTake, StatusStep, StatusGetStatus, StatusGetCached,
                    StatusCreate, StatusUpdateStatus
<1>6. ASSUME NEW k \in Pods, \/ SyncDelayElapsed(k) \/ DeleteDelayElapsed(k)
                             \/ StatusDelayElapsed(k)
      PROVE  Tracked(p)' /\ UNCHANGED cache
  <2>1. /\ Pending(syncQ, p) => Pending(syncQ', p)
        /\ Pending(deleteQ, p) => Pending(deleteQ', p)
    BY <1>0, <1>6, PendingKept DEF SyncDelayElapsed, DeleteDelayElapsed, StatusDelayElapsed
  <2> QED BY <1>2, <1>6, <2>1 DEF SyncDelayElapsed, DeleteDelayElapsed, StatusDelayElapsed, jobs
<1> QED BY <1>3, <1>4, <1>5, <1>6

\* Every step of every actor.
LEMMA TrackedStep ==
    ASSUME KeySplits, DeletionInv, [Next]_vars
    PROVE  DeletionTracked'
<1> SUFFICES ASSUME NEW p \in Pods, Deleting(cache'[p]) PROVE Tracked(p)' \/ Outdated(p)'
  BY DEF DeletionTracked, Tracked, Outdated, Deleting
<1>0. TypeOK /\ UidsKnown /\ Stamped
  BY DEF DeletionInv
<1>1. ASSUME cache'[p] = cache[p], Tracked(p) => Tracked(p)' \/ Outdated(p)'
      PROVE  Tracked(p)' \/ Outdated(p)'
  <2>1. Deleting(cache[p])
    BY <1>1
  <2>2. Tracked(p) \/ Outdated(p)
    BY <2>1 DEF DeletionInv, DeletionTracked, Tracked, Outdated
  <2> QED BY <1>0, <1>1, <2>1, <2>2, OutdatedStep
<1>2. ASSUME InformerList \/ \E k \in Pods : InformerWatch(k) \/ InformerResync(k)
      PROVE  Tracked(p)' \/ Outdated(p)'
  BY <1>2, ListTracks, InformerTracks
<1>3. ASSUME NEW k \in Pods, EventHandler(k) PROVE Tracked(p)' \/ Outdated(p)'
  <2>1. UNCHANGED cache
    BY <1>3 DEF EventHandler, AddFunc, DeleteFunc, UpdateFunc, NextEvent
  <2> QED BY <1>0, <1>1, <1>3, <2>1, HandlersTrack
<1>4. ASSUME NEW k \in Pods, SyncWorker(k) PROVE Tracked(p)' \/ Outdated(p)'
  <2>1. UNCHANGED cache
    BY <1>4 DEF SyncWorker, SyncTake, SyncStep, SyncDeleteMissing, SyncDeleteProviderPod,
                SyncGetPod, SyncCreate, SyncUpdate, informerVars
  <2> QED BY <1>0, <1>1, <1>4, <2>1, SyncTracks
<1>5. ASSUME NEW k \in Pods, DeleteWorker(k) PROVE Tracked(p)' \/ Outdated(p)'
  <2>1. UNCHANGED cache
    BY <1>5 DEF DeleteWorker, DeleteTake, DeleteStep, DeleteDeletePod, DeleteDeleteProviderPod,
                informerVars
  <2>2. api'[p] = NoPod => Outdated(p)'
    <3>1. NoPod.uid = 0
      BY DEF NoPod
    <3>2. Deleting(cache[p]) /\ uids[p] \in Nat /\ cache[p].uid \in 2..uids[p]
      BY <1>0, <2>1 DEF TypeOK, UidsKnown, PodKnown, Given, Deleting, NoPod
    <3> QED BY <2>1, <3>1, <3>2 DEF Outdated
  <2> QED BY <1>0, <1>1, <1>5, <2>1, <2>2, DeleteTracks
<1>6. CASE Restart
  BY <1>6 DEF Restart, NothingCached, Deleting, NoPod
<1>7. ASSUME \/ UNCHANGED vars
             \/ Stop \/ (Run /\ ~InformerList)
             \/ \E k \in Pods : \/ User(k) \/ ContainersProgress(k) \/ StatusWorker(k)
                                \/ SyncDelayElapsed(k) \/ DeleteDelayElapsed(k)
                                \/ StatusDelayElapsed(k)
      PROVE  Tracked(p)' \/ Outdated(p)'
  <2>1. UNCHANGED cache
    BY <1>7 DEF vars, Stop, Run, ListProviderPods, MarkDangling, StartWorkers, DeleteDangling,
                User, UserCreate, UserUpdate, UserDelete, UserForceDelete, ContainersProgress,
                StatusWorker, StatusTake, StatusStep, StatusGetStatus, StatusGetCached,
                StatusCreate, StatusUpdateStatus, SyncDelayElapsed, DeleteDelayElapsed,
                StatusDelayElapsed, informerVars
  <2> QED BY <1>0, <1>1, <1>7, <2>1, OthersTrack
<1> QED BY <1>2, <1>3, <1>4, <1>5, <1>6, <1>7 DEF Next

\* A deletion the controller has seen is never dropped between the event handlers,
\* the sync queue and the delayed delete queue (pod.go:239-268, 471-504 and
\* 509-525), except when a call has failed and handleQueueItem's retries are used up.
THEOREM DeletionNeverDropped ==
    ASSUME KeySplits
    PROVE  Spec => []DeletionTracked
<1>1. Init => DeletionInv
  <2> SUFFICES ASSUME Init PROVE DeletionInv
    OBVIOUS
  <2>1. \A p \in Pods : api[p] = NoPod /\ cache[p] = NoPod
    BY DEF Init, NothingCached
  <2>2. StampOf(NoPod) /\ ~Deleting(NoPod)
    BY DEF StampOf, Deleting, NoPod
  <2>3. Stamped /\ DeletionTracked
    BY <2>1, <2>2 DEF Stamped, DeletionTracked
  <2>4. TypeOK /\ UidsKnown
    BY InvInit DEF Inv
  <2> QED BY <2>3, <2>4 DEF DeletionInv
<1>2. DeletionInv /\ [Next]_vars => DeletionInv'
  <2>1. DeletionInv => TypeOK /\ UidsKnown /\ Stamped
    BY DEF DeletionInv
  <2>2. DeletionInv /\ [Next]_vars => TypeOK' /\ UidsKnown' /\ Stamped'
    BY <2>1, TypeStep, UidsKnownStep, StampedStep
  <2>3. DeletionInv /\ [Next]_vars => DeletionTracked'
    BY TrackedStep
  <2> QED BY <2>2, <2>3 DEF DeletionInv
<1>3. DeletionInv => DeletionTracked
  BY DEF DeletionInv
<1> QED BY <1>1, <1>2, <1>3, PTL DEF Spec
==============================================================================
