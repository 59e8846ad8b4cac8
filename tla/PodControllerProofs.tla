-------------------------- MODULE PodControllerProofs --------------------------
(***************************************************************************)
(* What is proved of the pod controller for any number of pods, workers,   *)
(* retries, faults, restarts and incarnations.                             *)
(***************************************************************************)
EXTENDS PodProperties, SequenceTheorems, TLAPS

------------------------------------------------------------------------------
(* What the operators return.                                              *)

\* The constants of the model are values of their types.
LEMMA ConstantTypes ==
    /\ NoPod \in Pod /\ NoInstance \in Instance /\ EmptyQueue \in Queue
    /\ \A points : Idle \in Job(points)
  BY ControllerAssumption DEF NoPod, NoInstance, Pod, Instance, States, EmptyQueue, Queue, Idle, Job

\* The queue's operations return queues; AddRateLimited because its count saturates.
LEMMA QueueOpsType ==
    ASSUME NEW q \in Queue, NEW k \in Pods
    PROVE  /\ Add(q, k) \in Queue /\ AddAfter(q, k) \in Queue /\ DelayElapsed(q, k) \in Queue
           /\ AddRateLimited(q, k) \in Queue /\ Forget(q, k) \in Queue
           /\ Get(q, k) \in Queue /\ Done(q, k) \in Queue
<1>0. MaxRequeues \in Nat
  BY ControllerAssumption
<1>1. Add(q, k) \in Queue
  BY DEF Queue, Add
<1>2. AddAfter(q, k) \in Queue
  BY DEF Queue, AddAfter
<1>3. DelayElapsed(q, k) \in Queue
  BY <1>1 DEF Queue, DelayElapsed
<1>4. ASSUME NEW r \in Queue, NEW n \in 0..MaxRequeues
      PROVE  [r EXCEPT !.failures[k] = n] \in Queue
  BY DEF Queue
<1>5. AddRateLimited(q, k) \in Queue
  <2>1. AddAfter(q, k).failures[k] \in 0..MaxRequeues
    BY <1>2 DEF Queue
  <2> QED BY <1>0, <1>2, <1>4, <2>1 DEF AddRateLimited
<1>6. Forget(q, k) \in Queue
  BY <1>0, <1>4 DEF Forget
<1>7. Get(q, k) \in Queue
  BY DEF Queue, Get
<1>8. Done(q, k) \in Queue
  BY DEF Queue, Done
<1> QED BY <1>1, <1>2, <1>3, <1>5, <1>6, <1>7, <1>8

\* So does handleQueueItem's epilogue.
LEMMA HandlerReturnedType ==
    ASSUME NEW q \in Queue, NEW k \in Pods, NEW err
    PROVE  HandlerReturned(q, k, err) \in Queue
  BY QueueOpsType DEF HandlerReturned

\* What a call into the provider or the API server, failed or not, leaves.
LEMMA CallsType ==
    ASSUME TypeOK, NEW p \in Pods, NEW result
    PROVE  /\ ProviderDeletePod(p, result) => prov' \in [Pods -> Instance] /\ faults' \in Nat
           /\ ProviderGet(p, result) => prov' \in [Pods -> Instance] /\ faults' \in Nat
           /\ \A pod \in Pod : ProviderCreatePod(p, pod, result) =>
                prov' \in [Pods -> Instance] /\ faults' \in Nat
           /\ \A ppod \in Instance : ProviderUpdatePod(p, ppod, result) =>
                prov' \in [Pods -> Instance] /\ faults' \in Nat
           /\ ApiDeletePod(p, result) => api' \in [Pods -> Pod] /\ faults' \in Nat
           /\ \A pod \in Pod, status \in States : ApiUpdateStatus(p, pod, status, result) =>
                api' \in [Pods -> Pod] /\ faults' \in Nat
<1>0. /\ prov \in [Pods -> Instance] /\ api \in [Pods -> Pod] /\ faults \in Nat
      /\ prov[p] \in Instance /\ api[p] \in Pod
  BY DEF TypeOK
<1>1. NoInstance \in Instance /\ NoPod \in Pod
  BY ConstantTypes
<1>2. ASSUME Works \/ Fails PROVE faults' \in Nat
  BY <1>0, <1>2 DEF Works, Fails
<1>3. \A inst \in Instance : [prov EXCEPT ![p] = inst] \in [Pods -> Instance]
  BY <1>0
<1>4. \A pod \in Pod : [api EXCEPT ![p] = pod] \in [Pods -> Pod]
  BY <1>0
<1>5. ProviderDeletePod(p, result) => prov' \in [Pods -> Instance] /\ faults' \in Nat
  BY <1>0, <1>1, <1>2, <1>3 DEF ProviderDeletePod
<1>6. ProviderGet(p, result) => prov' \in [Pods -> Instance] /\ faults' \in Nat
  BY <1>0, <1>2 DEF ProviderGet
<1>7. ASSUME NEW pod \in Pod, ProviderCreatePod(p, pod, result)
      PROVE  prov' \in [Pods -> Instance] /\ faults' \in Nat
  <2> DEFINE inst == [uid |-> pod.uid, spec |-> pod.spec, state |-> "pending", labelled |-> TRUE]
  <2>1. inst \in Instance
    BY DEF Pod, Instance, States
  <2>2. [prov EXCEPT ![p] = inst] \in [Pods -> Instance]
    BY <1>3, <2>1
  <2>3. prov' \in {prov, [prov EXCEPT ![p] = inst]} /\ (Works \/ Fails)
    BY <1>7 DEF ProviderCreatePod
  <2> QED BY <1>0, <1>2, <2>2, <2>3
<1>8. ASSUME NEW ppod \in Instance, ProviderUpdatePod(p, ppod, result)
      PROVE  prov' \in [Pods -> Instance] /\ faults' \in Nat
  <2> DEFINE inst == [prov[p] EXCEPT !.spec = ppod.spec]
  <2>1. inst \in Instance
    BY <1>0 DEF Instance
  <2>2. [prov EXCEPT ![p] = inst] \in [Pods -> Instance]
    BY <1>3, <2>1
  <2>3. prov' \in {prov, [prov EXCEPT ![p] = inst]} /\ (Works \/ Fails)
    BY <1>8 DEF ProviderUpdatePod
  <2> QED BY <1>0, <1>2, <2>2, <2>3
<1>9. ApiDeletePod(p, result) => api' \in [Pods -> Pod] /\ faults' \in Nat
  BY <1>0, <1>1, <1>2, <1>4 DEF ApiDeletePod
<1>10. ASSUME NEW pod \in Pod, NEW status \in States, ApiUpdateStatus(p, pod, status, result)
      PROVE  api' \in [Pods -> Pod] /\ faults' \in Nat
  <2> DEFINE written == [api[p] EXCEPT !.status = status, !.rv = @ + 1]
  <2>1. written \in Pod
    <3>1. api[p].rv + 1 \in Nat
      BY <1>0 DEF Pod
    <3>2. written = [api[p] EXCEPT !.status = status, !.rv = api[p].rv + 1]
      BY <1>0 DEF Pod
    <3> QED BY <1>0, <3>1, <3>2 DEF Pod
  <2>2. [api EXCEPT ![p] = written] \in [Pods -> Pod]
    BY <1>4, <2>1
  <2>3. api' \in {api, [api EXCEPT ![p] = written]} /\ (Works \/ Fails)
    BY <1>10 DEF ApiUpdateStatus
  <2> QED BY <1>0, <1>2, <2>2, <2>3
<1> QED BY <1>5, <1>6, <1>7, <1>8, <1>9, <1>10

------------------------------------------------------------------------------
(* Type correctness.                                                       *)

\* The process starts with empty queues, idle workers and nothing cached.
LEMMA InitTypeOK == Init => TypeOK
<1> SUFFICES ASSUME Init PROVE TypeOK
  OBVIOUS
<1>1. prov \in [Pods -> Instance]
  BY ConstantTypes, ControllerAssumption DEF Init
<1>2. events \in [Pods -> Seq([old: Pod, new: Pod])]
  BY DEF Init, NoEvents
<1> QED BY <1>1, <1>2, ConstantTypes DEF Init, TypeOK, NothingCached, AllIdle, Phases

\* The informer delivers events, and one fewer is left.
LEMMA NextEventType ==
    ASSUME TypeOK, NEW p \in Pods, NextEvent(p)
    PROVE  /\ events' \in [Pods -> Seq([old: Pod, new: Pod])]
           /\ Head(events[p]) \in [old: Pod, new: Pod]
<1>1. events[p] \in Seq([old: Pod, new: Pod]) /\ events[p] # <<>>
  BY DEF TypeOK, NextEvent
<1>2. /\ Head(events[p]) \in [old: Pod, new: Pod]
      /\ Tail(events[p]) \in Seq([old: Pod, new: Pod])
  BY <1>1, HeadTailProperties
<1>3. events' = [events EXCEPT ![p] = Tail(events[p])]
  BY DEF NextEvent
<1> QED BY <1>2, <1>3 DEF TypeOK

\* Users write pods, containers change the state of instances.
LEMMA EnvironmentType ==
    ASSUME TypeOK, NEW p \in Pods, User(p) \/ ContainersProgress(p)
    PROVE  TypeOK'
<1>0. /\ api[p] \in Pod /\ uids[p] \in Nat /\ prov[p] \in Instance
      /\ NoPod \in Pod /\ api[p].rv + 1 \in Nat /\ api[p].spec + 1 \in Nat
  BY ConstantTypes DEF TypeOK, Pod
<1>1. \A pod \in Pod : [api EXCEPT ![p] = pod] \in [Pods -> Pod]
  BY DEF TypeOK
<1>2. \A inst \in Instance : [prov EXCEPT ![p] = inst] \in [Pods -> Instance]
  BY DEF TypeOK
<1>3. /\ api' \in [Pods -> Pod] /\ prov' \in [Pods -> Instance] /\ uids' \in [Pods -> Nat]
      /\ UNCHANGED <<faults, restarts, informerVars, queues, jobs, runVars, gaveUp>>
  <2>1. CASE UserCreate(p)
    <3>1. PICK host \in HostKinds :
             api' = [api EXCEPT ![p] = [uid |-> uids[p] + 1, rv |-> 1, spec |-> 1, host |-> host,
                                        deletionTimestamp |-> 0, status |-> "pending"]]
      BY <2>1 DEF UserCreate
    <3>2. host \in BOOLEAN
      BY ControllerAssumption
    <3>3. [uid |-> uids[p] + 1, rv |-> 1, spec |-> 1, host |-> host,
           deletionTimestamp |-> 0, status |-> "pending"] \in Pod
      BY <1>0, <3>2 DEF Pod, States
    <3>4. api' \in [Pods -> Pod]
      BY <1>1, <3>1, <3>3
    <3>5. uids' \in [Pods -> Nat]
      BY <1>0, <2>1 DEF UserCreate, TypeOK
    <3> QED BY <2>1, <3>4, <3>5 DEF UserCreate, TypeOK
  <2>2. CASE UserUpdate(p)
    <3>1. [api[p] EXCEPT !.spec = api[p].spec + 1, !.rv = api[p].rv + 1] \in Pod
      BY <1>0 DEF Pod
    <3>2. api' = [api EXCEPT ![p] =
                    [api[p] EXCEPT !.spec = api[p].spec + 1, !.rv = api[p].rv + 1]]
      BY <1>0, <2>2 DEF UserUpdate, TypeOK, Pod
    <3> QED BY <1>1, <2>2, <3>1, <3>2 DEF UserUpdate, TypeOK
  <2>3. CASE UserDelete(p)
    <3>1. [api[p] EXCEPT !.deletionTimestamp = api[p].uid, !.rv = api[p].rv + 1] \in Pod
      BY <1>0 DEF Pod
    <3>2. api' = [api EXCEPT ![p] =
                    [api[p] EXCEPT !.deletionTimestamp = api[p].uid, !.rv = api[p].rv + 1]]
      BY <1>0, <2>3 DEF UserDelete, TypeOK, Pod
    <3> QED BY <1>1, <2>3, <3>1, <3>2 DEF UserDelete, TypeOK
  <2>4. CASE UserForceDelete(p)
    BY <1>0, <1>1, <2>4 DEF UserForceDelete, TypeOK
  <2>5. CASE ContainersProgress(p)
    <3>1. \A state \in States : [prov[p] EXCEPT !.state = state] \in Instance
      BY <1>0 DEF Instance
    <3>2. \E state \in States : prov' = [prov EXCEPT ![p] = [prov[p] EXCEPT !.state = state]]
      BY <2>5 DEF ContainersProgress, States
    <3> QED BY <1>2, <2>5, <3>1, <3>2 DEF ContainersProgress, TypeOK
  <2> QED BY <2>1, <2>2, <2>3, <2>4, <2>5 DEF User
<1> QED BY <1>3 DEF TypeOK, informerVars, queues, jobs, runVars

\* The informer caches what the API server has and appends or delivers events.
LEMMA InformerType ==
    ASSUME TypeOK, NEW p \in Pods,
           InformerList \/ InformerWatch(p) \/ InformerResync(p) \/ EventHandler(p)
    PROVE  TypeOK'
<1> DEFINE Event == [old: Pod, new: Pod]
<1>0. /\ NoPod \in Pod /\ api[p] \in Pod /\ cache[p] \in Pod /\ events[p] \in Seq(Event)
      /\ api \in [Pods -> Pod] /\ cache \in [Pods -> Pod] /\ events \in [Pods -> Seq(Event)]
      /\ syncQ \in Queue /\ deleteQ \in Queue /\ statusQ \in Queue /\ gaveUp \subseteq Pods
  BY ConstantTypes DEF TypeOK
<1>1. \A s \in Seq(Event) : [events EXCEPT ![p] = s] \in [Pods -> Seq(Event)]
  BY <1>0
<1>2. CASE InformerList
  <2>1. events' \in [Pods -> Seq(Event)]
    <3> DEFINE listed(q) == IF api[q] = NoPod THEN <<>> ELSE <<[old |-> NoPod, new |-> api[q]]>>
    <3>1. ASSUME NEW q \in Pods PROVE listed(q) \in Seq(Event)
      <4>1. <<[old |-> NoPod, new |-> api[q]]>> \in Seq(Event) /\ <<>> \in Seq(Event)
        BY <1>0
      <4> QED BY <4>1
    <3>2. events' = [q \in Pods |-> listed(q)]
      BY <1>2 DEF InformerList
    <3> HIDE DEF listed
    <3> QED BY <3>1, <3>2
  <2> QED BY <1>0, <1>2, <2>1
          DEF InformerList, TypeOK, Phases, envVars, queues, jobs
<1>3. CASE InformerWatch(p)
  <2>1. Append(events[p], [old |-> cache[p], new |-> api[p]]) \in Seq(Event)
    BY <1>0
  <2>2. events' \in [Pods -> Seq(Event)]
    BY <1>1, <1>3, <2>1 DEF InformerWatch
  <2>3. cache' \in [Pods -> Pod]
    BY <1>0, <1>3 DEF InformerWatch
  <2> QED BY <1>3, <2>2, <2>3 DEF InformerWatch, TypeOK, envVars, queues, jobs, runVars
<1>4. CASE InformerResync(p)
  <2>1. <<[old |-> cache[p], new |-> cache[p]]>> \in Seq(Event)
    BY <1>0
  <2>2. events' \in [Pods -> Seq(Event)]
    BY <1>1, <1>4, <2>1 DEF InformerResync
  <2> QED BY <1>4, <2>2 DEF InformerResync, TypeOK, envVars, queues, jobs, runVars
<1>5. CASE EventHandler(p)
  <2>1. NextEvent(p)
    BY <1>5 DEF EventHandler, AddFunc, DeleteFunc, UpdateFunc
  <2>2. events' \in [Pods -> Seq(Event)]
    BY <2>1, NextEventType
  <2>3. ASSUME NEW q \in Queue
        PROVE  /\ AddRateLimited(q, p) \in Queue /\ Forget(q, p) \in Queue
               /\ AddRateLimited(Forget(q, p), p) \in Queue
    BY QueueOpsType
  <2>4. syncQ' \in Queue /\ deleteQ' \in Queue /\ statusQ' \in Queue /\ gaveUp' \subseteq Pods
    BY <1>0, <1>5, <2>3 DEF EventHandler, AddFunc, DeleteFunc, UpdateFunc, queues
  <2> QED BY <2>1, <2>2, <2>4 DEF NextEvent, TypeOK, envVars, jobs, runVars
<1> QED BY <1>2, <1>3, <1>4, <1>5

\* Run's start-up, its end and the process's.
LEMMA RunType ==
    ASSUME TypeOK, Run \/ Stop \/ Restart
    PROVE  TypeOK'
<1>1. CASE InformerList
  <2>1. CASE Pods = {}
    BY <1>1, <2>1 DEF InformerList, TypeOK, Phases, envVars, queues, jobs
  <2>2. CASE Pods # {}
    BY <1>1, <2>2, InformerType
  <2> QED BY <2>1, <2>2
<1>2. CASE ListProviderPods
  <2>1. dangling' \subseteq Pods /\ phase' \in Phases
    BY <1>2 DEF ListProviderPods, Phases
  <2>2. faults' \in Nat
    BY <1>2 DEF ListProviderPods, Works, Fails, TypeOK
  <2> QED BY <1>2, <2>1, <2>2 DEF ListProviderPods, TypeOK, informerVars, queues, jobs
<1>3. CASE MarkDangling
  BY <1>3 DEF MarkDangling, TypeOK, Phases, envVars, informerVars, queues, jobs
<1>4. CASE StartWorkers
  BY <1>4 DEF StartWorkers, TypeOK, Phases, envVars, informerVars, queues, jobs
<1>5. ASSUME NEW p \in Pods, DeleteDangling(p) PROVE TypeOK'
  <2>1. prov' \in [Pods -> Instance] /\ faults' \in Nat
    BY <1>5, CallsType DEF DeleteDangling
  <2> QED BY <1>5, <2>1 DEF DeleteDangling, TypeOK, informerVars, queues, jobs
<1>6. CASE Stop
  BY <1>6 DEF Stop, TypeOK, Phases, envVars, informerVars, queues, jobs
<1>7. CASE Restart
  <2>1. events' \in [Pods -> Seq([old: Pod, new: Pod])]
    BY <1>7 DEF Restart, NoEvents
  <2>2. /\ syncJob' \in [Pods -> Job(SyncPoints)] /\ deleteJob' \in [Pods -> Job(DeletePoints)]
        /\ statusJob' \in [Pods -> Job(StatusPoints)]
    BY <1>7, ConstantTypes DEF Restart, AllIdle
  <2>3. /\ syncQ' \in Queue /\ deleteQ' \in Queue /\ statusQ' \in Queue
        /\ cache' \in [Pods -> Pod]
    BY <1>7, ConstantTypes DEF Restart, NothingCached
  <2>4. /\ phase' \in Phases /\ dangling' \subseteq Pods /\ gaveUp' \subseteq Pods
        /\ UNCHANGED <<api, uids, prov, faults>> /\ restarts' \in Nat
    BY <1>7 DEF Restart, Phases, TypeOK
  <2> QED BY <2>1, <2>2, <2>3, <2>4 DEF TypeOK
<1> QED BY <1>1, <1>2, <1>3, <1>4, <1>5, <1>6, <1>7 DEF Run

\* What a handler leaves of its queue and its job when it returns or goes on.
LEMMA SyncMovesType ==
    ASSUME TypeOK, NEW p \in Pods
    PROVE  /\ \A q \in Queue : \A err : SyncReturns(q, p, err) =>
                /\ syncQ' \in Queue /\ syncJob' \in [Pods -> Job(SyncPoints)]
                /\ gaveUp' \subseteq Pods
           /\ \A at \in SyncPoints, pod \in Pod, inst \in Instance : SyncCalls(p, at, pod, inst) =>
                syncJob' \in [Pods -> Job(SyncPoints)] /\ gaveUp' \subseteq Pods
<1>1. \A j \in Job(SyncPoints) : [syncJob EXCEPT ![p] = j] \in [Pods -> Job(SyncPoints)]
  BY DEF TypeOK
<1>2. ASSUME NEW q \in Queue, NEW err, SyncReturns(q, p, err)
      PROVE  /\ syncQ' \in Queue /\ syncJob' \in [Pods -> Job(SyncPoints)]
             /\ gaveUp' \subseteq Pods
  BY <1>1, <1>2, ConstantTypes, HandlerReturnedType DEF SyncReturns, GaveUpAfter, TypeOK
<1>3. ASSUME NEW at \in SyncPoints, NEW pod \in Pod, NEW inst \in Instance,
             SyncCalls(p, at, pod, inst)
      PROVE  syncJob' \in [Pods -> Job(SyncPoints)] /\ gaveUp' \subseteq Pods
  <2>1. [at |-> at, pod |-> pod, inst |-> inst] \in Job(SyncPoints)
    BY DEF Job
  <2> QED BY <1>1, <1>3, <2>1 DEF SyncCalls, TypeOK
<1> QED BY <1>2, <1>3

\* syncHandler and what it calls.
LEMMA SyncWorkerType ==
    ASSUME TypeOK, NEW p \in Pods, SyncWorker(p)
    PROVE  TypeOK'
<1>0. /\ syncQ \in Queue /\ deleteQ \in Queue /\ Get(syncQ, p) \in Queue
      /\ Add(deleteQ, p) \in Queue /\ AddAfter(deleteQ, p) \in Queue
      /\ NoPod \in Pod /\ NoInstance \in Instance
      /\ cache[p] \in Pod /\ prov[p] \in Instance
      /\ syncJob[p].pod \in Pod /\ syncJob[p].inst \in Instance
  BY QueueOpsType, ConstantTypes DEF TypeOK, Job
<1>1. /\ {"deleteMissing", "deleteProviderPod", "getPod", "create", "update"} = SyncPoints
      /\ prov \in [Pods -> Instance] /\ faults \in Nat
  BY DEF SyncPoints, TypeOK
<1>2. CASE SyncTake(p)
  <2>1. /\ syncQ' \in Queue /\ deleteQ' \in Queue /\ syncJob' \in [Pods -> Job(SyncPoints)]
        /\ gaveUp' \subseteq Pods
    BY <1>0, <1>1, <1>2, SyncMovesType DEF SyncTake
  <2> QED BY <1>2, <2>1 DEF SyncTake, TypeOK, envVars, informerVars, runVars
<1>3. SUFFICES ASSUME NEW at, SyncStep(p, at)
               PROVE  ~SyncTake(p) => /\ syncQ' \in Queue /\ deleteQ' \in Queue
                                      /\ syncJob' \in [Pods -> Job(SyncPoints)]
                                      /\ gaveUp' \subseteq Pods
                                      /\ prov' \in [Pods -> Instance] /\ faults' \in Nat
  <2>1. ~SyncTake(p) => \E at : SyncStep(p, at)
    BY DEF SyncWorker, SyncDeleteMissing, SyncDeleteProviderPod, SyncGetPod, SyncCreate, SyncUpdate
  <2> QED BY <1>2, <2>1 DEF SyncStep, TypeOK, informerVars, runVars
<1>4. CASE SyncDeleteMissing(p)
  BY <1>0, <1>4, CallsType, SyncMovesType DEF SyncDeleteMissing
<1>5. CASE SyncDeleteProviderPod(p)
  BY <1>0, <1>5, CallsType, SyncMovesType DEF SyncDeleteProviderPod
<1>6. CASE SyncGetPod(p)
  <2>1. PICK result \in {"ok", "notFound", "error"} :
          /\ ProviderGet(p, result)
          /\ \/ SyncCalls(p, "create", syncJob[p].pod, NoInstance)
             \/ SyncCalls(p, "update", NoPod, IF result = "ok" THEN prov[p] ELSE NoInstance)
    BY <1>6 DEF SyncGetPod
  <2>2. syncJob' \in [Pods -> Job(SyncPoints)] /\ gaveUp' \subseteq Pods
    BY <1>0, <1>1, <2>1, SyncMovesType
  <2> QED BY <1>0, <1>6, <2>1, <2>2, CallsType DEF SyncGetPod
<1>7. CASE SyncCreate(p)
  BY <1>0, <1>7, CallsType, SyncMovesType DEF SyncCreate
<1>8. CASE SyncUpdate(p)
  BY <1>0, <1>8, CallsType, SyncMovesType DEF SyncUpdate
<1> QED BY <1>4, <1>5, <1>6, <1>7, <1>8 DEF SyncWorker

\* The same for the deleting handler.
LEMMA DeleteMovesType ==
    ASSUME TypeOK, NEW p \in Pods
    PROVE  /\ \A q \in Queue : \A err : DeleteReturns(q, p, err) =>
                /\ deleteQ' \in Queue /\ deleteJob' \in [Pods -> Job(DeletePoints)]
                /\ gaveUp' \subseteq Pods
           /\ \A at \in DeletePoints : DeleteCalls(p, at) =>
                deleteJob' \in [Pods -> Job(DeletePoints)] /\ gaveUp' \subseteq Pods
<1>1. \A j \in Job(DeletePoints) : [deleteJob EXCEPT ![p] = j] \in [Pods -> Job(DeletePoints)]
  BY DEF TypeOK
<1>2. ASSUME NEW q \in Queue, NEW err, DeleteReturns(q, p, err)
      PROVE  /\ deleteQ' \in Queue /\ deleteJob' \in [Pods -> Job(DeletePoints)]
             /\ gaveUp' \subseteq Pods
  BY <1>1, <1>2, ConstantTypes, HandlerReturnedType DEF DeleteReturns, GaveUpAfter, TypeOK
<1>3. ASSUME NEW at \in DeletePoints, DeleteCalls(p, at)
      PROVE  deleteJob' \in [Pods -> Job(DeletePoints)] /\ gaveUp' \subseteq Pods
  <2>1. [deleteJob[p] EXCEPT !.at = at] \in Job(DeletePoints)
    BY DEF Job, TypeOK
  <2> QED BY <1>1, <1>3, <2>1 DEF DeleteCalls, TypeOK
<1> QED BY <1>2, <1>3

\* deletePodHandler.
LEMMA DeleteWorkerType ==
    ASSUME TypeOK, NEW p \in Pods, DeleteWorker(p)
    PROVE  TypeOK'
<1>0. deleteQ \in Queue /\ Get(deleteQ, p) \in Queue
  BY QueueOpsType DEF TypeOK
<1>1. {"deletePod", "deleteProviderPod"} = DeletePoints
  BY DEF DeletePoints
<1>2. CASE DeleteTake(p)
  <2>1. /\ deleteQ' \in Queue /\ deleteJob' \in [Pods -> Job(DeletePoints)]
        /\ gaveUp' \subseteq Pods
    BY <1>0, <1>1, <1>2, DeleteMovesType DEF DeleteTake
  <2> QED BY <1>2, <2>1 DEF DeleteTake, TypeOK, envVars, informerVars, runVars
<1>3. CASE DeleteDeletePod(p)
  <2>1. /\ deleteQ' \in Queue /\ deleteJob' \in [Pods -> Job(DeletePoints)]
        /\ gaveUp' \subseteq Pods
    BY <1>0, <1>1, <1>3, DeleteMovesType DEF DeleteDeletePod
  <2>2. api' \in [Pods -> Pod] /\ faults' \in Nat
    BY <1>3, CallsType DEF DeleteDeletePod
  <2> QED BY <1>3, <2>1, <2>2 DEF DeleteDeletePod, DeleteStep, TypeOK, informerVars, runVars
<1>4. CASE DeleteDeleteProviderPod(p)
  <2>1. /\ deleteQ' \in Queue /\ deleteJob' \in [Pods -> Job(DeletePoints)]
        /\ gaveUp' \subseteq Pods
    BY <1>0, <1>1, <1>4, DeleteMovesType DEF DeleteDeleteProviderPod
  <2>2. prov' \in [Pods -> Instance] /\ faults' \in Nat
    BY <1>4, CallsType DEF DeleteDeleteProviderPod
  <2> QED BY <1>4, <2>1, <2>2 DEF DeleteDeleteProviderPod, DeleteStep, TypeOK, informerVars, runVars
<1> QED BY <1>2, <1>3, <1>4 DEF DeleteWorker

\* The same for the status handler.
LEMMA StatusMovesType ==
    ASSUME TypeOK, NEW p \in Pods
    PROVE  /\ \A q \in Queue : \A add, err : StatusReturns(q, p, add, err) =>
                statusQ' \in Queue /\ statusJob' \in [Pods -> Job(StatusPoints)]
           /\ \A at \in StatusPoints, pod \in Pod, inst \in Instance :
                StatusCalls(p, at, pod, inst) => statusJob' \in [Pods -> Job(StatusPoints)]
<1>1. \A j \in Job(StatusPoints) : [statusJob EXCEPT ![p] = j] \in [Pods -> Job(StatusPoints)]
  BY DEF TypeOK
<1>2. ASSUME NEW q \in Queue, NEW add, NEW err, StatusReturns(q, p, add, err)
      PROVE  statusQ' \in Queue /\ statusJob' \in [Pods -> Job(StatusPoints)]
  <2>1. (IF add THEN AddRateLimited(q, p) ELSE q) \in Queue
    BY QueueOpsType
  <2> QED BY <1>1, <1>2, <2>1, ConstantTypes, HandlerReturnedType DEF StatusReturns
<1>3. ASSUME NEW at \in StatusPoints, NEW pod \in Pod, NEW inst \in Instance,
             StatusCalls(p, at, pod, inst)
      PROVE  statusJob' \in [Pods -> Job(StatusPoints)]
  <2>1. [at |-> at, pod |-> pod, inst |-> inst] \in Job(StatusPoints)
    BY DEF Job
  <2> QED BY <1>1, <1>3, <2>1 DEF StatusCalls
<1> QED BY <1>2, <1>3

\* podStatusHandler and updatePodStatus.
LEMMA StatusWorkerType ==
    ASSUME TypeOK, NEW p \in Pods, StatusWorker(p)
    PROVE  TypeOK'
<1>0. /\ statusQ \in Queue /\ Get(statusQ, p) \in Queue /\ Forget(Get(statusQ, p), p) \in Queue
      /\ NoInstance \in Instance /\ cache[p] \in Pod /\ prov[p] \in Instance
      /\ statusJob[p].pod \in Pod /\ statusJob[p].inst \in Instance
      /\ statusJob[p].inst.state \in States
  BY QueueOpsType, ConstantTypes DEF TypeOK, Job, Instance
<1>1. {"getStatus", "getCached", "create", "updateStatus"} = StatusPoints
  BY DEF StatusPoints
<1>2. CASE StatusTake(p)
  <2>1. statusQ' \in Queue /\ statusJob' \in [Pods -> Job(StatusPoints)]
    BY <1>0, <1>1, <1>2, StatusMovesType DEF StatusTake
  <2> QED BY <1>2, <2>1 DEF StatusTake, TypeOK, envVars, informerVars, runVars
<1>3. CASE StatusGetStatus(p)
  <2>1. statusQ' \in Queue /\ statusJob' \in [Pods -> Job(StatusPoints)]
    BY <1>0, <1>1, <1>3, StatusMovesType DEF StatusGetStatus
  <2>2. prov' \in [Pods -> Instance] /\ faults' \in Nat
    BY <1>3, CallsType DEF StatusGetStatus
  <2> QED BY <1>3, <2>1, <2>2 DEF StatusGetStatus, StatusStep, TypeOK, informerVars, runVars
<1>4. CASE StatusGetCached(p)
  <2>1. statusQ' \in Queue /\ statusJob' \in [Pods -> Job(StatusPoints)]
    BY <1>0, <1>1, <1>4, StatusMovesType DEF StatusGetCached
  <2> QED BY <1>4, <2>1 DEF StatusGetCached, StatusStep, TypeOK, informerVars, runVars
<1>5. CASE StatusCreate(p)
  <2>1. statusQ' \in Queue /\ statusJob' \in [Pods -> Job(StatusPoints)]
    BY <1>0, <1>5, StatusMovesType DEF StatusCreate
  <2>2. prov' \in [Pods -> Instance] /\ faults' \in Nat
    BY <1>0, <1>5, CallsType DEF StatusCreate
  <2> QED BY <1>5, <2>1, <2>2 DEF StatusCreate, StatusStep, TypeOK, informerVars, runVars
<1>6. CASE StatusUpdateStatus(p)
  <2>1. statusQ' \in Queue /\ statusJob' \in [Pods -> Job(StatusPoints)]
    BY <1>0, <1>6, StatusMovesType DEF StatusUpdateStatus
  <2>2. api' \in [Pods -> Pod] /\ faults' \in Nat
    BY <1>0, <1>6, CallsType DEF StatusUpdateStatus
  <2> QED BY <1>6, <2>1, <2>2 DEF StatusUpdateStatus, StatusStep, TypeOK, informerVars, runVars
<1> QED BY <1>2, <1>3, <1>4, <1>5, <1>6 DEF StatusWorker

\* The delays of the three queues.
LEMMA TimersType ==
    ASSUME TypeOK, NEW p \in Pods,
           SyncDelayElapsed(p) \/ DeleteDelayElapsed(p) \/ StatusDelayElapsed(p)
    PROVE  TypeOK'
<1>1. \A q \in Queue : DelayElapsed(q, p) \in Queue
  BY QueueOpsType
<1> QED BY <1>1 DEF SyncDelayElapsed, DeleteDelayElapsed, StatusDelayElapsed, TypeOK,
                    envVars, informerVars, jobs, runVars

\* Every step keeps the types.
LEMMA TypeStep == TypeOK /\ [Next]_vars => TypeOK'
<1> SUFFICES ASSUME TypeOK, [Next]_vars PROVE TypeOK'
  OBVIOUS
<1>1. CASE UNCHANGED vars
  BY <1>1 DEF TypeOK, vars, envVars, informerVars, queues, jobs, runVars
<1>2. CASE Next
  BY <1>2, RunType, EnvironmentType, InformerType, SyncWorkerType, DeleteWorkerType,
     StatusWorkerType, TimersType DEF Next
<1> QED BY <1>1, <1>2

\* Every variable keeps its type, whatever the bounds: notifications are pairs
\* of pods, and jobs stand at the calls their handlers make.
THEOREM TypeCorrect == Spec => []TypeOK
  BY InitTypeOK, TypeStep, PTL DEF Spec

------------------------------------------------------------------------------
(* Keys are handed back.                                                   *)

\* What the queue's operations, and handleQueueItem with them, do to the keys in
\* processing.
LEMMA Processing ==
    ASSUME NEW q \in Queue, NEW k \in Pods, NEW err
    PROVE  /\ Add(q, k).processing = q.processing /\ AddAfter(q, k).processing = q.processing
           /\ DelayElapsed(q, k).processing = q.processing
           /\ AddRateLimited(q, k).processing = q.processing
           /\ Forget(q, k).processing = q.processing
           /\ AddRateLimited(Forget(q, k), k).processing = q.processing
           /\ Get(q, k).processing = q.processing \cup {k}
           /\ HandlerReturned(q, k, err).processing = q.processing \ {k}
<1>1. \A r \in Queue :
        /\ Add(r, k).processing = r.processing /\ AddAfter(r, k).processing = r.processing
        /\ Forget(r, k).processing = r.processing
        /\ Get(r, k).processing = r.processing \cup {k}
        /\ Done(r, k).processing = r.processing \ {k}
  BY DEF Queue, Add, AddAfter, Forget, Get, Done
<1>2. DelayElapsed(q, k).processing = q.processing
  BY DEF Queue, DelayElapsed, Add
<1>3. \A r \in Queue : AddRateLimited(r, k).processing = r.processing
  BY DEF Queue, AddRateLimited, AddAfter
<1>4. HandlerReturned(q, k, err).processing = q.processing \ {k}
  BY <1>1, <1>3, QueueOpsType DEF HandlerReturned
<1> QED BY <1>1, <1>2, <1>3, <1>4, QueueOpsType

\* The sync queue and its workers.
LEMMA SyncHeld ==
    ASSUME TypeOK, KeysHeld, NEW p \in Pods, SyncWorker(p)
    PROVE  KeysHeld'
<1>0. /\ syncQ \in Queue /\ deleteQ \in Queue /\ Get(syncQ, p) \in Queue
      /\ syncJob \in [Pods -> Job(SyncPoints)]
  BY QueueOpsType DEF TypeOK
<1>1. ASSUME NEW q \in Queue, NEW err, SyncReturns(q, p, err),
             q.processing \in {syncQ.processing, syncQ.processing \cup {p}}
      PROVE  Held(syncQ', syncJob')
  <2>1. syncQ'.processing = syncQ.processing \ {p}
    BY <1>1, Processing DEF SyncReturns
  <2>2. syncJob' = [syncJob EXCEPT ![p] = Idle] /\ Idle.at = "idle"
    BY <1>1 DEF SyncReturns, Idle
  <2> QED BY <1>0, <2>1, <2>2 DEF KeysHeld, Held
<1>2. ASSUME NEW at \in SyncPoints, NEW pod, NEW inst, SyncCalls(p, at, pod, inst),
             \/ syncQ'.processing = syncQ.processing \cup {p}
             \/ syncQ' = syncQ /\ syncJob[p].at # "idle"
      PROVE  Held(syncQ', syncJob')
  <2>1. syncJob' = [syncJob EXCEPT ![p] = [at |-> at, pod |-> pod, inst |-> inst]]
    BY <1>2 DEF SyncCalls
  <2>2. syncJob'[p].at # "idle" /\ \A j \in Pods \ {p} : syncJob'[j] = syncJob[j]
    BY <1>0, <2>1 DEF SyncPoints
  <2>3. syncQ'.processing = syncQ.processing \cup {p}
    BY <1>2 DEF KeysHeld, Held
  <2> QED BY <2>2, <2>3 DEF KeysHeld, Held
<1>3. Held(syncQ', syncJob')
  <2>0. /\ Get(syncQ, p).processing = syncQ.processing \cup {p}
        /\ {"deleteMissing", "deleteProviderPod", "getPod", "create", "update"} = SyncPoints
    BY <1>0, Processing DEF SyncPoints
  <2>1. CASE SyncTake(p)
    BY <1>0, <1>1, <1>2, <2>0, <2>1 DEF SyncTake
  <2>2. CASE SyncDeleteMissing(p)
    BY <1>0, <1>1, <2>2 DEF SyncDeleteMissing
  <2>3. CASE SyncDeleteProviderPod(p)
    BY <1>0, <1>1, <2>3 DEF SyncDeleteProviderPod
  <2>4. CASE SyncGetPod(p)
    <3>1. PICK at, pod, inst : at \in SyncPoints /\ SyncCalls(p, at, pod, inst)
      BY <2>0, <2>4 DEF SyncGetPod
    <3>2. syncQ' = syncQ /\ syncJob[p].at # "idle"
      BY <2>4 DEF SyncGetPod, SyncStep
    <3> QED BY <1>2, <3>1, <3>2
  <2>5. CASE SyncCreate(p)
    BY <1>0, <1>1, <2>5 DEF SyncCreate
  <2>6. CASE SyncUpdate(p)
    BY <1>0, <1>1, <2>6 DEF SyncUpdate
  <2> QED BY <2>1, <2>2, <2>3, <2>4, <2>5, <2>6 DEF SyncWorker
<1>4. UNCHANGED <<deleteJob, statusQ, statusJob>>
  BY DEF SyncWorker, SyncTake, SyncStep, SyncDeleteMissing, SyncDeleteProviderPod, SyncGetPod,
         SyncCreate, SyncUpdate
<1>5. deleteQ'.processing = deleteQ.processing
  <2>1. deleteQ' \in {deleteQ, Add(deleteQ, p), AddAfter(deleteQ, p)}
    BY DEF SyncWorker, SyncTake, SyncStep, SyncDeleteMissing, SyncDeleteProviderPod, SyncGetPod,
           SyncCreate, SyncUpdate
  <2> QED BY <1>0, <2>1, Processing
<1> QED BY <1>3, <1>4, <1>5 DEF KeysHeld, Held

\* The delete queue and its workers.
LEMMA DeleteHeld ==
    ASSUME TypeOK, KeysHeld, NEW p \in Pods, DeleteWorker(p)
    PROVE  KeysHeld'
<1>0. /\ deleteQ \in Queue /\ Get(deleteQ, p) \in Queue
      /\ deleteJob \in [Pods -> Job(DeletePoints)]
      /\ Get(deleteQ, p).processing = deleteQ.processing \cup {p}
  BY QueueOpsType, Processing DEF TypeOK
<1>1. ASSUME NEW q \in Queue, NEW err, DeleteReturns(q, p, err),
             q.processing \in {deleteQ.processing, deleteQ.processing \cup {p}}
      PROVE  Held(deleteQ', deleteJob')
  <2>1. deleteQ'.processing = deleteQ.processing \ {p}
    BY <1>1, Processing DEF DeleteReturns
  <2>2. deleteJob' = [deleteJob EXCEPT ![p] = Idle] /\ Idle.at = "idle"
    BY <1>1 DEF DeleteReturns, Idle
  <2> QED BY <1>0, <2>1, <2>2 DEF KeysHeld, Held
<1>2. ASSUME NEW at \in DeletePoints, DeleteCalls(p, at),
             \/ deleteQ'.processing = deleteQ.processing \cup {p}
             \/ deleteQ' = deleteQ /\ deleteJob[p].at # "idle"
      PROVE  Held(deleteQ', deleteJob')
  <2>1. deleteJob' = [deleteJob EXCEPT ![p] = [deleteJob[p] EXCEPT !.at = at]]
    BY <1>2 DEF DeleteCalls
  <2>2. deleteJob'[p].at # "idle" /\ \A j \in Pods \ {p} : deleteJob'[j] = deleteJob[j]
    BY <1>0, <2>1 DEF DeletePoints, Job
  <2>3. deleteQ'.processing = deleteQ.processing \cup {p}
    BY <1>2 DEF KeysHeld, Held
  <2> QED BY <2>2, <2>3 DEF KeysHeld, Held
<1>3. Held(deleteQ', deleteJob')
  <2>1. CASE DeleteTake(p)
    BY <1>0, <1>1, <1>2, <2>1 DEF DeleteTake, DeletePoints
  <2>2. CASE DeleteDeletePod(p)
    BY <1>0, <1>1, <1>2, <2>2 DEF DeleteDeletePod, DeleteStep, DeletePoints
  <2>3. CASE DeleteDeleteProviderPod(p)
    BY <1>0, <1>1, <2>3 DEF DeleteDeleteProviderPod
  <2> QED BY <2>1, <2>2, <2>3 DEF DeleteWorker
<1>4. UNCHANGED <<syncQ, syncJob, statusQ, statusJob>>
  BY DEF DeleteWorker, DeleteTake, DeleteStep, DeleteDeletePod, DeleteDeleteProviderPod
<1> QED BY <1>3, <1>4 DEF KeysHeld, Held

\* The status queue and its workers.
LEMMA StatusHeld ==
    ASSUME TypeOK, KeysHeld, NEW p \in Pods, StatusWorker(p)
    PROVE  KeysHeld'
<1>0. /\ statusQ \in Queue /\ Get(statusQ, p) \in Queue /\ Forget(Get(statusQ, p), p) \in Queue
      /\ statusJob \in [Pods -> Job(StatusPoints)]
      /\ Get(statusQ, p).processing = statusQ.processing \cup {p}
      /\ Forget(Get(statusQ, p), p).processing = statusQ.processing \cup {p}
  <2>1. statusQ \in Queue /\ Get(statusQ, p) \in Queue
    BY QueueOpsType DEF TypeOK
  <2>2. /\ Forget(Get(statusQ, p), p) \in Queue
        /\ Forget(Get(statusQ, p), p).processing = Get(statusQ, p).processing
    BY <2>1, QueueOpsType, Processing
  <2>3. Get(statusQ, p).processing = statusQ.processing \cup {p}
    BY <2>1, Processing
  <2> QED BY <2>1, <2>2, <2>3 DEF TypeOK
<1>1. ASSUME NEW q \in Queue, NEW add, NEW err, StatusReturns(q, p, add, err),
             q.processing \in {statusQ.processing, statusQ.processing \cup {p}}
      PROVE  Held(statusQ', statusJob')
  <2> DEFINE r == IF add THEN AddRateLimited(q, p) ELSE q
  <2>1. r \in Queue /\ r.processing = q.processing
    BY QueueOpsType, Processing
  <2>2. statusQ' = HandlerReturned(r, p, err)
    BY <1>1 DEF StatusReturns
  <2> HIDE DEF r
  <2>3. statusQ'.processing = statusQ.processing \ {p}
    BY <1>1, <2>1, <2>2, Processing
  <2>4. statusJob' = [statusJob EXCEPT ![p] = Idle] /\ Idle.at = "idle"
    BY <1>1 DEF StatusReturns, Idle
  <2> QED BY <1>0, <2>3, <2>4 DEF KeysHeld, Held
<1>2. ASSUME NEW at \in StatusPoints, NEW pod, NEW inst, StatusCalls(p, at, pod, inst),
             \/ statusQ'.processing = statusQ.processing \cup {p}
             \/ statusQ' = statusQ /\ statusJob[p].at # "idle"
      PROVE  Held(statusQ', statusJob')
  <2>1. statusJob' = [statusJob EXCEPT ![p] = [at |-> at, pod |-> pod, inst |-> inst]]
    BY <1>2 DEF StatusCalls
  <2>2. statusJob'[p].at # "idle" /\ \A j \in Pods \ {p} : statusJob'[j] = statusJob[j]
    BY <1>0, <2>1 DEF StatusPoints
  <2>3. statusQ'.processing = statusQ.processing \cup {p}
    BY <1>2 DEF KeysHeld, Held
  <2> QED BY <2>2, <2>3 DEF KeysHeld, Held
<1>3. Held(statusQ', statusJob')
  <2>1. CASE StatusTake(p)
    BY <1>0, <1>1, <1>2, <2>1 DEF StatusTake, StatusPoints
  <2>2. CASE StatusGetStatus(p)
    BY <1>0, <1>1, <1>2, <2>2 DEF StatusGetStatus, StatusStep, StatusPoints
  <2>3. CASE StatusGetCached(p)
    BY <1>0, <1>1, <1>2, <2>3 DEF StatusGetCached, StatusStep, StatusPoints
  <2>4. CASE StatusCreate(p)
    BY <1>0, <1>1, <2>4 DEF StatusCreate
  <2>5. CASE StatusUpdateStatus(p)
    BY <1>0, <1>1, <2>5 DEF StatusUpdateStatus
  <2> QED BY <2>1, <2>2, <2>3, <2>4, <2>5 DEF StatusWorker
<1>4. UNCHANGED <<syncQ, syncJob, deleteQ, deleteJob>>
  BY DEF StatusWorker, StatusTake, StatusStep, StatusGetStatus, StatusGetCached, StatusCreate,
         StatusUpdateStatus
<1> QED BY <1>3, <1>4 DEF KeysHeld, Held

\* Events and delays add keys, and take none out of processing.
LEMMA EventsHeld ==
    ASSUME TypeOK, KeysHeld, NEW p \in Pods,
           \/ EventHandler(p) \/ SyncDelayElapsed(p) \/ DeleteDelayElapsed(p)
           \/ StatusDelayElapsed(p)
    PROVE  KeysHeld'
<1>1. /\ syncQ'.processing = syncQ.processing /\ deleteQ'.processing = deleteQ.processing
      /\ statusQ'.processing = statusQ.processing
  <2>1. \A q \in Queue :
          \A r \in {q, AddRateLimited(q, p), Forget(q, p), AddRateLimited(Forget(q, p), p),
                   DelayElapsed(q, p)} : r.processing = q.processing
    BY Processing
  <2>2. syncQ \in Queue /\ deleteQ \in Queue /\ statusQ \in Queue
    BY DEF TypeOK
  <2> QED BY <2>1, <2>2 DEF EventHandler, AddFunc, DeleteFunc, UpdateFunc, SyncDelayElapsed,
                           DeleteDelayElapsed, StatusDelayElapsed, queues
<1>2. UNCHANGED jobs
  BY DEF EventHandler, AddFunc, DeleteFunc, UpdateFunc, NextEvent, SyncDelayElapsed,
         DeleteDelayElapsed, StatusDelayElapsed, jobs
<1> QED BY <1>1, <1>2 DEF KeysHeld, Held, jobs

\* Every step does: the others leave queues and jobs, or start with neither.
LEMMA HeldStep == TypeOK /\ KeysHeld /\ [Next]_vars => KeysHeld'
<1> SUFFICES ASSUME TypeOK, KeysHeld, [Next]_vars PROVE KeysHeld'
  OBVIOUS
<1>1. CASE UNCHANGED <<queues, jobs>>
  BY <1>1 DEF KeysHeld, Held, queues, jobs
<1>2. CASE Restart
  BY <1>2 DEF Restart, EmptyQueue, AllIdle, Idle, KeysHeld, Held
<1>3. CASE UNCHANGED vars
  BY <1>1, <1>3 DEF vars
<1>4. CASE Run \/ Stop
  BY <1>1, <1>4 DEF Run, Stop, InformerList, ListProviderPods, MarkDangling, StartWorkers,
                    DeleteDangling
<1>5. ASSUME NEW p \in Pods,
             User(p) \/ ContainersProgress(p) \/ InformerWatch(p) \/ InformerResync(p)
      PROVE  KeysHeld'
  BY <1>1, <1>5 DEF User, UserCreate, UserUpdate, UserDelete, UserForceDelete,
                    ContainersProgress, InformerWatch, InformerResync
<1> QED BY <1>2, <1>3, <1>4, <1>5, SyncHeld, DeleteHeld, StatusHeld, EventsHeld DEF Next

\* No key is lost to its queue: whatever a handler returned, retried, gave up or
\* was overtaken by, a key is in processing only while a worker is at it.
THEOREM KeysHandedBack == Spec => []KeysHeld
<1>1. Init => KeysHeld
  BY DEF Init, EmptyQueue, AllIdle, Idle, KeysHeld, Held
<1>2. TypeOK /\ KeysHeld /\ [Next]_vars => KeysHeld'
  BY HeldStep
<1> QED BY <1>1, <1>2, TypeCorrect, PTL DEF Spec
==============================================================================
