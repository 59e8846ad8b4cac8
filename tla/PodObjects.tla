------------------------------ MODULE PodObjects ------------------------------
(***************************************************************************)
(* What the pod controller handles: pods as the API server stores them,    *)
(* instances as the provider runs them, and the pure functions of          *)
(* provider/sci/controller/pod.go over the two.                            *)
(*                                                                         *)
(* A pod is identified by its name (namespace and name together); uid      *)
(* numbers the incarnations of one name, so two pods of one name differ in *)
(* uid.  rv counts the writes of one incarnation: <<uid, rv>> is the       *)
(* object's resourceVersion.  spec stands for every field podsEqual        *)
(* compares; host is the part of the spec no update changes: whether it    *)
(* asks for something of the host.  A deletionTimestamp that is not nil is *)
(* given by the pod's uid.  status is all that is kept of PodStatus:       *)
(* "pending" (no container status, or all of them waiting), "running",     *)
(* "exited".                                                               *)
(***************************************************************************)
EXTENDS Naturals

CONSTANTS
    Pods,            \* the names pods can have
    HostFieldsAgree  \* does the provider report the API's HostIP and StartTime?

ASSUME PodsAssumption == HostFieldsAgree \in BOOLEAN

States == {"pending", "running", "exited"}

Pod == [uid: Nat, rv: Nat, spec: Nat, host: BOOLEAN, deletionTimestamp: Nat,
        status: States]

\* There is no pod of this name.
NoPod == [uid |-> 0, rv |-> 0, spec |-> 0, host |-> FALSE, deletionTimestamp |-> 0,
          status |-> "pending"]

\* A pod's image at the provider; labelled: it carries the labels naming a pod.
Instance == [uid: Nat, spec: Nat, state: States, labelled: BOOLEAN]

NoInstance == [uid |-> 0, spec |-> 0, state |-> "pending", labelled |-> FALSE]

SameVersion(pod1, pod2) == pod1.uid = pod2.uid /\ pod1.rv = pod2.rv

\* DeletionTimestamp is nil until a graceful deletion sets it.
Deleting(pod) == pod.deletionTimestamp # 0

running(status) == status = "running"

\* Mutant: the condition is that of a pod whose containers do not run.
Finished_NotRunning(pod) == pod.uid # 0 /\ ~running(pod.status)

\* The pod is to be removed from the API server (pod.go:414 and 509).
Finished(pod) == Deleting(pod) /\ ~running(pod.status)

\* Mutant: the deletion is not one of the things compared.
podShouldEnqueue_SpecOnly(oldPod, newPod) == oldPod.spec # newPod.spec

\* deleteGraceTimeEqual is subsumed: the grace period is set with the timestamp.
podShouldEnqueue(oldPod, newPod) ==
    \/ oldPod.spec # newPod.spec
    \/ oldPod.deletionTimestamp # newPod.deletionTimestamp

\* Mutant: nothing is refused.
filterPodFunc_None(pod) == FALSE

\* Whether the pod is refused: the informer only holds pods that have a node,
\* so the burst annotation is never asked for and what is left is the spec's
\* use of host volumes, the host's security settings or the host's namespaces.
filterPodFunc(pod) == pod.host

\* Mutant: no difference is seen.
podStatusEffectiveEqual_Always(status1, status2) == TRUE

\* The comparison's filter names Status.StartTime and Status.HostIP, but paths
\* into a PodStatus start at its own fields: nothing is ignored.
podStatusEffectiveEqual(status1, status2) == HostFieldsAgree /\ status1 = status2
==============================================================================
