----------------------------- MODULE NodeProperties -----------------------------
(* What the node controller should get right.                              *)
EXTENDS NodeController

\* Whoever gets past firstPingCompleted finds a result: updateStatus and
\* handlePing read result.error without asking whether there is one.  The channel is
\* closed in a step of its own, after the result was set under the lock
\* (node_ping.go:94-97, 102 and 110-121, node.go:276-281 and 328-331).
ResultPublished == firstPingCompleted => result # NoResult

\* A patch that this process sends leaves alone what others wrote into the
\* node's status (node.go:405-458: condition C of the "ExternalUpdater").
PatchSparesForeign ==
    run.at = "patch" /\ run'.at # "patch" /\ node' # NoNode
    => node'.is["foreign"] = node.is["foreign"]

\* That holds as long as the configuration was never changed: only then is the
\* provider's node what the provider says, and never a copy of the server's
\* (node.go:183-191), in this process and in those that wrote the node before.
ForeignKeptWithoutReload == [][config = 1 => PatchSparesForeign]_vars

\* No version of the configuration that is skipped between the file, the watcher, the
\* channel of capacity one and controlLoop is the latest: the node that controlLoop
\* wants has that, or it comes with what the channel holds, with what the watcher has
\* loaded, or with an event (node.go:170-194, 228-247).  A watcher that hangs, since
\* the channel was not there yet, has it or has events waiting.  The exception is a
\* change that gave no event and came when none was waiting: between root.go:130 and
\* node.go:166, or between the load after a remove event and node.go:193.
ConfigTracked ==
    \/ missed
    \/ providerNode["capacity"] = config
    \/ \E i \in 1..Len(chStatusUpdate) : chStatusUpdate[i]["capacity"] = config
    \/ watcher.at \in {"loaded", "sending", "blocked"} /\ watcher.oldNode["capacity"] = config
    \/ notified > 0

\* A node that was published keeps its Ready condition: "the node status must
\* be updated periodically in Kubernetes to keep the node active" (node.go:119),
\* and newNode is what "the provider wants" (477).
ReadyKept == node.applied # Nothing => node.is["ready"] # 0

\* A node that was published keeps its limit of pods, in whatever version: a change
\* of the configuration file is to "update vk node resource, as cpu, memory, pod"
\* (node.go:160, 184-188; sci/node.go:57-62).
PodsKept == node.applied # Nothing => node.is["pods"] # 0

\* What the cluster sees of the node and of its lease is a NodeLifecycle.
Shown ==
    [uid |-> node.uid, capacity |-> node.is["capacity"],
     ready |-> node.is["ready"] # 0, pods |-> node.is["pods"] # 0]

Lifecycle == INSTANCE NodeLifecycle WITH
                 node <- Shown, given <- uids, config <- config, owner <- lease

\* Whatever is in the channel, was read long before or is done on behalf of a node
\* that is gone, and whoever started the process again: a node is published ready and
\* with its limit of pods until the configuration changes, its capacity never goes
\* back to an earlier configuration, and a lease there is is handed over to later
\* nodes only (node.go:146, 183-200, 244-247, 336-350, 553-561).
ImplementsLifecycle == Lifecycle!Spec

------------------------------------------------------------------------------
(* Liveness, under FairSpec.                                               *)

\* The process or Run's goroutine has ended, or the provider no longer answers
\* its pings.
Down == run.at \in {"exited", "returned"} \/ stuck

\* "Run registers the node in kubernetes" (node.go:117): whenever there is no
\* node, at first or because it was deleted, it gets created, although a call
\* may fail (node.go:301-325, 336-350 and root.go:156-170).
NodeRegistered == node = NoNode ~> node # NoNode \/ Down

\* The node's capacity of cpu and memory follows the configuration file, if the
\* watcher did not run into the channel that is not there yet and the latest change
\* was not made while nobody looked, see ConfigTracked (node.go:161-200, 228-247).
ConfigPublished ==
    []<>(node.is["capacity"] = config \/ Down \/ watcher.at = "blocked" \/ missed)

\* The lease's owner is the node that exists, although the node is recreated behind
\* the lease's back, the lease is collected and calls fail.  A renewal never moves a
\* lease there is: the cluster collects the one of the node that is gone, and the next
\* renewal creates one for the node the process knows by then (node.go:292-299, 345,
\* 352-354, 545-561 and 619-638).
LeaseFollowsNode ==
    []<>(lease = node.uid \/ leaseMode # "on" \/ disableLease \/ Down)
==============================================================================
