# A TLA+ model of the virtual kubelet

This directory specifies the two controllers at the heart of this virtual
kubelet and the process around them: the pod controller
(`src/provider/sci/controller/pod.go`), which keeps a provider's instances in step
with the pods the API server assigns to the node; the node controller (`node.go`,
`node_ping.go` in the same directory), which keeps the node object itself in step
with the provider; and the start-up and end of the process
(`src/cmd/virtual-kubelet/`), which decides on the options, starts everything in
some order and stops it. The modules are checked by TLC on small instances; the
eight modules named `...Proofs` hold theorems for all instances, checked by the TLA+
proof system.

## 1. The system

| component | source | state | operations |
|---|---|---|---|
| pod controller | `controller/pod.go` | three rate-limited queues, the informer's cache (read only), `ready`/`done` channels | event handlers `AddFunc`, `UpdateFunc`, `DeleteFunc`; `Run`, `deleteDanglingPods`; the workers' `handleQueueItem` around `syncHandler`, `deletePodHandler`, `podStatusHandler` |
| work queues | client-go, as used at `pod.go:221-223, 646-682` | waiting, dirty and processing keys, a retry count per key | `AddRateLimited`, `Get`, `Done`, `Forget`, `NumRequeues` |
| provider | `provider/provider.go`, implementation begun in `provider/sci/` | the instances that run | `CreatePod`, `UpdatePod`, `DeletePod`, `GetPod`, `GetPodStatus`, `GetPods`, `Ping` |
| node ping controller | `controller/node_ping.go` | the ping in flight, the last result, `firstPingCompleted` | `Run`'s check, `getResult` |
| node controller | `controller/node.go` | `serverNode`, `providerNode`, `disableLease`, `chStatusUpdate`, two timers | `Run`, `ensureNode`, `controlLoop`, `handlePing`, `updateStatus`, lease functions |
| three-way patch | `controller/node.go:404-543` | two annotations of the node: what was applied last | `prepareThreewayPatchBytesForNodeStatus` |
| configuration watcher | `controller/node.go:161-203` | fsnotify's events and its watch, the channel to the control loop | `NotifyVKNodeResource` |
| process | `cmd/virtual-kubelet/main.go`, `app/root.go` | which goroutine has been started, the context, the exit status | `main`, `runRootCommand`, `waitFor`, the node's error handler |
| options, taint | `app/opts.go`, `app/flag.go`, `app/node.go` | `Opts` | `SetDefaultOpts`, `installFlags`, `getTaint` |
| HTTP servers | `app/http.go` | two servers and their closers | `setupHTTPServer`, `serveHTTP` |
| SCI provider | `provider/sci/` | its configuration, read once | `NewSCIProvider`, `LoadConfig`, `NodeFromProvider`; the pod operations' bodies are commented out or empty, and do not compile |
| resource manager, error definitions, logging, subcommands | `pkg/`, `app/providers`, `app/version` | none that changes | read-through, type tests, I/O |

How they interact. Users write pods to the API server; the informer lists and
watches them and calls the three event handlers one after the other. `AddFunc`
and `UpdateFunc` queue the pod's key in the sync queue and in the status queue.
A sync worker creates the instance, or, for a pod that is being deleted, asks the
provider to delete it and then queues the key in the delete queue with the grace
period as its delay. A delete worker removes the pod from the API server and the
instance from the provider. A status worker writes the provider's status to the
API server, creates an instance it does not find, and queues its own key again:
this is the poll on which everything else falls back. The queues never give one
key to two workers, but the three queues know nothing of each other: one pod
is worked on by up to three goroutines at once, each on its own copy of the pod.

The node controller's goroutine registers the node, creates its lease, starts the
ping controller and then sits in a `select` over a channel of capacity one and
two timers. The configuration watcher loads the file when fsnotify reports a write or
a remove, reads the *server's* node, puts the new capacity into it, sends it into that
channel and then has the file watched again. Every status update first asks
for the last ping, then reads the node, computes a patch from three versions of it
and sends the patch; if the node is not there an error handler in `root.go`
recreates it.

The main goroutine builds these parts one after the other and starts a goroutine
for each: one per informer factory, one for the pod controller, one for the
node controller, one per HTTP server, one that waits for a signal. They share a
context, whose end each of them has to notice; the pod controller waits for the
informers, the main goroutine waits for the pod controller if there is a start-up
timeout, and nobody waits for the factories.

What makes this hard: keys that outlive the pod they were queued for; handlers
that read the cache, call out, and act on what they had read; retries that are
counted together with first attempts; a process that ends between any two steps
and finds its predecessor's instances; a node that others write to while the
patch for it is under way; goroutines that wait for each other through channels;
a start-up whose order is left to the scheduler, and that may fail or be cancelled
half way.
`PROJECT.json` lists these hazards line by line.

What makes the components correct:

* pod controller: the poll of a live pod never dies; a deletion once seen is not
  lost between the queues; nothing is force-deleted that nobody deleted; wanted
  pods get instances, deleted pods go, statuses arrive, keys retire; start-up
  removes what an earlier process left behind and nothing else;
* node controller: the node exists and follows the configuration, whose latest version
  is not lost (but for the windows in which nobody watches the file) and whose earlier
  ones never come back; it keeps what others wrote; the lease ends up with the node that
  exists; whoever gets past the first ping finds its result;
* process: it runs with complete options; the node is not advertised before the
  pods' side is ready; start-up comes to an end, and so does the process after a
  signal; nothing serves after the end.

## 2. The modules

| module | what it is |
|---|---|
| `WorkQueue` | client-go's queue as a record and pure operators on it |
| `PodObjects` | pods, instances, and the predicates of `pod.go` over them (`running`, `podShouldEnqueue`, `filterPodFunc`, `podStatusEffectiveEqual`) |
| `PodController` | the pod controller with API server, users, provider and informer; EXTENDS `PodObjects`, instantiates `WorkQueue` |
| `PodLifecycle` | an abstract specification: what a node promises of the pods assigned to it, with no informer, queue or worker |
| `PodProperties`, `MCPods` | the pod controller's properties and its refinement of `PodLifecycle`; its constants for TLC |
| `PodControllerProofs` | `Spec => []TypeOK`, `Spec => []KeysHeld` |
| `PodPollProofs` | `Spec => []StatusPollAlive` |
| `PodLifecycleProofs` | the refinement and what follows from it, `DanglingSparesLive`, `LeftoversGone`, `ForceDeleteOnlyDeleted`; EXTENDS `PodControllerProofs` |
| `PodDeletionProofs` | `Spec => []DeletionTracked`; EXTENDS `PodLifecycleProofs` and `PodPollProofs` |
| `PodFilterProofs` | `Spec => HostPodsOnlyByReuse`; EXTENDS `PodLifecycleProofs` |
| `NodePatch` | the three-way patch, a pure function of three contents of the node |
| `NodePing` | the ping controller |
| `NodeController` | the node controller with API server, lease, watcher, other writers; EXTENDS `NodePing` and `NodePatch` |
| `NodeLifecycle` | an abstract specification: what a cluster can rely on about the node and its lease, with no pings, patches, timers or watcher |
| `NodeProperties`, `MCNode` | the node controller's properties and its refinement of `NodeLifecycle`; its constants for TLC |
| `NodeProofs` | `Spec => []TypeOK`, `Spec => []ResultPublished`, `Spec => ForeignKeptWithoutReload`, and what the patch leaves alone |
| `NodeLifecycleProofs` | the refinement of `NodeLifecycle`, `Spec => []ConfigTracked`, and that the program as it is registers nothing; EXTENDS `NodeProofs` |
| `Options` | options, their defaults, flags and refusals, as pure operators |
| `Startup` | the main goroutine and those it starts; EXTENDS `Options` |
| `StartupProperties` | its properties; it has no constants, so TLC runs it as it is |
| `StartupProofs` | the type invariant and the three safety invariants of `Startup` |

### State and actions of `PodController`

A worker's handler is cut at each call that leaves the process, so that anything
may happen between two calls. What a handler does up to its first call, taking
the key and reading the lister included, is one action (`SyncTake`, `DeleteTake`,
`StatusTake`); each later call, with what the code does up to the next one, is
another (`SyncGetPod`, `SyncCreate`, ..., `StatusUpdateStatus`). The last call of
a handler includes the epilogue of `handleQueueItem` (`HandlerReturned`), with its
`Forget`, its retry or its "max retry reached", and the deferred `Done`. A job
(`syncJob[p]` and so on) records which call comes next and the copies of the pod
and the instance that the code still uses, so that staleness is what it is in the
code.

`api`, `prov` and `uids` are the outside world; `cache` is the informer's store
and `events` the notifications not delivered yet. Watching may skip versions
(`InformerWatch` puts the current version into the cache), so a pod that was
deleted and created again can arrive as one update, as in client-go. Every call
may fail, whether it took effect or not, as long as `faults < MaxFaults`. `phase`
and `dangling` are `Run` and `deleteDanglingPods`, cut at their own calls. `Stop`
is `Run`'s return on a cancelled context, which neither shuts the queues down nor
waits for the workers; `Restart` loses all of the process's state, and nothing
else, at any point. `gaveUp` is a history variable: keys forgotten with "max retry
reached".

Identity is what the code gets wrong or right, so `uid` numbers the incarnations
of a name and `rv` the writes of an incarnation; the spec is a version number, the
status one of "pending", "running", "exited"; `host` says whether
`filterPodFunc` refuses the pod.

`PodLifecycle` sees three things: the pod of each name (its number, and whether
it is wanted or going), the last number given, and the number of the instance that
runs. `PodProperties` maps `api`, `uids` and `prov` to them; everything else of
`PodController` is hidden. What it allows is that pods are assigned, asked to go and
leave; that a pod that was given is deployed where nothing runs, be it that it has
left meanwhile; and that an instance goes when its pod is not wanted. The promise
ends where a name is used again (`Reused`), since the code acts on names:
`pods_stale_delete` shows what it does then.

### State and actions of `NodeController`

`run` is where `Run`'s goroutine stands: the call it makes next or the answer it
waits for, on whose behalf, whether the error handler has already been asked, and
what `Get` returned. `node` is the API server's node: its `uid`, its content and
the content of our last-applied annotations. A content is a function from fields
to values, 0 for a field that is not there; four fields are enough to tell apart
what the patch does: `ready`, a condition of the provider's own; `capacity`, whose
value is the version of the configuration (cpu and memory, which the watcher handles
alike); `pods`, the limit of pods, which the watcher publishes under another key, "pod",
so that the field is gone from its node; `foreign`, a condition others write.
Annotations and labels behave like these (the patch merges all of them by key) and
are not fields of their own. `UpdateFails` sends an error where the code sends it:
to `ensureNode`, which creates a node that is not found and otherwise makes `Run`
return; to `root.go`'s error handler; or to the log. When `Run` returns with an
error, `run.at = "returned"` is a process without its node controller; whether the
library's `Fatal` of `root.go:215` then ends the process is in `Startup`. `"exited"` is a
process that a panic has ended; `Restart` starts another at any point.

The configuration watcher is `watcher`, its goroutine; `notified`, the events fsnotify
holds for it; and `watched`, whether fsnotify watches the file. The process reads the
configuration when it starts (`Init`, `Restart`; `root.go:130`) and watches the file
only from `Watch` on (`root.go:218`, `node.go:161-168`), a step of its own that comes
whenever the main goroutine gets there, before or after any step of `Run`. On an event
it loads the file (`WatcherLoads`), gets the server's node (`WatcherGets`), sends it and has
the file watched again (`WatcherSends`). A change of the file (`ConfigWritten`) gives one
event or two if it is written in place, one remove event that ends the watch if another
file takes its name, and none while nobody watches. So a change can be missed in two
windows: between `root.go:130` and `node.go:166`, and, after a remove event, between the
load at 178 and `watch.Add` at 193. `missed` is a history variable: the latest change came
in one of them, with no event waiting that would make the watcher load the file after
all. `watch.Add` is taken to succeed; if it fails, which is only logged, the file is
unwatched for good.

The lease is the UID in its owner reference. Its renewal sends a new lease without a
resource version (`newLease` gets no base, `node.go:563-577`). The API server does not
update an existing lease to that, so the renewal of a lease that exists fails and changes
nothing (`LeaseUpdate`): `RenewTime` stands still, and the owner stays. If the lease is
gone, the same call creates one for the node the process knows; a call that fails may be
a "not found", of the namespace, which leads to `ensureLease`. After the node was
recreated the lease therefore changes hands by `LeaseCollected`, the cluster's garbage
collector, and the next renewal.

`NodePing` cuts `checkFunc` and its caller where the code does: `Publish` sets the result
under the lock (`node_ping.go:94-97`), `CloseFirst` closes `firstPingCompleted` after the
first check (102), and anything may happen in between.

`NodeLifecycle` sees the node there is (its number, its capacity, whether it is
ready, whether it has a limit of pods), the last number given, the version of the configuration and the owner of the
lease. `NodeProperties` maps `node`, `uids`, `config` and `lease` to them; what others
write into the status, the annotations, the process and everything in it are hidden.
What it allows is that a node is registered where there is none, ready, with a limit of
pods and with some version of the configuration up to the latest; that a node's capacity moves to a later
version, never back; that a node goes; that a lease is taken over by the same or a
later node, is made for any node there has been, and goes. Two promises are not in
it because the code does not keep them: readiness and the limit of pods are promised
until the first change of the configuration (`node_ready`, `node_pods`), and a new node may have an older capacity than the
one before, since the error handler of `root.go` creates the node of the
process's start.

### State and actions of `Startup`

`at` is what the main goroutine does next, one action per part that it builds
(`PreRun`, `CheckOptions`, ..., `MetricsServer`, `Finish`, `Exit`); an error takes it to
`"returned"`, which also cancels the context (`CtxDone`). What error it was makes no
difference: `main.go:69-71` hands every error but a cancellation to `log.G(ctx).Fatal` of
`src/pkg/log`, whose `L` is a logger that does nothing and that nobody replaces
(`log.go:28`), so that `Exit` ends with status 0. `root.go` imports the log package of
the virtual-kubelet library instead; its `Fatal` at 215 ends the process or, if no logger
was set there, does nothing (`LibraryFatal`). Only that, `klog.Fatal` and panics end the
process as `"fatal"`.
`signal` is the first SIGINT or SIGTERM, sent and then taken by `main`'s goroutine.

The informers are in `registered`, `started` and `synced`. A factory starts the
informers it was asked for before; `StartFactories` only creates the goroutines
(`starters`), so `FactoryStart` may come before or after each `Asks`. Of the
informers the three are kept that `PodController.Run` waits for.

`PodsRun` is `PodController.Run` and `NodeRegisters`/`NodeReturns` is
`NodeController.Run`, as much of them as the rest of the process can see: waiting
for the caches, the removal of what dangles, readiness and return; registration
and return. `PodController`'s `phase` and
`NodeController`'s `run` are the same goroutines in detail.

An option (`Options`) is unset, a default, given, refused by some check, or a number
of workers that no check refuses. What holds of an option depends on whether
`SetDefaultOpts` had come to it when it failed, so `Early` and `Late` are those before
and after `KUBELET_PORT`. `apiAnswers` says whether the API server answers the
informers. Other circumstances (the taint's environment, certificates, ports in use)
are choices made where they are asked for. Under which name the node is registered, and
how it comes from `ClusterName` and a line of the configuration file (`root.go:132`,
`sci.go:51`, `75-77`, `config.go:52-71`), is not modelled.

## 3. What the runs check

Passing runs:

| run | instance | shows |
|---|---|---|
| `pods_liveness` | one name, one incarnation, one failing call, retries 1 | `KeysHeld`, `StatusPollAlive`, `DeletionTracked`, `ForceDeleteOnlyDeleted`; under fairness `PodDeployed`, `PodRemoved`, `StatusReported`, `KeysRetire` |
| `pods_reuse` | one name used twice, host pods too | late events, delays and jobs of the first pod meet the second: `DeletionTracked`, `HostPodsOnlyByReuse` |
| `pods_restart` | a leftover instance, one restart, one failing call, updates, resyncs | `StatusPollAlive`, `LeftoversGone`, `DanglingSparesLive`, and that the controller is a `PodLifecycle` (`ImplementsLifecycle`) |
| `node_loop` | the node recreated once, one change of the configuration, watched or not, one disturbance (failing call, failing or hanging ping, panic, restart), leases off, unsupported or on | `TypeOK`, `ResultPublished`, `ConfigTracked`, `ForeignKeptWithoutReload`, and that the node controller is a `NodeLifecycle` (`ImplementsLifecycle`); under fairness `NodeRegistered`, `ConfigPublished`, `LeaseFollowsNode` |
| `startup` | all options and flags of `Options`, a failure at any step, a signal at any point | `TypeOK`, `RunsWithDefaults`, `NodeWaitsForPods`, `NothingServesAfterReturn`; under fairness `StartupEnds`, `ShutdownEnds`, `ReadyUnlessMissed` |

Some of these properties make an exception for what the code does get wrong, and show
that it goes wrong in no other way. `HostPodsOnlyByReuse` exempts the window between the
filter and the second look at the lister. `DeletionTracked` and `PodRemoved` allow a key
that was given up, but only if a call has failed. `ImplementsLifecycle` of the pods ends
where a name is used again, that of the node promises readiness and the limit of pods
until the configuration changes. `ConfigTracked` and `ConfigPublished` allow a change
that was `missed`, and a watcher that hangs on the channel `Run` has not made yet.
`ReadyUnlessMissed` allows an informer that was asked for too late. The type invariant
of `PodController` is proved (section 4) and in no run.

Runs that show the code disagreeing with what its comments say (TLC finds the
violation; `PROJECT.json` quotes the comment):

| run | property | what happens |
|---|---|---|
| `pods_stale_delete` | `ForceDeleteOnlyDeleted` | where keys split, a key in the delete queue outlives its pod and removes the next pod of that name |
| `pods_orphan` | `OrphansConverge` | `DeleteFunc` queues nothing: a pod force-deleted while it is being created leaves an instance behind, where keys split and with no failed call |
| `pods_invalid_key` | `InvalidKeysNotRequeued` | keys have three parts; where `SplitMetaNamespaceKey` accepts two, the "do not requeue" error is requeued |
| `node_register` | `NodeRegistered` | `ensureNode` waits for the first ping, the ping controller starts in `controlLoop`, after it: the node is never registered |
| `node_ready` | `ReadyKept` | one failed `Get` in the watcher makes an empty node the provider's, and the next patch deletes the Ready condition |
| `node_pods` | `PodsKept` | the watcher publishes the limit of pods as "pod": the first change of the file takes "pods" away, with no failed call |
| `startup_informers` | `PodsComeUp` | a factory is started before it is asked for an informer, which then never syncs: the pod controller is never ready |

Every property of a passing run has a mutant in `PROJECT.json`: a definition
changed as a plausible bug would change it (`..._NotOnError`, `..._NoRetry`,
`..._TwoWay`; they stand before the definitions they replace), under which TLC
finds the property violated in the same run.

### What the passing runs assume

The repository pins no version of client-go, and its own provider has no pod operations
yet, so some facts are constants:

* `SplitAccepts = {1, 2, 3}` (`AssumedSplit`): keys split. Otherwise every handler
  returns before it has done anything: `pods_invalid_key`, and the theorem
  `NothingHandled`.
* `NotFoundIsApiError = TRUE`: the provider's "not found" is recognised (see section 5).
* `PingStartsFirst = TRUE` in `node_loop` and the node's other runs but
  `node_register`: somebody pings before the node is registered. As the code
  stands nobody does, and nothing after `ensureNode` would be reached; these runs
  show what the rest of the code does once that is repaired. `node_register`
  has the code's own value.
* `PingTimeout = FALSE`, as in the program.
* `HostFieldsAgree = TRUE`: the provider reports the host IP and start time the
  API server has (otherwise every poll writes the status).

### Bounds, and why they are enough

* One pod name. All state is indexed by the name, and no handler touches another
  name's; names meet only in the pool of workers (`CanTake`), and a worker never
  waits for another. With `Workers = 2` the pool never delays the only key, so
  what a pool that is busy with other keys may do is not checked by TLC; the
  theorems below hold for any set of names and workers.
* `MaxUid`: incarnations per name. The first uid belongs to the earlier process's
  leftovers, so 2 is one use of the name and 3 is a use and a reuse. A key
  cannot tell two earlier pods apart, so a third use adds no new kind of
  staleness.
* `MaxRequeues` is 1 or 0 instead of 3. The code compares the count with the
  limit only, and `AddFunc`, `UpdateFunc` and failures all count, so that with 3
  as with 1 a single failing call can meet a count that is already used up, or one that
  allows a retry (`pods_liveness`). With 0, in `pods_restart` and `pods_reuse`, no
  handler is ever retried, only given up: these runs say nothing of retries, and what
  they check is proved for any limit. The library's count grows without a limit; the
  model's stops at `MaxRequeues`, beyond which nothing reads it.
* `MaxFaults = 1`: every single failure at every call, before or after it took
  effect; in the node's runs a hanging ping, a panic and a restart count as
  failures, too. Two failures in one behaviour are not checked by TLC.
* `MaxBacklog`: notifications the informer holds for a pod, 1 or 2; two are an
  event that waits while another is made.
* `MaxSpec = 2` only in `pods_restart`: a changed spec is an update like any other
  to the queues; the liveness runs have no updates of the spec, and their status
  updates take the same path through `UpdateFunc`.
* `ContainersExit = FALSE` in all runs: all the controller asks of a status is
  whether containers run (`running`, `pod.go:769-780`), so a pod whose containers
  have ended takes the paths of one whose containers have not started.
* `MaxConfig = 2`, with a save giving one event or two, fills the channel of
  capacity one; `MaxForeign = 1` is one write of others between any two
  steps. With two versions the change can be at the watcher, in the channel and with
  controlLoop at once, and on the server or not. It can be missed in the first window,
  before `Watch`; to miss one in the second takes three versions, one whose remove event
  the watcher handles, and one written meanwhile. That, and that of more versions none
  that is no longer the latest overtakes another, is proved for any number of versions
  (`ConfigAlwaysTracked`, `CapacityOrder` in section 4).
* `LastForeign = 1`: others write only while the configuration is the first, the part
  of a behaviour that `ForeignKeptWithoutReload` speaks of. What becomes of foreign
  fields after that no property asks; the proofs have any `LastForeign`.
* `Startup` has no bounds: every part is built once, and what else a process does
  is finite.
* No run checks for deadlock: with the bounds used up, everything may be done, and a
  process may end.

### Fairness

`PodController`: weak fairness for `Run`, for the informer, for each queue's
workers and for each delay. Goroutines are scheduled, calls return (they may
fail, but only `MaxFaults` times) and timers fire. Nothing is assumed of users,
faults, restarts, resyncs or containers.

`NodeController`: weak fairness for the ping's goroutines, for a ping that the
provider answers, for `Run`'s calls and for the watcher. The three cases of
the control loop's `select` get strong fairness, because each of them is ready
only when the loop comes back to it, and Go's `select` picks at random among
those that are ready. A provider that is `stuck` is not assumed to answer. Outside of
the program, the cluster's garbage collector is assumed to remove, in the end, a lease
whose owner no longer exists (`LeaseCollected`): without it the lease of a node that is
gone would stay, since the code's renewals do not move it.

`Startup`: weak fairness for the main goroutine, which includes the timeout of
`waitFor`, for the goroutine that takes the signal, for `PodController.Run`, for each
factory's `Start` and for each informer (which needs an API server that answers). Nothing is
assumed of signals, of the node's registration (`node_register` shows that it may
not end) or of the servers' goroutines.

## 4. What is proved

* **`TypeCorrect`** (`PodControllerProofs`): `Spec => []TypeOK`, for every set of
  pods and all values of the constants that satisfy the named assumptions.
  `TypeOK` is inductive. There is one lemma per operator on queues and objects,
  and one per group of actions; the jobs' types carry the fact that a queue's
  workers stand only at that queue's calls.

* **`KeysHandedBack`**: `Spec => []KeysHeld`, for every set of pods and any number of
  workers: a key is in a queue's `processing` exactly while one of the queue's workers is
  at it. It is inductive together with `TypeOK`: of the queue's operations only `Get` and
  `Done` touch `processing` (`Processing`), a handler's first step takes the key and
  begins the job, and each of its returns, with and without an error, retried or given
  up, ends both; events, delays and the other queues' workers add keys and take none
  back.

* **`PollAlive`** (`PodPollProofs`): `Spec => []StatusPollAlive`. While a pod in
  the informer's cache is to be polled, its status key is waiting or dirty in the
  queue, or in a worker's hands, or an event that will queue it has still to be
  delivered: for any number of pods and workers, retries, failing calls, resyncs
  and restarts. This is the property on which the repair of everything else
  rests, since what the other workers give up after "max retry reached" the
  poll tries again. The inductive invariant is

  `PollInv == TypeOK /\ ApiHasUids /\ StatusPollAlive`

  `ApiHasUids` says that a pod in the API server has a uid the name has been
  given. It is needed where a watch event replaces the cached pod: a pod with uid
  0 would be `NoPod` or equal in version to it, and `UpdateFunc` would not queue
  it. The argument, one lemma per group of actions: adding to a queue and
  finishing a key keep others `Pending` (`PendingKept`); each way
  `podStatusHandler` can return either queues the key again or leaves a cached pod
  that is not to be polled (`StatusReturnsPending`, `StatusWorkerKeepsPoll`); an
  event handler that consumes the event queues the key (`HandlersKeepPoll`); a
  changed cache comes with an event (`ListWakes`, `WatchWakes`); a resync changes
  nothing (`ResyncKeepsPoll`); nobody else touches the four things the property
  speaks of (`PollUntouched`).

* **`DeletionNeverDropped`** (`PodDeletionProofs`): `KeySplits` implies `Spec =>
  []DeletionTracked`. A deletion the controller has seen is in the sync queue or the
  sync worker's hands, in the delete queue or the delete worker's, in an event that
  will queue it; or the pod is gone; or it was given up with "max retry reached" *and*
  a call has failed (`CallFailed`): events and retries count against one limit, but
  without a failure no deletion is given up. (If keys do not split, every handler fails
  before it has looked at the pod.) The inductive invariant is

  `DeletionInv == TypeOK /\ UidsKnown /\ Stamped /\ DeletionTracked`

  `Stamped` says that a deletion timestamp belongs to the pod it stands on: a pod that
  is not being deleted and one that is differ in a way `podShouldEnqueue` sees, so the
  update in between queues the sync key. `UidsKnown` tells incarnations apart: what
  replaces the cached pod has a later number. The argument goes along the hand-over:
  an error leaves the key pending or given up (`ErrorTracked`), and is a failure that is
  counted and never forgotten (`FailsCounted`, `FailedStays`); the sync worker that
  is done has queued the delete key, the delete worker that is done has found the pod
  gone or has removed it.

* **`Implementation`** (`PodLifecycleProofs`): `Spec => ImplementsLifecycle`, the
  refinement of `PodLifecycle`. The initial states map to initial states; every step
  changes at most one name of one of the two worlds, API server or provider
  (`OneName`), and what it does there is a step of the abstract specification or a
  stutter. The inductive invariant is

  `Inv == TypeOK /\ UidsKnown /\ WorkersWait /\ SparesLive /\ OverKnown`

  Each part says what some goroutine knows while it acts on something it read
  before: whoever holds a copy of a pod holds one that was given (`UidsKnown`); no
  handler is active before the workers start (`WorkersWait`); what
  `deleteDanglingPods` has listed is no one's pod (`SparesLive`); and as long as a name
  is used once, a key in the delete queue, a cached deletion and a pod that is
  missing from the cache after it was seen all mean that the pod is over
  (`OverKnown`).

* **`WantedStaysDeployed`**, from the refinement: until a name is given to a second
  pod, no step takes down or replaces the instance of a pod that is wanted.

* **`DanglingSafe`**, **`NothingLeftBehind`**, **`NoForcedDeletion`**, from the same
  invariant: start-up removes no instance of a pod that exists; no labelled instance
  of an earlier process is left once the workers run and no call failed (with
  `LeftoversListed`: until then it is on the list); and if `MaxUid <= 2`, which makes a
  name be used once, the delete worker removes only pods whose deletion was asked for.
  Without that bound the last is false (`pods_stale_delete`).

* **`NothingHandled`**: `~KeySplits` implies that no pod is ever deployed, and that
  nobody but its user writes or removes a pod. `pods_invalid_key` shows the
  requeueing; this is what it amounts to with a client-go whose
  `SplitMetaNamespaceKey` takes keys of one or two parts: every handler returns as
  soon as it has its key (`HandlersReturn`).

* **`FilterHolds`** (`PodFilterProofs`): `Spec => HostPodsOnlyByReuse`, from

  `FilterInv == TypeOK /\ UidsKnown /\ FilterKnown`

  `FilterKnown` says that all copies of one pod, in the API server, the cache and the
  status worker's hands, agree on its use of the host, since no update changes it
  and no number is given twice (`AgreeStep`), and that a pod in a worker's hands has
  passed the filter. So the pod that the status worker finds at its second look is
  either the one it asked the filter about or one with another number: the window
  in the property is the only one.

* **`NodeTypeCorrect`** (`NodeProofs`): `Spec => []TypeOK` for the node controller.
  `TypeOK` is inductive; that the channel never holds two nodes rests on the
  watcher's waiting for room.

* **`ResultAlwaysPublished`**: `Spec => []ResultPublished`. The property alone is not
  inductive, since the result is set in one step and `firstPingCompleted` closed in a
  later one; `ResultFirst`, that there is a result from `"closing"` on, is. No answer or
  timeout publishes the absence of a result, a restart takes back both, and nobody else
  closes the channel. It holds for both values of `PingTimeout`, the joined and late
  pings of the timeout included.

* **`ForeignUntouched`**: `Spec => ForeignKeptWithoutReload`. Until the
  configuration changes, no patch touches what others wrote, though it was
  computed from a node read long before. By the lemma `PatchKeeps` a patch says nothing of a
  field that neither the provider's node nor the last applied one has. That this
  is so of foreign fields is `ForeignInv`: until then, neither `providerNode`, nor
  the annotations on the server, nor those in the copy that `Get` returned
  (a crash and a later process included) hold anything foreign, and the
  watcher, the one who would bring it in, has nothing to read or to send. After the
  first change it is no longer true (section 5).

* **`NodeImplementation`** (`NodeLifecycleProofs`): `Spec => ImplementsLifecycle`,
  the refinement of `NodeLifecycle`, for either value of `PingStartsFirst` and any number
  of versions, foreign writes, failures and restarts. The inductive invariant is

  `Inv == ForeignInv /\ Identity /\ OwnerKnown /\ CapacityOrder /\ PromiseKept`

  `CapacityOrder` lines up all copies of the configuration: what the watcher sends is no
  older than what is in the channel, that no older than the node controlLoop wants,
  that no older than the server's; and the configuration the process began with, which
  the error handler creates nodes from, no newer than controlLoop's. It is what keeps a
  patch from taking the capacity back. A patch computed from a node read long before
  brings a wanted field to the provider's value or leaves it as it is (`PatchBrings`).
  `Identity` says that there is one node, the last one created, and
  that the lease's owner is not later than what the process knows (after a restart it
  may know none); `OwnerKnown` that nobody
  writes a lease before the node is registered, so that no lease has the UID of none.
  `PromiseKept`, that the provider's node and the
  server's are ready and have a limit of pods, holds until the configuration changes. `Run`'s calls change the node or
  the lease, never both (`RunCallsMove`); each change is a step of the
  abstract specification (`PatchShown`, `CreationShown`, `RunCallsShown`, `OthersShown`),
  and what the process does otherwise shows nothing (`OwnSteps`).

* **`ConfigAlwaysTracked`**: `Spec => []ConfigTracked`: the latest version of the
  configuration is with controlLoop, in the channel, with the watcher or in an event,
  unless it was written in one of the two windows in which nobody watches the file and no
  event was waiting (`missed`). The inductive invariant adds `Listens` to the one above:
  a watcher that waits for events and has none left has the file watched. So a change is
  missed only before `Watch` or while an event is handled; that the watch a remove event
  ends is set up again before the watcher waits for events is where `watch.Add` of
  `node.go:193` comes in. `CapacityOrder` is needed where controlLoop takes what the
  channel holds: if it had the latest version already, what replaces it is no older.

* **`NeverRegistered`**: `~PingStartsFirst` implies `Spec => [](node = NoNode /\ lease = 0)`.
  `node_register` shows by one behaviour that the program as it is need not register the
  node; this theorem, that it never does, in any process and whatever others do:
  `Run`'s goroutine waits for the first ping, and the ping controller is off
  (`Waiting`).

* **`StartupTypeCorrect`**, **`DefaultsComplete`**, **`NodeComesLast`**,
  **`ServersClosed`** (`StartupProofs`): the type invariant
  and the three safety invariants of `Startup`, for every order of the goroutines. They
  follow from one inductive invariant,

  `Inv == TypeOK /\ OptionsKnown /\ PodsKnown /\ ServersKnown`

  which ties what there is to where the main goroutine stands: what it has not come
  to is off; it got past `PreRun` only with options whose defaults are complete; the
  node's goroutine exists only after `waitFor` if there is a timeout; and after its return each server
  is off, closed, or told to close before it serves.

The assumptions are those named in the modules (`PodsAssumption`,
`ControllerAssumption`, `PingAssumption`, `FieldsAssumption`, `NodeAssumption`), and
those the theorems state; TLC evaluates them in every run of the modules they belong to.

Only model-checked: liveness (`PodDeployed`, `PodRemoved`, `StatusReported`,
`KeysRetire`, `NodeRegistered`, `ConfigPublished`, `LeaseFollowsNode`, `StartupEnds`,
`ShutdownEnds`, `ReadyUnlessMissed`), which is out of the prover's reach. Every type
invariant, safety invariant and action property of a passing run is proved.

## 5. What else the code does

Seen while modelling, in the model where it changes state, and covered by no run of
its own:

* "Not found" is recognised only if it is an API machinery error
  (`pod.go:555`, `699`), where `provider.go:59-61` asks a provider for errors of
  `errdefs`; with such a provider (`NotFoundIsApiError = FALSE`) `GetPod`'s answer
  leads to `UpdatePod(nil)`, and the pod is never created. Whether such an error is an
  API machinery error too is up to the provider.
* After a change of the configuration the watcher's copy of the server's node is the
  node the provider wants: conditions that others wrote become the controller's own,
  and later patches set them back (`node.go:183-191`). `ForeignKeptWithoutReload` ends
  there.
* No option sets `pingTimeout` (`node.go:64`, `109`): a provider that hangs is never
  noticed and the last good result stays.
* Nobody replaces the logger of `src/pkg/log` (`log.go:28`), so `log.G(ctx).Fatal` in
  `main.go:70` does nothing: the process ends with status 0 after an error. The comment
  at `log.go:25-27` has it that an uninitialised logger panics. What the same call at
  `root.go:215` does when the node controller's `Run` fails is up to the library's log
  package, and `Startup` has both. `klog.Fatal` (`root.go:199`)
  does end the process: also when a signal comes while the caches sync, since `Run` then
  reports a failure of its own instead of the cancellation.
* The node controller's error is not compared with a cancellation (`root.go:214`),
  as the pod controller's is (`root.go:198`).
* A failure of `fsnotify.NewWatcher` is logged, and `watch.Add` then panics on nil
  (`node.go:162-166`); `NotifyVKNodeResource` in `Startup`.
* The HTTP servers are set up after the node is advertised (`root.go:212-229`): a port
  in use ends a process that is already a node. A server whose `Serve` fails is
  only logged.
* A negative number of workers passes the check (`root.go:61`), and panics at
  `pod.go:617`.
* The defaults for CPU, memory and pods (`sci.go:56-64`) are never used, because
  `LoadConfig` refuses a configuration without them (`config.go:39-47`). If no line has the
  node's name, the last one of Go's random order over the map is taken (`config.go:59-66`).
* `Run` returns without shutting the queues down or waiting for its workers,
  contrary to its comment (`pod.go:271-280`).
* `createOrUpdatePod` gives `UpdatePod` the provider's own pod, so a changed spec
  never reaches the provider (`pod.go:574`).
* `podStatusEffectiveEqual`'s filter names paths that do not start at a
  `PodStatus`, and ignores nothing (`pod.go:877-889`).
* `handlePing` wraps the nil error instead of the ping's (`node.go:281`); only a log line
  tells the difference.
* The renewal of a lease sends no resource version (`node.go:546`), so that a lease that
  exists is never renewed.
* A change of the configuration between `root.go:130` and `node.go:166`, or between a
  remove event's load and `node.go:193`, is not noticed until the next one.
* The ping timer is reset with the status interval (`node.go:260`).
* `ensureLease` inverts one condition and returns shadowed errors as success
  (`node.go:629-637`).
* A configuration file that does not parse is logged and then makes `MustParse`
  panic (`node.go:178-187`).

Not modelled: the resource manager, error definitions, the bodies of the loggers
and the subcommands, which hold no state that changes; options that are only copied;
what the HTTP routes answer, whose code is in another repository; the SCI provider's own
pod operations, whose bodies are commented out or empty and do not compile; the lengths
of timers and delays; conflicts, which `RetryOnConflict` answers by making the call
again; the node's name and the choice of the configuration's line; a `watch.Add` that
fails; the renewal time of the lease.

## 6. Plan

Done, in this order: `WorkQueue`, `PodObjects`, `PodController` with its
properties and runs; its type invariant and `StatusPollAlive` proved; `NodePatch`,
`NodePing`, `NodeController` with their properties and runs, and `NodeProofs`;
`Options`, `Startup` and `StartupProofs`; `PodLifecycle`, its refinement by
`PodController` checked and proved, with the properties of start-up, deletion and
the filter; `NodeLifecycle`, its refinement by `NodeController` checked and proved, with
`ConfigTracked`; the watch of the configuration file with the windows it leaves;
`KeysHeld`.

Left, in this order:

1. `Startup` composed with `PodController` and `NodeController`: `pods` and `nodeRun` as
   abstractions of `phase` and `run.at`, stated as refinements.
2. Two pods and one worker in one run, so that the pool (`CanTake`) delays a key.
3. Three versions of the configuration in a run of their own, so that TLC too sees a
   change missed between a remove event and the next `watch.Add`.
