----------------------------- MODULE NodeController -----------------------------
(***************************************************************************)
(* The node controller, provider/sci/controller/node.go: Run, which        *)
(* registers the node and its lease and then serves the control loop, and  *)
(* the watcher of the provider's configuration, next to the ping           *)
(* controller (NodePing), the API server's node and lease, and others who  *)
(* write to the node.                                                      *)
(*                                                                         *)
(* Run's goroutine is cut at its calls to the API server, and where it     *)
(* waits: for the first ping, and in the loop's select.                    *)
(***************************************************************************)
EXTENDS NodePing, NodePatch, Sequences

CONSTANTS
    PingStartsFirst,  \* is the ping controller started before the node is
                      \* registered?  FALSE: only controlLoop starts it (222)
    LeaseModes,       \* what may hold of leases: "off" (EnableNodeLease is not
                      \* set), "unsupported" (by the API server), "on"
    \* Bounds of the checked instances, on what the environment may do.
    MaxUid,           \* times the node can be created
    MaxConfig,        \* versions of the configuration
    MaxForeign,       \* values others write to the node's status
    LastForeign,      \* the last version of the configuration while they do
    MaxFaults         \* calls that fail without a reason of their own, pings that
                      \* hang and processes that end, all together

ASSUME NodeAssumption ==
    /\ PingStartsFirst \in BOOLEAN
    /\ LeaseModes \subseteq {"off", "unsupported", "on"}
    /\ Fields = {"ready", "capacity", "pods", "foreign"}
    /\ Conditions = {"ready", "foreign"}
    /\ {MaxUid, MaxConfig, MaxForeign, LastForeign, MaxFaults} \subseteq Nat

VARIABLES
    node,            \* the API server's node, with our last applied annotations
    uids,            \* the last uid given to it
    lease,           \* the UID in the lease's owner reference; 0: no lease
    config,          \* the version of the configuration file
    faults,          \* see MaxFaults
    run,             \* what Run's goroutine does next
    providerNode,    \* the node the provider wants, as controlLoop knows it
    serverUid,       \* n.serverNode's UID; 0: it is pNode
    startConfig,     \* the configuration pNode was built from
    leaseMode, disableLease,
    chStatusUpdate,  \* a channel of capacity 1
    watcher,         \* the goroutine of NotifyVKNodeResource
    notified,        \* events fsnotify has for it
    watched,         \* does fsnotify watch the file?
    missed           \* history: did the latest change of the file come without an
                     \* event, and with none waiting, before NotifyVKNodeResource
                     \* or while an event was being handled?

apiVars == <<node, uids, lease>>
worldVars == <<config, faults, leaseMode>>
runVars == <<run, providerNode, serverUid, startConfig, disableLease>>
watchVars == <<watcher, notified, watched, missed>>
vars == <<pingVars, stuck, apiVars, worldVars, runVars, chStatusUpdate, watchVars>>

Node   == [uid: Nat, is: Content, applied: Content]
NoNode == [uid |-> 0, is |-> Nothing, applied |-> Nothing]

\* NodeFromProvider, for a version of the configuration: the Ready condition, the
\* capacity, by which cpu and memory are meant, and the limit of pods.
NodeFromProvider(version) ==
    [f \in Fields |-> CASE f = "capacity" -> version [] f = "foreign" -> 0 [] OTHER -> 1]

Created(uid, content) == [uid |-> uid, is |-> content, applied |-> Nothing]

Points == {"start", "getResult", "get", "patch", "create", "recreate", "leaseCreate",
           "leaseDelete", "leaseRecreate", "leaseUpdate", "loop", "returned", "exited"}

\* at: the call made or the answer awaited next; for: on whose behalf, Run's
\* registration, updateStatus in the loop, or the renewal of the lease; again:
\* has the error handler recreated the node; read: what Get returned.  After an
\* error that Run returns the goroutine is over; Startup has what root.go:214-215
\* makes of it.
Runs == [at: Points, for: {"register", "update", "renew"}, again: BOOLEAN, read: Node]

\* The watcher is off until root.go calls NotifyVKNodeResource, next to Run.
WatcherPoints == {"off", "idle", "loaded", "sending", "blocked"}

TypeOK ==
    /\ PingTypeOK
    /\ node \in Node /\ uids \in Nat /\ lease \in Nat
    /\ config \in Nat /\ faults \in Nat
    /\ run \in Runs
    /\ providerNode \in Content /\ serverUid \in Nat /\ startConfig \in Nat
    /\ leaseMode \in LeaseModes /\ disableLease \in BOOLEAN
    /\ chStatusUpdate \in Seq(Content) /\ Len(chStatusUpdate) <= 1
    /\ watcher \in [at: WatcherPoints, oldNode: Content]
    /\ notified \in Nat /\ watched \in BOOLEAN /\ missed \in BOOLEAN

NotWatching == [at |-> "off", oldNode |-> Nothing]
Watching    == [at |-> "idle", oldNode |-> Nothing]
Starting == [at |-> "start", for |-> "register", again |-> FALSE, read |-> NoNode]

\* When controlLoop is not reached yet, is anything pinging?
PingAtStart == IF PingStartsFirst THEN "starting" ELSE "off"

Init ==
    /\ node = NoNode /\ uids = 0 /\ lease = 0
    /\ config = 1 /\ faults = 0 /\ leaseMode \in LeaseModes
    /\ run = Starting
    /\ providerNode = NodeFromProvider(1) /\ startConfig = 1
    /\ serverUid = 0 /\ disableLease = FALSE
    /\ chStatusUpdate = <<>>
    /\ watcher = NotWatching /\ notified = 0 /\ watched = FALSE /\ missed = FALSE
    /\ checker = PingAtStart /\ inFlight = FALSE /\ answer = NoResult /\ expired = FALSE
    /\ result = NoResult /\ firstPingCompleted = FALSE /\ stuck = FALSE

Up == run.at # "exited"

Fails == faults < MaxFaults /\ faults' = faults + 1
Works == UNCHANGED faults

------------------------------------------------------------------------------
(* Others: who deletes the node, writes to its status, collects leases     *)
(* without an owner and edits the configuration; the provider that hangs.  *)

NodeDeleted ==
    /\ node # NoNode /\ uids < MaxUid
    /\ node' = NoNode
    /\ UNCHANGED <<uids, lease, pingVars, stuck, worldVars, runVars, chStatusUpdate, watchVars>>

ForeignWrites ==
    /\ node # NoNode /\ node.is["foreign"] < MaxForeign /\ config <= LastForeign
    /\ node' = [node EXCEPT !.is = [node.is EXCEPT !["foreign"] = @ + 1]]
    /\ UNCHANGED <<uids, lease, pingVars, stuck, worldVars, runVars, chStatusUpdate, watchVars>>

LeaseCollected ==
    /\ lease # 0 /\ lease # node.uid
    /\ lease' = 0
    /\ UNCHANGED <<node, uids, pingVars, stuck, worldVars, runVars, chStatusUpdate, watchVars>>

\* A file that is written in place gives a write event, or two, of which the first
\* comes while the file is truncated.  Another file that takes its name gives a
\* remove event, which is the last one: the watch was on the file that is gone.
ConfigWritten ==
    /\ config < MaxConfig
    /\ config' = config + 1
    /\ \/ watched /\ notified' \in {notified + 1, notified + 2} /\ UNCHANGED watched
       \/ watched /\ notified' = notified + 1 /\ watched' = FALSE
       \/ ~watched /\ UNCHANGED <<notified, watched>>
    /\ missed' = (~watched /\ notified = 0 /\ watcher.at # "idle")
    /\ UNCHANGED <<apiVars, pingVars, stuck, faults, leaseMode, runVars, chStatusUpdate,
                   watcher>>

ProviderHangs ==
    /\ ~stuck /\ faults < MaxFaults
    /\ stuck' = TRUE /\ faults' = faults + 1
    /\ UNCHANGED <<apiVars, pingVars, config, leaseMode, runVars, chStatusUpdate,
                   watchVars>>

\* The process ends, at any point, and another one starts and reads the
\* configuration; it does not watch the file yet.
Restart ==
    /\ Fails
    /\ run' = Starting
    /\ providerNode' = NodeFromProvider(config) /\ startConfig' = config
    /\ serverUid' = 0 /\ disableLease' = FALSE
    /\ chStatusUpdate' = <<>>
    /\ watcher' = NotWatching /\ notified' = 0 /\ watched' = FALSE /\ missed' = FALSE
    /\ checker' = PingAtStart /\ inFlight' = FALSE /\ answer' = NoResult /\ expired' = FALSE
    /\ result' = NoResult /\ firstPingCompleted' = FALSE
    /\ UNCHANGED <<apiVars, stuck, config, leaseMode>>

------------------------------------------------------------------------------
(* The ping controller's goroutines.                                       *)

PingUnchanged == UNCHANGED <<stuck, apiVars, config, leaseMode, runVars,
                             chStatusUpdate, watchVars>>

Check == Up /\ (StartCheck \/ Expire \/ CheckReturns \/ CloseFirst) /\ Works /\ PingUnchanged

Ping ==
    /\ Up /\ PingUnchanged
    /\ \/ PingReturns("nil") /\ Works
       \/ PingReturns("failed") /\ Fails

------------------------------------------------------------------------------
(* Calls into the API server.                                              *)

\* Nodes().Get and the like: nothing changes.
ApiGet(reply) ==
    /\ UNCHANGED apiVars
    /\ \/ reply = "ok" /\ Works /\ node # NoNode
       \/ reply = "notFound" /\ Works /\ node = NoNode
       \/ reply = "error" /\ Fails

\* The patch is made for the node that was read and applied to the one there
\* is: it carries no resource version.
ApiPatch(read, reply) ==
    LET patch   == PatchFor(read.applied, providerNode, read.is)
        patched == [node EXCEPT !.is = Patched(node.is, patch), !.applied = providerNode]
    IN  /\ UNCHANGED <<uids, lease>>
        /\ \/ reply = "ok" /\ Works /\ node # NoNode /\ node' = patched
           \/ reply = "notFound" /\ Works /\ node = NoNode /\ UNCHANGED node
           \/ reply = "error" /\ Fails /\ node # NoNode /\ node' \in {node, patched}

ApiCreate(content, reply) ==
    LET new == node' = Created(uids + 1, content) /\ uids' = uids + 1
    IN  /\ UNCHANGED lease
        /\ \/ reply = "ok" /\ Works /\ node = NoNode /\ new
           \/ reply = "error" /\ Works /\ node # NoNode /\ UNCHANGED <<node, uids>>
           \/ reply = "error" /\ Fails /\ node = NoNode /\ (new \/ UNCHANGED <<node, uids>>)

------------------------------------------------------------------------------
(* Run.                                                                    *)

RunStep(at) ==
    /\ run.at = at
    /\ UNCHANGED <<stuck, config, leaseMode, startConfig, watchVars>>

Goes(at) == run' = [run EXCEPT !.at = at]
Begins(at, for) == run' = [at |-> at, for |-> for, again |-> FALSE, read |-> NoNode]
Loops == Begins("loop", "update")

ApiIdle  == UNCHANGED <<apiVars, faults>>
NodeKept == UNCHANGED <<providerNode, serverUid, chStatusUpdate>>
Stays    == UNCHANGED <<pingVars, disableLease>>

\* The channel is made, and ensureNode begins.
Start ==
    /\ RunStep("start") /\ Goes("getResult")
    /\ ApiIdle /\ NodeKept /\ Stays

\* controlLoop begins: it starts the ping controller.
ControlLoop(disable) ==
    /\ Loops
    /\ disableLease' = disable
    /\ checker' = IF checker = "off" THEN "starting" ELSE checker
    /\ UNCHANGED <<inFlight, answer, expired, result, firstPingCompleted>>

Registered ==
    \/ leaseMode = "off" /\ ControlLoop(TRUE)
    \/ leaseMode # "off" /\ Goes("leaseCreate") /\ Stays

\* handlePing asks for the result, and so does the updateStatus it may call.
GetResult ==
    /\ RunStep("getResult") /\ firstPingCompleted
    /\ \/ /\ result = "nil" /\ run.for # "renew"
          /\ Goes("get")
       \/ /\ result = "nil" /\ run.for = "renew"
          /\ IF disableLease THEN Begins("getResult", "update") ELSE Goes("leaseUpdate")
       \/ /\ result # "nil"
          /\ IF run.for = "register" THEN Begins("returned", "update") ELSE Loops
    /\ ApiIdle /\ NodeKept /\ Stays

\* Mutant: the error handler is never asked.
UpdateFails_NoHandler(reply) ==
    \/ run.for = "register" /\ reply = "notFound" /\ Goes("create")
    \/ run.for = "register" /\ reply # "notFound" /\ Begins("returned", "update")
    \/ run.for # "register" /\ Loops

\* ensureNode creates a node that is not found and returns other errors, and so
\* does Run; in the loop the error handler recreates a node that
\* is not found, once, and other errors are logged.
UpdateFails(reply) ==
    \/ run.for = "register" /\ reply = "notFound" /\ Goes("create")
    \/ run.for = "register" /\ reply # "notFound" /\ Begins("returned", "update")
    \/ run.for # "register" /\ reply = "notFound" /\ ~run.again /\ Goes("recreate")
    \/ run.for # "register" /\ (reply # "notFound" \/ run.again) /\ Loops

Get ==
    /\ RunStep("get")
    /\ \E reply \in {"ok", "notFound", "error"} :
         /\ ApiGet(reply)
         /\ \/ reply = "ok" /\ run' = [run EXCEPT !.at = "patch", !.read = node]
            \/ reply # "ok" /\ UpdateFails(reply)
    /\ NodeKept /\ Stays

\* Mutant: n.serverNode is not updated.
Patch_OldServerNode ==
    /\ RunStep("patch")
    /\ \E reply \in {"ok", "notFound", "error"} :
         /\ ApiPatch(run.read, reply)
         /\ \/ reply = "ok" /\ run.for = "register" /\ serverUid' = node.uid /\ Registered
            \/ reply = "ok" /\ run.for # "register" /\ UNCHANGED serverUid /\ Loops /\ Stays
            \/ reply # "ok" /\ UNCHANGED serverUid /\ UpdateFails(reply) /\ Stays
    /\ UNCHANGED <<providerNode, chStatusUpdate>>

Patch ==
    /\ RunStep("patch")
    /\ \E reply \in {"ok", "notFound", "error"} :
         /\ ApiPatch(run.read, reply)
         /\ \/ reply = "ok" /\ serverUid' = node.uid /\ run.for = "register" /\ Registered
            \/ reply = "ok" /\ serverUid' = node.uid /\ run.for # "register" /\ Loops /\ Stays
            \/ reply # "ok" /\ UNCHANGED serverUid /\ UpdateFails(reply) /\ Stays
    /\ UNCHANGED <<providerNode, chStatusUpdate>>

\* ensureNode creates n.serverNode, which is still pNode.
Create ==
    /\ RunStep("create")
    /\ \E reply \in {"ok", "error"} :
         /\ ApiCreate(NodeFromProvider(startConfig), reply)
         /\ \/ reply = "ok" /\ serverUid' = uids + 1 /\ Registered
            \/ reply = "error" /\ Begins("returned", "update") /\ UNCHANGED serverUid /\ Stays
    /\ UNCHANGED <<providerNode, chStatusUpdate>>

\* The error handler of root.go creates pNode, and updateNodeStatus is called
\* again.
Recreate ==
    /\ RunStep("recreate")
    /\ \E reply \in {"ok", "error"} :
         /\ ApiCreate(NodeFromProvider(startConfig), reply)
         /\ \/ reply = "ok" /\ run' = [run EXCEPT !.at = "get", !.again = TRUE]
            \/ reply = "error" /\ Loops
    /\ NodeKept /\ Stays

\* What ensureLease's callers make of it.  A "not found" that was wrapped is
\* recognised or not, depending on the API machinery's version.
EnsureReturns(outcome) ==
    \/ run.for = "renew" /\ Loops /\ Stays
    \/ run.for = "register" /\ outcome = "ok" /\ ControlLoop(FALSE)
    \/ run.for = "register" /\ outcome # "ok" /\ ControlLoop(TRUE)
    \/ run.for = "register" /\ outcome = "wrapped" /\ Begins("returned", "update") /\ Stays

LeaseStep(at) == RunStep(at) /\ NodeKept /\ UNCHANGED <<node, uids>>

\* Every other error of the first Create is returned as success.
LeaseCreate ==
    /\ LeaseStep("leaseCreate")
    /\ \/ /\ leaseMode = "on" /\ lease = 0 /\ Works
          /\ lease' = serverUid /\ EnsureReturns("ok")
       \/ /\ leaseMode = "unsupported" /\ Works
          /\ UNCHANGED lease /\ EnsureReturns("notFound")
       \/ /\ leaseMode = "on" /\ lease # 0 /\ Works
          /\ UNCHANGED lease /\ Goes("leaseDelete") /\ Stays
       \/ /\ leaseMode = "on" /\ lease = 0 /\ Fails
          /\ lease' \in {lease, serverUid} /\ EnsureReturns("ok")

\* Only "not found" is taken for a failure.
LeaseDelete ==
    /\ LeaseStep("leaseDelete")
    /\ \/ lease # 0 /\ Works /\ lease' = 0 /\ Goes("leaseRecreate") /\ Stays
       \/ lease = 0 /\ Works /\ UNCHANGED lease /\ EnsureReturns("wrapped")
       \/ lease # 0 /\ Fails /\ lease' \in {0, lease} /\ Goes("leaseRecreate") /\ Stays

\* The second Create's error is not looked at.
LeaseRecreate ==
    /\ LeaseStep("leaseRecreate")
    /\ \/ lease = 0 /\ Works /\ lease' = serverUid
       \/ lease # 0 /\ Works /\ UNCHANGED lease
       \/ lease = 0 /\ Fails /\ lease' \in {0, serverUid}
    /\ EnsureReturns("ok")

\* The lease it sends is a new one without a resource version: the API server does
\* not update a lease there is to that, and creates one that is gone, unless the
\* call fails, as with "not found" for the lease's namespace.
LeaseUpdate ==
    /\ LeaseStep("leaseUpdate") /\ Stays
    /\ \/ lease # 0 /\ Works /\ UNCHANGED lease /\ Loops
       \/ lease = 0 /\ Works /\ lease' = serverUid /\ Loops
       \/ lease = 0 /\ Fails /\ UNCHANGED lease /\ Goes("leaseCreate")
       \/ lease = 0 /\ Fails /\ lease' \in {0, serverUid} /\ Loops

\* Mutant: the update is not copied into providerNode.
TakeUpdate_NotCopied ==
    /\ RunStep("loop") /\ chStatusUpdate # <<>>
    /\ chStatusUpdate' = Tail(chStatusUpdate)
    /\ Begins("getResult", "update")
    /\ ApiIdle /\ Stays /\ UNCHANGED <<providerNode, serverUid>>

\* controlLoop's select.
TakeUpdate ==
    /\ RunStep("loop") /\ chStatusUpdate # <<>>
    /\ providerNode' = Head(chStatusUpdate) /\ chStatusUpdate' = Tail(chStatusUpdate)
    /\ Begins("getResult", "update")
    /\ ApiIdle /\ Stays /\ UNCHANGED serverUid

\* The status timer, which runs only beside a lease.
StatusTick ==
    /\ RunStep("loop") /\ ~disableLease
    /\ Begins("getResult", "update")
    /\ ApiIdle /\ NodeKept /\ Stays

PingTick ==
    /\ RunStep("loop")
    /\ Begins("getResult", "renew")
    /\ ApiIdle /\ NodeKept /\ Stays

------------------------------------------------------------------------------
(* The watcher of the configuration.                                       *)

WatchStep == Up /\ UNCHANGED <<pingVars, stuck, apiVars, config, leaseMode,
                               providerNode, serverUid, startConfig, disableLease>>

\* NotifyVKNodeResource sets up the watch and starts the goroutine.
Watch ==
    /\ WatchStep /\ watcher.at = "off" /\ Works
    /\ watcher' = Watching /\ watched' = TRUE
    /\ UNCHANGED <<run, chStatusUpdate, notified, missed>>

\* On an event it loads the file, whatever version that is by now.
WatcherLoads ==
    /\ WatchStep /\ watcher.at = "idle" /\ notified > 0 /\ Works
    /\ notified' = notified - 1
    /\ watcher' = [at |-> "loaded", oldNode |-> [Nothing EXCEPT !["capacity"] = config]]
    /\ UNCHANGED <<run, chStatusUpdate, watched, missed>>

\* It takes the server's node for its own; the error of Get, which comes with an
\* empty node, is not looked at.  The new capacity has the limit of pods under
\* another key, so that the one there was is gone.
WatcherGets ==
    /\ WatchStep /\ watcher.at = "loaded"
    /\ \E reply \in {"ok", "notFound", "error"} :
         /\ ApiGet(reply)
         /\ watcher' = [at |-> "sending",
                        oldNode |-> [(IF reply = "ok" THEN node.is ELSE Nothing)
                                     EXCEPT !["capacity"] = watcher.oldNode["capacity"],
                                            !["pods"] = 0]]
    /\ UNCHANGED <<run, chStatusUpdate, notified, watched, missed>>

\* A file that is being written does not parse, and MustParse panics.
WatcherPanics ==
    /\ WatchStep /\ watcher.at = "idle" /\ notified > 0 /\ Fails
    /\ Begins("exited", "update")
    /\ UNCHANGED <<chStatusUpdate, watchVars>>

\* Mutant: the channel takes whatever is sent.
WatcherSends_NoLimit ==
    /\ WatchStep /\ watcher.at = "sending" /\ Works
    /\ watcher' = Watching /\ watched' = TRUE
    /\ chStatusUpdate' = Append(chStatusUpdate, watcher.oldNode)
    /\ UNCHANGED <<run, notified, missed>>

\* Mutant: the send does not block; what finds no channel or no room is dropped.
WatcherSends_Drops ==
    /\ WatchStep /\ watcher.at = "sending" /\ Works
    /\ watcher' = Watching /\ watched' = TRUE
    /\ chStatusUpdate' = IF run.at # "start" /\ chStatusUpdate = <<>>
                         THEN <<watcher.oldNode>> ELSE chStatusUpdate
    /\ UNCHANGED <<run, notified, missed>>

\* Before Run has made the channel it is nil, and a send on nil never ends.  After
\* the send the file is watched again.
WatcherSends ==
    /\ WatchStep /\ watcher.at = "sending" /\ Works
    /\ \/ /\ run.at = "start"
          /\ watcher' = [watcher EXCEPT !.at = "blocked"]
          /\ UNCHANGED <<chStatusUpdate, watched>>
       \/ /\ run.at # "start" /\ chStatusUpdate = <<>>
          /\ watcher' = Watching /\ chStatusUpdate' = <<watcher.oldNode>> /\ watched' = TRUE
    /\ UNCHANGED <<run, notified, missed>>

------------------------------------------------------------------------------
RunCalls ==
    \/ Start \/ GetResult \/ Get \/ Patch \/ Create \/ Recreate
    \/ LeaseCreate \/ LeaseDelete \/ LeaseRecreate \/ LeaseUpdate

Watcher == Watch \/ WatcherLoads \/ WatcherGets \/ WatcherSends

Next ==
    \/ NodeDeleted \/ ForeignWrites \/ LeaseCollected \/ ConfigWritten \/ ProviderHangs \/ Restart
    \/ Check \/ Ping
    \/ RunCalls \/ TakeUpdate \/ StatusTick \/ PingTick
    \/ Watcher \/ WatcherPanics

Spec == Init /\ [][Next]_vars

\* Goroutines that can go on do, a provider that is not stuck answers, the
\* watcher gets its turn, and whatever the loop's select finds ready again and
\* again, it takes some time: select picks at random.  The cluster collects, in
\* the end, a lease whose owner is gone.
Fairness ==
    /\ WF_vars(LeaseCollected)
    /\ WF_vars(Check) /\ WF_vars(Ping) /\ WF_vars(RunCalls) /\ WF_vars(Watcher)
    /\ SF_vars(TakeUpdate) /\ SF_vars(StatusTick) /\ SF_vars(PingTick)

FairSpec == Spec /\ Fairness
==============================================================================
