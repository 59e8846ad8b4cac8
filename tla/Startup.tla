-------------------------------- MODULE Startup --------------------------------
(***************************************************************************)
(* The life of the process: main.go, runRootCommand (app/root.go) and its  *)
(* HTTP servers (app/http.go).  The main goroutine builds the parts one    *)
(* after the other and starts a goroutine for each; what these do in       *)
(* detail is in PodController and NodeController, here they are what the   *)
(* main goroutine and each other can see of them.                          *)
(*                                                                         *)
(* An informer runs only if it was asked for before its factory is told to *)
(* start, and a factory is told by a goroutine of its own.  Of the         *)
(* informers, those that PodController.Run waits for are kept.             *)
(***************************************************************************)
EXTENDS Options

VARIABLES
    opts, optsErr,     \* the options, and the error of SetDefaultOpts
    apiAnswers,        \* does the API server answer the informers?
    at,                \* what the main goroutine does next
    exit,              \* how the process has ended: with status 0 or not
    signal,            \* the first SIGINT or SIGTERM: sent, and taken by main.go
    starters,          \* factories whose Start has not run yet
    registered, started, synced,   \* informers
    pods,              \* PodController.Run
    nodeRun,           \* NodeController.Run
    servers, shutdown  \* the HTTP servers, and those that were told to Close

given == <<opts, optsErr, apiAnswers>>
informerVars == <<starters, registered, started, synced>>
httpVars == <<servers, shutdown>>
vars == <<given, at, exit, signal, informerVars, pods, nodeRun, httpVars>>

Factories == {"podInformerFactory", "scmInformerFactory"}
Informers == {"pods", "namespaces", "events"}
Servers   == {"pods", "metrics"}

InformersOf(factory) ==
    IF factory = "podInformerFactory" THEN {"pods"} ELSE {"namespaces", "events"}

Points == {"preRun", "options", "client", "factories", "podLister", "scmListers", "provider",
           "podController", "run", "wait", "node", "notify", "podServer", "metricsServer",
           "up", "returned"}

TypeOK ==
    /\ opts \in Opts /\ optsErr \in BOOLEAN /\ apiAnswers \in BOOLEAN
    /\ at \in Points
    /\ exit \in {"no", "0", "fatal"}
    /\ signal \in {"none", "sent", "taken"}
    /\ starters \subseteq Factories
    /\ registered \subseteq Informers /\ started \subseteq registered /\ synced \subseteq started
    /\ pods \in {"off", "syncing", "sweeping", "running", "returned"}
    /\ nodeRun \in {"off", "registering", "loop", "returned"}
    /\ servers \in [Servers -> {"off", "bound", "serving", "closed"}]
    /\ shutdown \subseteq Servers

\* main sets the defaults on an empty Opts before the flags are parsed.
Init ==
    /\ \E kubeletPort \in {"unset", "bad"}, flags \in Flags :
         /\ opts = WithFlags(SetDefaultOpts(NoOpts, kubeletPort), flags)
         /\ optsErr = PortError(NoOpts, kubeletPort)
    /\ apiAnswers \in BOOLEAN
    /\ at = "preRun" /\ exit = "no"
    /\ signal = "none"
    /\ starters = {} /\ registered = {} /\ started = {} /\ synced = {}
    /\ pods = "off" /\ nodeRun = "off"
    /\ servers = [s \in Servers |-> "off"] /\ shutdown = {}

Up == exit = "no"

\* runRootCommand's context is derived from main's; a return cancels it.
CtxDone == signal = "taken" \/ at = "returned"

\* pc.Ready() is closed.
Ready == pods \in {"running", "returned"}

------------------------------------------------------------------------------
(* The main goroutine.                                                     *)

Main(from) ==
    /\ Up /\ at = from
    /\ UNCHANGED <<given, signal>>

Goes(to) == at' = to
Returns  == Goes("returned")

Apart == UNCHANGED <<informerVars, pods, nodeRun, httpVars, exit>>

\* Mutant: the error of SetDefaultOpts is not asked for.
PreRun_Unasked ==
    /\ Main("preRun") /\ Apart
    /\ Goes("options")

\* Flags or the log level may be malformed, too.
PreRun ==
    /\ Main("preRun") /\ Apart
    /\ \/ ~optsErr /\ Goes("options")
       \/ Returns

\* disableTaint, effectEnv: a flag, and what VKUBELET_TAINT_EFFECT holds.
CheckOptions ==
    /\ Main("options") /\ Apart
    /\ \E disableTaint \in BOOLEAN, effectEnv \in {"unset", "given", "bad"} :
         \/ Refused(opts, disableTaint, effectEnv) /\ Returns
         \/ ~Refused(opts, disableTaint, effectEnv) /\ Goes("client")

NewClient ==
    /\ Main("client") /\ Apart
    /\ (Goes("factories") \/ Returns)

StartFactories ==
    /\ Main("factories") /\ Goes("podLister")
    /\ starters' = Factories
    /\ UNCHANGED <<registered, started, synced, pods, nodeRun, httpVars, exit>>

\* Asking a factory for an informer's lister, or for the informer, registers it.
Asks(informer) ==
    /\ registered' = registered \cup {informer}
    /\ UNCHANGED <<starters, started, synced, pods, nodeRun, httpVars, exit>>

PodLister  == Main("podLister") /\ Asks("pods") /\ Goes("scmListers")
ScmListers == Main("scmListers") /\ Asks("namespaces") /\ Goes("provider")

NewSCIProvider ==
    /\ Main("provider") /\ Apart
    /\ (Goes("podController") \/ Returns)

NewPodController == Main("podController") /\ Asks("events") /\ Goes("run")

RunPods ==
    /\ Main("run")
    /\ Goes(IF opts["startupTimeout"] = "unset" THEN "node" ELSE "wait")
    /\ pods' = "syncing"
    /\ UNCHANGED <<informerVars, nodeRun, httpVars, exit>>

\* Mutant: the time is not limited.
WaitFor_NoTimeout ==
    /\ Main("wait") /\ Apart
    /\ \/ Ready /\ Goes("node")
       \/ CtxDone /\ Returns

\* Mutant: a time that is over is taken for a start that is over.
WaitFor_GoesOn ==
    /\ Main("wait") /\ Apart
    /\ \/ Goes("node")
       \/ CtxDone /\ Returns

\* The pod controller is ready, or the context is cancelled, or the time is over,
\* which it may be at any point.
WaitFor ==
    /\ Main("wait") /\ Apart
    /\ \/ Ready /\ Goes("node")
       \/ Returns

RunNode ==
    /\ Main("node") /\ Goes("notify")
    /\ nodeRun' = "registering"
    /\ UNCHANGED <<informerVars, pods, httpVars, exit>>

\* Without an fsnotify watcher watch.Add panics.
NotifyVKNodeResource ==
    /\ Main("notify") /\ Goes("podServer")
    /\ (UNCHANGED exit \/ exit' = "fatal")
    /\ UNCHANGED <<informerVars, pods, nodeRun, httpVars>>

Listens(server) ==
    /\ servers' = [servers EXCEPT ![server] = "bound"]
    /\ UNCHANGED <<shutdown, informerVars, pods, nodeRun, exit>>

\* cancelHTTP: the servers that were set up so far are closed.
CloseServers ==
    /\ shutdown' = {s \in Servers : servers[s] # "off"}
    /\ servers' = [s \in Servers |-> IF servers[s] = "serving" THEN "closed" ELSE servers[s]]
    /\ UNCHANGED <<informerVars, pods, nodeRun, exit>>

\* Without certificate or key there is no such server.
PodServer ==
    /\ Main("podServer")
    /\ \/ Goes("metricsServer") /\ Apart
       \/ Goes("metricsServer") /\ Listens("pods")
       \/ Returns /\ Apart

\* Mutant: what was set up before the failure stays.
MetricsServer_KeepsFirst ==
    /\ Main("metricsServer")
    /\ \/ opts["metricsAddr"] = "unset" /\ Goes("up") /\ Apart
       \/ opts["metricsAddr"] # "unset" /\ Goes("up") /\ Listens("metrics")
       \/ opts["metricsAddr"] # "unset" /\ Returns /\ Apart

MetricsServer ==
    /\ Main("metricsServer")
    /\ \/ opts["metricsAddr"] = "unset" /\ Goes("up") /\ Apart
       \/ opts["metricsAddr"] # "unset" /\ Goes("up") /\ Listens("metrics")
       \/ opts["metricsAddr"] # "unset" /\ Returns /\ CloseServers

Finish == Main("up") /\ CtxDone /\ Returns /\ CloseServers

\* An error other than a cancellation goes to the Fatal of src/pkg/log, whose
\* default logger nobody replaces: it does nothing, and main returns after any error.
Exit ==
    /\ Main("returned") /\ UNCHANGED at
    /\ exit' = "0"
    /\ UNCHANGED <<informerVars, pods, nodeRun, httpVars>>

MainSteps ==
    \/ PreRun \/ CheckOptions \/ NewClient \/ StartFactories \/ PodLister \/ ScmListers
    \/ NewSCIProvider \/ NewPodController \/ RunPods \/ WaitFor \/ RunNode
    \/ NotifyVKNodeResource \/ PodServer \/ MetricsServer \/ Finish \/ Exit

------------------------------------------------------------------------------
(* The other goroutines.                                                   *)

SignalArrives ==
    /\ Up /\ signal = "none" /\ signal' = "sent"
    /\ UNCHANGED <<given, at, exit, informerVars, pods, nodeRun, httpVars>>

\* Mutant: nobody waits for signals.
SignalTaken_Never == FALSE /\ UNCHANGED vars

SignalTaken ==
    /\ Up /\ signal = "sent" /\ signal' = "taken"
    /\ UNCHANGED <<given, at, exit, informerVars, pods, nodeRun, httpVars>>

Others == Up /\ UNCHANGED <<given, at, signal>>

\* Mutant: a factory starts what it could be asked for, too.
FactoryStart_All(factory) ==
    /\ Others /\ factory \in starters
    /\ starters' = starters \ {factory}
    /\ started' = started \cup InformersOf(factory)
    /\ UNCHANGED <<registered, synced, pods, nodeRun, httpVars, exit>>

FactoryStart(factory) ==
    /\ Others /\ factory \in starters
    /\ starters' = starters \ {factory}
    /\ started' = started \cup (InformersOf(factory) \cap registered)
    /\ UNCHANGED <<registered, synced, pods, nodeRun, httpVars, exit>>

InformerSyncs(informer) ==
    /\ Others /\ informer \in started \ synced /\ apiAnswers /\ ~CtxDone
    /\ synced' = synced \cup {informer}
    /\ UNCHANGED <<starters, registered, started, pods, nodeRun, httpVars, exit>>

\* What WaitForCacheSync is given.
Awaited == {"pods", "events", "namespaces"}

\* Mutant: the workers' start is not announced.
PodsRun_Silent ==
    /\ Others /\ UNCHANGED <<informerVars, nodeRun, httpVars>>
    /\ \/ pods = "syncing" /\ Awaited \subseteq synced /\ pods' = "sweeping" /\ UNCHANGED exit
       \/ pods = "syncing" /\ CtxDone /\ exit' = "fatal" /\ UNCHANGED pods

Negative == opts["podSyncWorkers"] = "negative"

\* A context that ends while the caches are waited for makes Run fail, and
\* klog.Fatal ends the process.  deleteDanglingPods panics when
\* it makes its semaphore for a negative number of workers, unless GetPods fails
\* before that; its other steps are finite.
PodsRun ==
    /\ Others /\ UNCHANGED <<informerVars, nodeRun, httpVars>>
    /\ \/ pods = "syncing" /\ Awaited \subseteq synced /\ pods' = "sweeping" /\ UNCHANGED exit
       \/ pods = "syncing" /\ CtxDone /\ exit' = "fatal" /\ UNCHANGED pods
       \/ pods = "sweeping" /\ pods' = "running" /\ UNCHANGED exit
       \/ pods = "sweeping" /\ Negative /\ exit' = "fatal" /\ UNCHANGED pods
       \/ pods = "running" /\ CtxDone /\ pods' = "returned" /\ UNCHANGED exit

NodeRegisters ==
    /\ Others /\ nodeRun = "registering" /\ nodeRun' = "loop"
    /\ UNCHANGED <<informerVars, pods, httpVars, exit>>

\* Fatal of the library's log package: it ends the process, or does nothing if no
\* logger was set there.
LibraryFatal == UNCHANGED exit \/ exit' = "fatal"

\* A cancelled registration is a failure like any other.
NodeReturns ==
    /\ Others /\ nodeRun' = "returned" /\ UNCHANGED <<informerVars, pods, httpVars>>
    /\ \/ nodeRun = "registering" /\ LibraryFatal
       \/ nodeRun = "loop" /\ CtxDone /\ UNCHANGED exit

Becomes(server, state) == servers' = [servers EXCEPT ![server] = state]

\* A server that was closed before its goroutine got to Serve serves nothing; one
\* whose Accept fails stops, which is only logged.
ServeHTTP(server) ==
    /\ Others
    /\ \/ servers[server] = "bound" /\ server \notin shutdown /\ Becomes(server, "serving")
       \/ servers[server] = "bound" /\ server \in shutdown /\ Becomes(server, "closed")
       \/ servers[server] = "serving" /\ Becomes(server, "closed")
    /\ UNCHANGED <<shutdown, informerVars, pods, nodeRun, exit>>

------------------------------------------------------------------------------
Next ==
    \/ MainSteps
    \/ SignalArrives \/ SignalTaken
    \/ \E f \in Factories : FactoryStart(f)
    \/ \E i \in Informers : InformerSyncs(i)
    \/ PodsRun \/ NodeRegisters \/ NodeReturns
    \/ \E s \in Servers : ServeHTTP(s)

Spec == Init /\ [][Next]_vars

\* Goroutines that can go on do.  Whether a node gets registered, and whether
\* the API server answers, is left open.
Fairness ==
    /\ WF_vars(MainSteps) /\ WF_vars(SignalTaken) /\ WF_vars(PodsRun)
    /\ \A f \in Factories : WF_vars(FactoryStart(f))
    /\ \A i \in Informers : WF_vars(InformerSyncs(i))

FairSpec == Spec /\ Fairness
================================================================================
