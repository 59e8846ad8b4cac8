--------------------------- MODULE StartupProperties ---------------------------
(* What the start and the end of the process should get right.             *)
EXTENDS Startup

\* A KUBELET_PORT that is no number stops SetDefaultOpts half way; nothing is
\* built from the options it has not come to (opts.go:123-128 and main.go:47-49).
\* Only a flag can leave metrics-addr empty, and start-up has no time limit
\* unless one is asked for.
RunsWithDefaults ==
    at \notin {"preRun", "returned"} =>
        \A o \in OptionNames \ {"metricsAddr", "startupTimeout"} : opts[o] # "unset"

\* "It prevents node advertisement from happening until we're in an operational
\* state" (root.go:205): with a start-up timeout there is no node before the pod
\* controller has its caches, has removed what dangled and is ready.
NodeWaitsForPods ==
    opts["startupTimeout"] # "unset" /\ nodeRun # "off" =>
        Ready /\ {"pods", "events", "namespaces"} \subseteq synced

\* Once runRootCommand has returned no server is accepting requests, although
\* setting up the second may fail when the first may be serving, or may not have
\* got there yet (http.go:61-71, 101, 126 and root.go:225-229).
NothingServesAfterReturn == at = "returned" => \A s \in Servers : servers[s] # "serving"

------------------------------------------------------------------------------
(* Liveness, under FairSpec.                                               *)

\* "It causes the VK to shutdown if we haven't gotten into an operational state
\* in a time period" (root.go:204).
StartupEnds == at = "wait" ~> Ready \/ ~Up

\* A signal ends the process, wherever the start has got to (main.go:26-32).
ShutdownEnds == signal # "none" ~> ~Up

\* A factory has started without an informer that the pod controller waits for.
Missed == starters = {} /\ ~({"pods", "events", "namespaces"} \subseteq started)

\* "as well as syncing informer caches and starting workers" (pod.go:271-272):
\* the pod controller gets ready if the API server answers and no informer was
\* asked for too late.
ReadyUnlessMissed == pods = "syncing" /\ apiAnswers ~> Ready \/ CtxDone \/ Missed \/ ~Up

\* The same whatever the order in which the goroutines run (root.go:113-114).
PodsComeUp == pods = "syncing" /\ apiAnswers ~> Ready \/ CtxDone \/ ~Up
==============================================================================
