----------------------------- MODULE StartupProofs -----------------------------
(***************************************************************************)
(* The invariants of StartupProperties, for every start of the process.    *)
(* Two of them need to know where the main goroutine is: what it has not   *)
(* come to yet is off, what it has left is decided.                        *)
(***************************************************************************)
EXTENDS StartupProperties, TLAPS

BeforeOptions == {"preRun", "returned"}
BeforeRun  == {"preRun", "options", "client", "factories", "podLister", "scmListers",
               "provider", "podController", "run"}
BeforeNode == BeforeRun \cup {"wait", "node"}
BeforeHTTP == BeforeNode \cup {"notify", "podServer"}

\* Options without an error are complete, and only those get past preRun.
OptionsKnown ==
    /\ ~optsErr => \A o \in OptionNames \ {"metricsAddr", "startupTimeout"} : opts[o] # "unset"
    /\ at \notin BeforeOptions => ~optsErr

\* What is ready has its caches; the node comes after what it waits for.
PodsKnown ==
    /\ at \in BeforeRun => pods = "off"
    /\ pods \in {"sweeping", "running", "returned"} => Awaited \subseteq synced
    /\ at \in BeforeNode => nodeRun = "off"
    /\ opts["startupTimeout"] # "unset" /\ (at = "node" \/ nodeRun # "off") => Ready

\* After the return every server is off, closed or about to find itself closed.
ServersKnown ==
    /\ at \in BeforeHTTP => \A s \in Servers : servers[s] = "off"
    /\ at = "returned" => \A s \in Servers : servers[s] # "serving"
                                            /\ (servers[s] = "bound" => s \in shutdown)

Inv == TypeOK /\ OptionsKnown /\ PodsKnown /\ ServersKnown

\* Every step of every goroutine keeps the types.
LEMMA TypeStep ==
    ASSUME TypeOK, [Next]_vars
    PROVE  TypeOK'
<1> USE DEF TypeOK, Points, Informers, Main, Goes,
        Returns, Apart, Asks, Listens, CloseServers, Others, Becomes, given,
        informerVars, httpVars
<1>1. CASE PreRun
  BY <1>1 DEF PreRun
<1>2. CASE CheckOptions
  BY <1>2 DEF CheckOptions
<1>3. CASE NewClient
  BY <1>3 DEF NewClient
<1>4. CASE StartFactories
  BY <1>4 DEF StartFactories, Factories
<1>5. CASE PodLister
  BY <1>5 DEF PodLister
<1>6. CASE ScmListers
  BY <1>6 DEF ScmListers
<1>7. CASE NewSCIProvider
  BY <1>7 DEF NewSCIProvider
<1>8. CASE NewPodController
  BY <1>8 DEF NewPodController
<1>9. CASE RunPods
  BY <1>9 DEF RunPods
<1>10. CASE WaitFor
  BY <1>10 DEF WaitFor
<1>11. CASE RunNode
  BY <1>11 DEF RunNode
<1>12. CASE NotifyVKNodeResource
  BY <1>12 DEF NotifyVKNodeResource
<1>13. CASE PodServer
  <2>1. CASE Apart
    BY <1>13, <2>1 DEF PodServer
  <2>2. CASE Listens("pods")
    <3>1. "pods" \in Servers
      BY DEF Servers
    <3> QED BY <1>13, <2>2, <3>1 DEF PodServer
  <2>3. CASE CloseServers
    BY <1>13, <2>3 DEF PodServer
  <2> QED BY <1>13, <2>1, <2>2, <2>3 DEF PodServer
<1>14. CASE MetricsServer
  <2>1. CASE Apart
    BY <1>14, <2>1 DEF MetricsServer
  <2>2. CASE Listens("metrics")
    <3>1. "metrics" \in Servers
      BY DEF Servers
    <3> QED BY <1>14, <2>2, <3>1 DEF MetricsServer
  <2>3. CASE CloseServers
    BY <1>14, <2>3 DEF MetricsServer
  <2> QED BY <1>14, <2>1, <2>2, <2>3 DEF MetricsServer
<1>15. CASE Finish
  BY <1>15 DEF Finish
<1>16. CASE Exit
  BY <1>16 DEF Exit
<1>17. CASE SignalArrives
  BY <1>17 DEF SignalArrives
<1>18. CASE SignalTaken
  BY <1>18 DEF SignalTaken
<1>19. CASE \E f \in Factories : FactoryStart(f)
  BY <1>19 DEF FactoryStart, Factories, InformersOf
<1>20. CASE \E i \in Informers : InformerSyncs(i)
  BY <1>20 DEF InformerSyncs
<1>21. CASE PodsRun
  BY <1>21 DEF PodsRun, Negative, Awaited
<1>22. CASE NodeRegisters
  BY <1>22 DEF NodeRegisters
<1>23. CASE NodeReturns
  BY <1>23 DEF NodeReturns, LibraryFatal
<1>24. CASE \E s \in Servers : ServeHTTP(s)
  BY <1>24 DEF ServeHTTP
<1>25. CASE UNCHANGED vars
  BY <1>25 DEF vars
<1> QED
  BY <1>1, <1>2, <1>3, <1>4, <1>5, <1>6, <1>7, <1>8, <1>9, <1>10, <1>11,
     <1>12, <1>13, <1>14, <1>15, <1>16, <1>17, <1>18, <1>19, <1>20, <1>21,
     <1>22, <1>23, <1>24, <1>25 DEF Next, MainSteps

\* Only preRun lets anything past it, and only without an error (main.go:46-54).
LEMMA OptionsStep ==
    ASSUME TypeOK, OptionsKnown, [Next]_vars
    PROVE  OptionsKnown'
<1> USE DEF OptionsKnown, BeforeOptions, TypeOK, Main, Goes, Returns, Apart,
        Asks, Listens, CloseServers, Others, Becomes, given, informerVars, httpVars
<1>1. CASE PreRun
  BY <1>1 DEF PreRun
<1>2. CASE CheckOptions
  BY <1>2 DEF CheckOptions
<1>3. CASE NewClient
  BY <1>3 DEF NewClient
<1>4. CASE StartFactories
  BY <1>4 DEF StartFactories
<1>5. CASE PodLister
  BY <1>5 DEF PodLister
<1>6. CASE ScmListers
  BY <1>6 DEF ScmListers
<1>7. CASE NewSCIProvider
  BY <1>7 DEF NewSCIProvider
<1>8. CASE NewPodController
  BY <1>8 DEF NewPodController
<1>9. CASE RunPods
  BY <1>9 DEF RunPods
<1>10. CASE WaitFor
  BY <1>10 DEF WaitFor
<1>11. CASE RunNode
  BY <1>11 DEF RunNode
<1>12. CASE NotifyVKNodeResource
  BY <1>12 DEF NotifyVKNodeResource
<1>13. CASE PodServer
  BY <1>13 DEF PodServer
<1>14. CASE MetricsServer
  BY <1>14 DEF MetricsServer
<1>15. CASE Finish
  BY <1>15 DEF Finish
<1>16. CASE Exit
  BY <1>16 DEF Exit
<1>17. CASE SignalArrives
  BY <1>17 DEF SignalArrives
<1>18. CASE SignalTaken
  BY <1>18 DEF SignalTaken
<1>19. CASE \E f \in Factories : FactoryStart(f)
  BY <1>19 DEF FactoryStart, Factories, InformersOf
<1>20. CASE \E i \in Informers : InformerSyncs(i)
  BY <1>20 DEF InformerSyncs
<1>21. CASE PodsRun
  BY <1>21 DEF PodsRun
<1>22. CASE NodeRegisters
  BY <1>22 DEF NodeRegisters
<1>23. CASE NodeReturns
  BY <1>23 DEF NodeReturns, LibraryFatal
<1>24. CASE \E s \in Servers : ServeHTTP(s)
  BY <1>24 DEF ServeHTTP
<1>25. CASE UNCHANGED vars
  BY <1>25 DEF vars
<1> QED
  BY <1>1, <1>2, <1>3, <1>4, <1>5, <1>6, <1>7, <1>8, <1>9, <1>10, <1>11,
     <1>12, <1>13, <1>14, <1>15, <1>16, <1>17, <1>18, <1>19, <1>20, <1>21,
     <1>22, <1>23, <1>24, <1>25 DEF Next, MainSteps

\* The main goroutine waits for the pod controller, which waits for its caches
\* (root.go:197-217, pod.go:294-336).
LEMMA PodsStep ==
    ASSUME TypeOK, PodsKnown, [Next]_vars
    PROVE  PodsKnown'
<1> USE DEF PodsKnown, BeforeNode, BeforeRun, Ready, TypeOK, Awaited,
        Informers, Main, Goes, Returns, Apart, Asks, Listens, CloseServers,
        Others, Becomes, given, informerVars, httpVars
<1>1. CASE PreRun
  BY <1>1 DEF PreRun
<1>2. CASE CheckOptions
  BY <1>2 DEF CheckOptions
<1>3. CASE NewClient
  BY <1>3 DEF NewClient
<1>4. CASE StartFactories
  BY <1>4 DEF StartFactories
<1>5. CASE PodLister
  BY <1>5 DEF PodLister
<1>6. CASE ScmListers
  BY <1>6 DEF ScmListers
<1>7. CASE NewSCIProvider
  BY <1>7 DEF NewSCIProvider
<1>8. CASE NewPodController
  BY <1>8 DEF NewPodController
<1>9. CASE RunPods
  BY <1>9 DEF RunPods
<1>10. CASE WaitFor
  BY <1>10 DEF WaitFor
<1>11. CASE RunNode
  BY <1>11 DEF RunNode
<1>12. CASE NotifyVKNodeResource
  BY <1>12 DEF NotifyVKNodeResource
<1>13. CASE PodServer
  BY <1>13 DEF PodServer
<1>14. CASE MetricsServer
  BY <1>14 DEF MetricsServer
<1>15. CASE Finish
  BY <1>15 DEF Finish
<1>16. CASE Exit
  BY <1>16 DEF Exit
<1>17. CASE SignalArrives
  BY <1>17 DEF SignalArrives
<1>18. CASE SignalTaken
  BY <1>18 DEF SignalTaken
<1>19. CASE \E f \in Factories : FactoryStart(f)
  BY <1>19 DEF FactoryStart, Factories, InformersOf
<1>20. CASE \E i \in Informers : InformerSyncs(i)
  BY <1>20 DEF InformerSyncs
<1>21. CASE PodsRun
  BY <1>21 DEF PodsRun, Negative
<1>22. CASE NodeRegisters
  BY <1>22 DEF NodeRegisters
<1>23. CASE NodeReturns
  BY <1>23 DEF NodeReturns, LibraryFatal
<1>24. CASE \E s \in Servers : ServeHTTP(s)
  BY <1>24 DEF ServeHTTP
<1>25. CASE UNCHANGED vars
  BY <1>25 DEF vars
<1> QED
  BY <1>1, <1>2, <1>3, <1>4, <1>5, <1>6, <1>7, <1>8, <1>9, <1>10, <1>11,
     <1>12, <1>13, <1>14, <1>15, <1>16, <1>17, <1>18, <1>19, <1>20, <1>21,
     <1>22, <1>23, <1>24, <1>25 DEF Next, MainSteps

\* Whatever returns closes what listens (http.go:61-71, root.go:225-229).
LEMMA ServersStep ==
    ASSUME TypeOK, ServersKnown, [Next]_vars
    PROVE  ServersKnown'
<1> USE DEF ServersKnown, BeforeHTTP, BeforeNode, BeforeRun, TypeOK, Main,
        Goes, Returns, Apart, Asks, Listens, CloseServers, Others, Becomes,
        given, informerVars, httpVars
<1>1. CASE PreRun
  BY <1>1 DEF PreRun
<1>2. CASE CheckOptions
  BY <1>2 DEF CheckOptions
<1>3. CASE NewClient
  BY <1>3 DEF NewClient
<1>4. CASE StartFactories
  BY <1>4 DEF StartFactories
<1>5. CASE PodLister
  BY <1>5 DEF PodLister
<1>6. CASE ScmListers
  BY <1>6 DEF ScmListers
<1>7. CASE NewSCIProvider
  BY <1>7 DEF NewSCIProvider
<1>8. CASE NewPodController
  BY <1>8 DEF NewPodController
<1>9. CASE RunPods
  BY <1>9 DEF RunPods
<1>10. CASE WaitFor
  BY <1>10 DEF WaitFor
<1>11. CASE RunNode
  BY <1>11 DEF RunNode
<1>12. CASE NotifyVKNodeResource
  BY <1>12 DEF NotifyVKNodeResource
<1>13. CASE PodServer
  <2>1. CASE Apart
    BY <1>13, <2>1 DEF PodServer
  <2>2. CASE Listens("pods")
    <3>1. "pods" \in Servers
      BY DEF Servers
    <3> QED BY <1>13, <2>2, <3>1 DEF PodServer
  <2>3. CASE CloseServers
    BY <1>13, <2>3 DEF PodServer
  <2> QED BY <1>13, <2>1, <2>2, <2>3 DEF PodServer
<1>14. CASE MetricsServer
  <2>1. CASE Apart
    BY <1>14, <2>1 DEF MetricsServer
  <2>2. CASE Listens("metrics")
    <3>1. "metrics" \in Servers
      BY DEF Servers
    <3> QED BY <1>14, <2>2, <3>1 DEF MetricsServer
  <2>3. CASE CloseServers
    BY <1>14, <2>3 DEF MetricsServer
  <2> QED BY <1>14, <2>1, <2>2, <2>3 DEF MetricsServer
<1>15. CASE Finish
  BY <1>15 DEF Finish
<1>16. CASE Exit
  BY <1>16 DEF Exit
<1>17. CASE SignalArrives
  BY <1>17 DEF SignalArrives
<1>18. CASE SignalTaken
  BY <1>18 DEF SignalTaken
<1>19. CASE \E f \in Factories : FactoryStart(f)
  BY <1>19 DEF FactoryStart, Factories, InformersOf
<1>20. CASE \E i \in Informers : InformerSyncs(i)
  BY <1>20 DEF InformerSyncs
<1>21. CASE PodsRun
  BY <1>21 DEF PodsRun
<1>22. CASE NodeRegisters
  BY <1>22 DEF NodeRegisters
<1>23. CASE NodeReturns
  BY <1>23 DEF NodeReturns, LibraryFatal
<1>24. CASE \E s \in Servers : ServeHTTP(s)
  BY <1>24 DEF ServeHTTP
<1>25. CASE UNCHANGED vars
  BY <1>25 DEF vars
<1> QED
  BY <1>1, <1>2, <1>3, <1>4, <1>5, <1>6, <1>7, <1>8, <1>9, <1>10, <1>11,
     <1>12, <1>13, <1>14, <1>15, <1>16, <1>17, <1>18, <1>19, <1>20, <1>21,
     <1>22, <1>23, <1>24, <1>25 DEF Next, MainSteps

\* The process starts with everything off.
LEMMA InvInit == Init => Inv
<1> SUFFICES ASSUME Init PROVE Inv
  OBVIOUS
<1>1. PICK kubeletPort \in {"unset", "bad"}, flags \in Flags :
         /\ opts = WithFlags(SetDefaultOpts(NoOpts, kubeletPort), flags)
         /\ optsErr = PortError(NoOpts, kubeletPort)
  BY DEF Init
<1>2. SetDefaultOpts(NoOpts, kubeletPort) \in Opts
  BY DEF SetDefaultOpts, NoOpts, Filled, PortError, Opts, OptionNames, OptionValue, Early, Late
<1>3. opts \in Opts
  BY <1>1, <1>2 DEF WithFlags, Flags, Opts, OptionNames, OptionValue, Early, Late
<1>4. TypeOK
  BY <1>1, <1>3 DEF Init, TypeOK, PortError, Points, Servers
<1>5. ASSUME ~optsErr, NEW o \in OptionNames \ {"metricsAddr", "startupTimeout"}
      PROVE  opts[o] # "unset"
  BY <1>1, <1>5 DEF WithFlags, Flags, SetDefaultOpts, PortError, NoOpts, Filled, OptionNames, Early, Late
<1>6. OptionsKnown /\ PodsKnown /\ ServersKnown
  BY <1>5 DEF Init, OptionsKnown, BeforeOptions, PodsKnown, ServersKnown, BeforeRun
<1> QED BY <1>4, <1>6 DEF Inv

\* The invariant is inductive.
LEMMA Invariance == Spec => []Inv
<1>1. Inv /\ [Next]_vars => Inv'
  BY TypeStep, OptionsStep, PodsStep, ServersStep DEF Inv
<1> QED BY InvInit, <1>1, PTL DEF Spec

\* The variables keep their types, whoever steps; in particular no informer runs
\* that was not asked for (root.go:113-127).
THEOREM StartupTypeCorrect == Spec => []TypeOK
  BY Invariance, PTL DEF Inv

\* Nothing is built from half-set options (main.go:47-49, opts.go:123-128).
THEOREM DefaultsComplete == Spec => []RunsWithDefaults
<1>1. Inv => RunsWithDefaults
  BY DEF Inv, OptionsKnown, BeforeOptions, RunsWithDefaults
<1> QED BY Invariance, <1>1, PTL

\* With a start-up timeout there is no node before the pod controller is ready
\* (root.go:202-217).
THEOREM NodeComesLast == Spec => []NodeWaitsForPods
<1>1. Inv => NodeWaitsForPods
  BY DEF Inv, PodsKnown, NodeWaitsForPods, Ready, Awaited
<1> QED BY Invariance, <1>1, PTL

\* After the return no server serves (http.go:61-71).
THEOREM ServersClosed == Spec => []NothingServesAfterReturn
<1>1. Inv => NothingServesAfterReturn
  BY DEF Inv, ServersKnown, NothingServesAfterReturn
<1> QED BY Invariance, <1>1, PTL
==============================================================================
