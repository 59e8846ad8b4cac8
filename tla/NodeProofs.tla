------------------------------- MODULE NodeProofs -------------------------------
(***************************************************************************)
(* What is proved of the node controller for any number of deletions,      *)
(* failures, restarts, configurations and writes of others.                *)
(***************************************************************************)
EXTENDS NodeProperties, TLAPS

------------------------------------------------------------------------------
(* The three-way patch, for any fields.                                    *)

\* A field that the provider neither wants nor wrote the last time is kept, with
\* whatever value it has when the patch is applied (node.go:456-458).
LEMMA PatchKeeps ==
    ASSUME NEW oldNode, NEW newNode, NEW apiServerNode, NEW content,
           NEW f \in Fields, oldNode[f] = 0, newNode[f] = 0
    PROVE  Patched(content, PatchFor(oldNode, newNode, apiServerNode))[f] = content[f]
  BY DEF Patched, PatchFor, Keep

\* A patched node has contents of its own kind.
LEMMA PatchedType ==
    ASSUME NEW oldNode, NEW newNode \in Content, NEW apiServerNode, NEW content \in Content
    PROVE  Patched(content, PatchFor(oldNode, newNode, apiServerNode)) \in Content
  BY DEF Patched, PatchFor, Content, Keep, Put, Delete

\* What the provider says of itself is a content, and nothing of it is foreign.
LEMMA FromProvider ==
    ASSUME NEW version \in Nat
    PROVE  /\ NodeFromProvider(version) \in Content
           /\ NodeFromProvider(version)["foreign"] = 0
           /\ Nothing \in Content /\ Nothing["foreign"] = 0
  BY NodeAssumption DEF NodeFromProvider, Content, Nothing

------------------------------------------------------------------------------
(* The first ping.                                                         *)

\* Before the channel is closed, and from then on, there is a result.
ResultFirst == firstPingCompleted \/ checker = "closing" => result # NoResult

\* The first check leaves a result before the step that closes the channel, and no
\* check takes a result away.
LEMMA ResultStep == ResultFirst /\ [Next]_vars => ResultFirst'
<1> SUFFICES ASSUME ResultFirst, [Next]_vars PROVE ResultFirst'
  OBVIOUS
<1>1. CASE UNCHANGED <<checker, result, firstPingCompleted>>
  BY <1>1 DEF ResultFirst
<1>2. CASE UNCHANGED vars
  BY <1>1, <1>2 DEF vars, pingVars
<1>3. CASE \/ NodeDeleted \/ ForeignWrites \/ LeaseCollected \/ ConfigWritten \/ ProviderHangs
           \/ Watcher \/ WatcherPanics
  BY <1>1, <1>3 DEF NodeDeleted, ForeignWrites, LeaseCollected, ConfigWritten, ProviderHangs,
     Watcher, Watch, WatcherLoads, WatcherGets, WatcherPanics, WatcherSends, WatchStep, pingVars
<1>4. CASE Restart
  BY <1>4 DEF Restart, ResultFirst, PingAtStart
<1>5. CASE Check
  <2>1. CASE StartCheck \/ Expire
    BY <2>1 DEF StartCheck, Expire, ResultFirst
  <2>2. CASE CheckReturns
    BY <2>2 DEF CheckReturns, Publish, ResultFirst, NoResult
  <2>3. CASE CloseFirst
    BY <2>3 DEF CloseFirst, ResultFirst
  <2> QED BY <1>5, <2>1, <2>2, <2>3 DEF Check
<1>6. CASE Ping
  BY <1>1, <1>6 DEF Ping, PingReturns
<1>7. ASSUME NEW b, ControlLoop(b) \/ Stays PROVE ResultFirst'
  BY <1>1, <1>7 DEF ControlLoop, Stays, pingVars, ResultFirst
<1>8. CASE RunCalls \/ TakeUpdate \/ StatusTick \/ PingTick
  <2>1. Stays \/ \E b : ControlLoop(b)
    BY <1>8 DEF RunCalls, Start, GetResult, Get, Patch, Create, Recreate, LeaseCreate,
       LeaseDelete, LeaseRecreate, LeaseUpdate, TakeUpdate, StatusTick, PingTick, Registered,
       EnsureReturns
  <2> QED BY <1>7, <2>1
<1> QED BY <1>2, <1>3, <1>4, <1>5, <1>6, <1>8 DEF Next

\* Whoever gets past firstPingCompleted finds a result and not a nil pointer,
\* whatever the order of checks, late answers, timeouts and restarts: the result
\* is there when the channel is closed, a step later (node_ping.go:94-102).
THEOREM ResultAlwaysPublished == Spec => []ResultPublished
<1>1. Init => ResultFirst
  BY DEF Init, PingAtStart, ResultFirst
<1>2. ResultFirst => ResultPublished
  BY DEF ResultFirst, ResultPublished
<1> QED BY <1>1, <1>2, ResultStep, PTL DEF Spec

------------------------------------------------------------------------------
(* Types.                                                                  *)

\* Where Run's goroutine goes: what it has read it keeps or forgets.
Moved == run' \in Runs /\ run'.read \in {run.read, NoNode}

\* What Run's goroutine touches of the ping controller and of the lease.
Held == PingTypeOK' /\ disableLease' \in BOOLEAN

\* There is no node, and that is a value of its type.
LEMMA NoNodeType == NoNode \in Node /\ NoNode.applied["foreign"] = 0
  BY FromProvider DEF NoNode, Node, Nothing, Content, NodeAssumption

\* The moves that handlers are made of are typed.
LEMMA MovesType ==
    ASSUME TypeOK, UNCHANGED stuck
    PROVE  /\ \A at \in Points : Goes(at) => Moved
           /\ \A at \in Points, for \in {"register", "update", "renew"} : Begins(at, for) => Moved
           /\ Stays => Held
           /\ \A reply : UpdateFails(reply) => Moved
           /\ Registered => Moved /\ Held
           /\ \A outcome : EnsureReturns(outcome) => Moved /\ Held
<1>1. run \in Runs /\ NoNode \in Node
  BY NoNodeType DEF TypeOK
<1>2. ASSUME NEW at \in Points, Goes(at) PROVE Moved
  BY <1>1, <1>2 DEF Goes, Runs, Moved
<1>3. ASSUME NEW at \in Points, NEW for \in {"register", "update", "renew"}, Begins(at, for)
      PROVE  Moved
  BY <1>1, <1>3 DEF Begins, Runs, Moved
<1>4. Loops => Moved
  BY <1>3 DEF Loops, Points
<1>5. Stays => Held
  BY DEF TypeOK, PingTypeOK, Stays, Held, pingVars
<1>6. ASSUME NEW b \in BOOLEAN, ControlLoop(b) PROVE Moved /\ Held
  BY <1>4, <1>6 DEF ControlLoop, TypeOK, PingTypeOK, Held
<1>7. ASSUME NEW reply, UpdateFails(reply) PROVE Moved
  BY <1>2, <1>3, <1>4, <1>7 DEF UpdateFails, Points
<1>8. Registered => Moved /\ Held
  BY <1>2, <1>5, <1>6 DEF Registered, Points
<1>9. ASSUME NEW outcome, EnsureReturns(outcome) PROVE Moved /\ Held
  BY <1>3, <1>4, <1>5, <1>6, <1>9 DEF EnsureReturns, Points
<1> QED BY <1>2, <1>3, <1>5, <1>7, <1>8, <1>9

\* A call leaves a node, a count of uids and a count of faults; the annotations
\* of what was applied last stay, or become the provider's, or are gone.
LEMMA CallsType ==
    ASSUME TypeOK, NEW reply
    PROVE  /\ ApiGet(reply) => /\ node' = node /\ uids' = uids /\ lease' = lease /\ faults' \in Nat
           /\ \A read : ApiPatch(read, reply) =>
                /\ node' \in Node /\ uids' = uids /\ lease' = lease /\ faults' \in Nat
                /\ node'.applied \in {node.applied, providerNode}
           /\ \A content \in Content : ApiCreate(content, reply) =>
                /\ node' \in Node /\ uids' \in Nat /\ lease' = lease /\ faults' \in Nat
                /\ node'.applied \in {node.applied, Nothing}
<1>1. node \in Node /\ providerNode \in Content /\ faults \in Nat /\ uids \in Nat
  BY DEF TypeOK
<1>2. Fails \/ Works => faults' \in Nat
  BY <1>1 DEF Fails, Works
<1>3. ApiGet(reply) => /\ node' = node /\ uids' = uids /\ lease' = lease /\ faults' \in Nat
  BY <1>2 DEF ApiGet, apiVars
<1>4. ASSUME NEW read, ApiPatch(read, reply)
      PROVE  /\ node' \in Node /\ uids' = uids /\ lease' = lease /\ faults' \in Nat
             /\ node'.applied \in {node.applied, providerNode}
  <2> DEFINE is == Patched(node.is, PatchFor(read.applied, providerNode, read.is))
             patched == [node EXCEPT !.is = is, !.applied = providerNode]
  <2>1. node' \in {node, patched} /\ uids' = uids /\ lease' = lease /\ faults' \in Nat
    BY <1>2, <1>4 DEF ApiPatch
  <2>2. is \in Content
    BY <1>1, PatchedType DEF Node
  <2> HIDE DEF is
  <2>3. patched \in Node /\ patched.applied = providerNode
    BY <1>1, <2>2 DEF Node
  <2> QED BY <1>1, <2>1, <2>3
<1>5. ASSUME NEW content \in Content, ApiCreate(content, reply)
      PROVE  /\ node' \in Node /\ uids' \in Nat /\ lease' = lease /\ faults' \in Nat
             /\ node'.applied \in {node.applied, Nothing}
  <2>1. Nothing \in Content
    BY DEF Nothing, Content
  <2>2. Created(uids + 1, content) \in Node /\ Created(uids + 1, content).applied = Nothing
    BY <1>1, <2>1 DEF Created, Node
  <2> QED BY <1>1, <1>2, <1>5, <2>2 DEF ApiCreate
<1> QED BY <1>3, <1>4, <1>5

\* Every call of Run's goroutine, with what it leaves of the annotations of what
\* was applied last and of what Get returned.
LEMMA RunCallsType ==
    ASSUME TypeOK, RunCalls
    PROVE  /\ TypeOK'
           /\ node'.applied \in {node.applied, providerNode, Nothing}
           /\ run'.read \in {run.read, NoNode, node}
           /\ UNCHANGED <<config, providerNode, chStatusUpdate, watchVars>>
<1>0. /\ run \in Runs /\ node \in Node /\ faults \in Nat /\ lease \in Nat /\ uids \in Nat
      /\ serverUid \in Nat /\ startConfig \in Nat
      /\ NodeFromProvider(startConfig) \in Content
  BY FromProvider DEF TypeOK
<1>1. SUFFICES /\ Held /\ run' \in Runs /\ run'.read \in {run.read, NoNode, node}
               /\ node' \in Node /\ node'.applied \in {node.applied, providerNode, Nothing}
               /\ uids' \in Nat /\ lease' \in Nat /\ faults' \in Nat /\ serverUid' \in Nat
               /\ UNCHANGED <<stuck, config, leaseMode, startConfig, watchVars, providerNode,
                              chStatusUpdate>>
  BY DEF Held, TypeOK, watchVars
<1>2. Works \/ Fails => faults' \in Nat
  BY <1>0 DEF Works, Fails
<1>3. CASE Start \/ GetResult
  <2>1. UNCHANGED <<stuck, config, leaseMode, startConfig, watchVars, apiVars, faults,
                    providerNode, serverUid, chStatusUpdate>>
    BY <1>3 DEF Start, GetResult, RunStep, ApiIdle, NodeKept
  <2>2. Moved /\ Held
    BY <1>3, <2>1, MovesType DEF Start, GetResult, Loops, Points
  <2> QED BY <1>0, <2>1, <2>2 DEF Moved, apiVars
<1>4. CASE Get
  <2>1. PICK reply \in {"ok", "notFound", "error"} :
          /\ ApiGet(reply)
          /\ \/ reply = "ok" /\ run' = [run EXCEPT !.at = "patch", !.read = node]
             \/ reply # "ok" /\ UpdateFails(reply)
    BY <1>4 DEF Get
  <2>2. UNCHANGED <<stuck, config, leaseMode, startConfig, watchVars, providerNode, serverUid,
                    chStatusUpdate>> /\ Held
    BY <1>4, MovesType DEF Get, RunStep, NodeKept
  <2>3. run' \in Runs /\ run'.read \in {run.read, NoNode, node}
    <3>1. CASE run' = [run EXCEPT !.at = "patch", !.read = node]
      BY <1>0, <3>1 DEF Runs, Points
    <3>2. CASE UpdateFails(reply)
      BY <2>2, <3>2, MovesType DEF Moved
    <3> QED BY <2>1, <3>1, <3>2
  <2> QED BY <1>0, <2>1, <2>2, <2>3, CallsType
<1>5. CASE Patch
  <2>1. PICK reply \in {"ok", "notFound", "error"} :
          /\ ApiPatch(run.read, reply)
          /\ \/ reply = "ok" /\ serverUid' = node.uid /\ run.for = "register" /\ Registered
             \/ reply = "ok" /\ serverUid' = node.uid /\ run.for # "register" /\ Loops /\ Stays
             \/ reply # "ok" /\ UNCHANGED serverUid /\ UpdateFails(reply) /\ Stays
    BY <1>5 DEF Patch
  <2>2. UNCHANGED <<stuck, config, leaseMode, startConfig, watchVars, providerNode,
                    chStatusUpdate>>
    BY <1>5 DEF Patch, RunStep
  <2>3. Moved /\ Held
    BY <2>1, <2>2, MovesType DEF Loops, Points
  <2>4. serverUid' \in Nat
    BY <1>0, <2>1 DEF Node
  <2> QED BY <1>0, <2>1, <2>2, <2>3, <2>4, CallsType DEF Moved
<1>6. CASE Create
  <2>1. PICK reply \in {"ok", "error"} :
          /\ ApiCreate(NodeFromProvider(startConfig), reply)
          /\ \/ reply = "ok" /\ serverUid' = uids + 1 /\ Registered
             \/ reply = "error" /\ Begins("returned", "update") /\ UNCHANGED serverUid /\ Stays
    BY <1>6 DEF Create
  <2>2. UNCHANGED <<stuck, config, leaseMode, startConfig, watchVars, providerNode,
                    chStatusUpdate>>
    BY <1>6 DEF Create, RunStep
  <2>3. Moved /\ Held
    BY <2>1, <2>2, MovesType DEF Points
  <2> QED BY <1>0, <2>1, <2>2, <2>3, CallsType DEF Moved
<1>7. CASE Recreate
  <2>1. PICK reply \in {"ok", "error"} :
          /\ ApiCreate(NodeFromProvider(startConfig), reply)
          /\ \/ reply = "ok" /\ run' = [run EXCEPT !.at = "get", !.again = TRUE]
             \/ reply = "error" /\ Loops
    BY <1>7 DEF Recreate
  <2>2. UNCHANGED <<stuck, config, leaseMode, startConfig, watchVars, providerNode, serverUid,
                    chStatusUpdate>> /\ Held
    BY <1>7, MovesType DEF Recreate, RunStep, NodeKept
  <2>3. Moved
    <3>1. CASE run' = [run EXCEPT !.at = "get", !.again = TRUE]
      BY <1>0, <3>1 DEF Runs, Points, Moved
    <3>2. CASE Loops
      BY <2>2, <3>2, MovesType DEF Loops, Points
    <3> QED BY <2>1, <3>1, <3>2
  <2> QED BY <1>0, <2>1, <2>2, <2>3, CallsType DEF Moved
<1>8. CASE LeaseCreate \/ LeaseDelete \/ LeaseRecreate \/ LeaseUpdate
  <2>1. /\ UNCHANGED <<stuck, config, leaseMode, startConfig, watchVars, node, uids,
                       providerNode, serverUid, chStatusUpdate>>
        /\ lease' \in {lease, serverUid, 0} /\ (Works \/ Fails)
    BY <1>8 DEF LeaseCreate, LeaseDelete, LeaseRecreate, LeaseUpdate, LeaseStep, RunStep, NodeKept
  <2>2. Moved /\ Held
    BY <1>8, <2>1, MovesType DEF LeaseCreate, LeaseDelete, LeaseRecreate, LeaseUpdate, Loops, Points
  <2> QED BY <1>0, <1>2, <2>1, <2>2 DEF Moved
<1> QED BY <1>3, <1>4, <1>5, <1>6, <1>7, <1>8 DEF RunCalls

\* The three cases of the loop's select: only an update from the watcher gives
\* the goroutine a node it did not have.
LEMMA LoopType ==
    ASSUME TypeOK, TakeUpdate \/ StatusTick \/ PingTick
    PROVE  /\ TypeOK'
           /\ UNCHANGED <<config, node, watchVars>>
           /\ run'.read \in {run.read, NoNode}
           /\ chStatusUpdate = <<>> => UNCHANGED <<providerNode, chStatusUpdate>>
<1>1. UNCHANGED <<stuck, config, leaseMode, startConfig, watchVars, apiVars, faults, serverUid>>
  BY DEF TakeUpdate, StatusTick, PingTick, RunStep, ApiIdle, NodeKept
<1>2. Moved /\ Held
  BY <1>1, MovesType DEF TakeUpdate, StatusTick, PingTick, Points
<1>3. /\ providerNode' \in Content
      /\ chStatusUpdate' \in Seq(Content) /\ Len(chStatusUpdate') <= 1
      /\ chStatusUpdate = <<>> => UNCHANGED <<providerNode, chStatusUpdate>>
  <2>1. CASE TakeUpdate
    BY <2>1 DEF TakeUpdate, TypeOK
  <2>2. CASE StatusTick \/ PingTick
    BY <2>2 DEF StatusTick, PingTick, NodeKept, TypeOK
  <2> QED BY <2>1, <2>2
<1> QED BY <1>1, <1>2, <1>3 DEF TypeOK, Moved, Held, apiVars, watchVars

\* Others, the ping controller and the watcher; the channel never holds more
\* than one node, because the watcher waits for room.
LEMMA OthersType ==
    ASSUME TypeOK,
           \/ NodeDeleted \/ ForeignWrites \/ LeaseCollected \/ ConfigWritten \/ ProviderHangs
           \/ Check \/ Ping \/ Watcher \/ WatcherPanics
    PROVE  TypeOK'
<1>0. /\ node \in Node /\ faults \in Nat /\ notified \in Nat /\ config \in Nat
      /\ NoNode \in Node /\ run \in Runs /\ Nothing \in Content
  BY NoNodeType, FromProvider DEF TypeOK
<1>1. Works \/ Fails => faults' \in Nat
  BY <1>0 DEF Works, Fails
<1>2. CASE NodeDeleted \/ LeaseCollected
  BY <1>0, <1>2 DEF NodeDeleted, LeaseCollected, TypeOK, PingTypeOK, pingVars, worldVars, runVars,
     watchVars
<1>3. CASE ForeignWrites
  <2> DEFINE is == [node.is EXCEPT !["foreign"] = @ + 1]
  <2>1. is \in Content
    BY <1>0, NodeAssumption DEF Node, Content
  <2> HIDE DEF is
  <2>2. [node EXCEPT !.is = is] \in Node
    BY <1>0, <2>1 DEF Node
  <2>3. node' = [node EXCEPT !.is = is]
    BY <1>3 DEF ForeignWrites, is
  <2> QED BY <1>3, <2>2, <2>3 DEF ForeignWrites, TypeOK, PingTypeOK, pingVars, worldVars, runVars,
       watchVars
<1>4. CASE ConfigWritten
  <2>1. config' \in Nat /\ notified' \in Nat
    BY <1>0, <1>4 DEF ConfigWritten
  <2>2. watched' \in BOOLEAN /\ missed' \in BOOLEAN
    BY <1>4, Zenon DEF ConfigWritten, TypeOK
  <2> QED BY <1>4, <2>1, <2>2 DEF ConfigWritten, TypeOK, PingTypeOK, apiVars, pingVars, runVars
<1>5. CASE ProviderHangs
  <2>1. faults' \in Nat /\ stuck' \in BOOLEAN
    BY <1>0, <1>5 DEF ProviderHangs
  <2> QED BY <1>5, <2>1 DEF ProviderHangs, TypeOK, PingTypeOK, apiVars, pingVars, runVars, watchVars
<1>6. CASE Check \/ Ping
  <2>1. PingTypeOK'
    BY <1>6 DEF Check, Ping, StartCheck, Expire, CheckReturns, Publish, CloseFirst, PingReturns,
       NoResult, PingUnchanged, TypeOK, PingTypeOK
  <2>2. faults' \in Nat
    BY <1>1, <1>6 DEF Check, Ping
  <2> QED BY <1>6, <2>1, <2>2 DEF Check, Ping, PingUnchanged, TypeOK, apiVars, runVars, watchVars
<1>7. CASE Watch \/ WatcherLoads \/ WatcherGets
  <2>0. ASSUME NEW content \in Content, NEW n \in Nat
        PROVE  /\ [content EXCEPT !["capacity"] = n] \in Content
               /\ [content EXCEPT !["capacity"] = n, !["pods"] = 0] \in Content
    BY DEF Content
  <2>1. CASE Watch
    BY <1>0, <2>1 DEF Watch, WatchStep, Works, Watching, WatcherPoints, TypeOK, PingTypeOK,
       pingVars, apiVars
  <2>2. CASE WatcherLoads
    <3>1. watcher' = [at |-> "loaded", oldNode |-> watcher'.oldNode] /\ watcher'.oldNode \in Content
      BY <1>0, <2>0, <2>2 DEF WatcherLoads
    <3> QED BY <1>0, <2>2, <3>1 DEF WatcherLoads, WatchStep, Works, WatcherPoints, TypeOK,
         PingTypeOK, pingVars, apiVars
  <2>3. CASE WatcherGets
    <3> DEFINE capacity == watcher.oldNode["capacity"]
    <3>0. capacity \in Nat
      BY NodeAssumption DEF TypeOK, Content
    <3> HIDE DEF capacity
    <3>1. PICK reply \in {"ok", "notFound", "error"} :
            /\ ApiGet(reply)
            /\ watcher' = [at |-> "sending",
                           oldNode |-> [(IF reply = "ok" THEN node.is ELSE Nothing)
                                        EXCEPT !["capacity"] = capacity, !["pods"] = 0]]
      BY <2>3 DEF WatcherGets, capacity
    <3>2. faults' \in Nat
      BY <3>1, CallsType
    <3>3. watcher' = [at |-> "sending", oldNode |-> watcher'.oldNode] /\ watcher'.oldNode \in Content
      BY <1>0, <2>0, <3>0, <3>1 DEF Node
    <3> QED BY <1>0, <2>3, <3>2, <3>3 DEF WatcherGets, WatchStep, WatcherPoints, TypeOK, PingTypeOK,
         pingVars, apiVars
  <2> QED BY <1>7, <2>1, <2>2, <2>3
<1>8. CASE WatcherPanics
  <2>1. run' \in Runs
    BY <1>0, <1>8 DEF WatcherPanics, Begins, Runs, Points
  <2> QED BY <1>1, <1>8, <2>1 DEF WatcherPanics, WatchStep, TypeOK, PingTypeOK, pingVars, apiVars,
       watchVars
<1>9. CASE WatcherSends
  <2>1. watcher' \in [at: WatcherPoints, oldNode: Content]
    BY <1>0, <1>9 DEF WatcherSends, Watching, WatcherPoints, TypeOK
  <2>3. watched' \in BOOLEAN
    BY <1>9, Zenon DEF WatcherSends, TypeOK
  <2>2. chStatusUpdate' \in Seq(Content) /\ Len(chStatusUpdate') <= 1
    <3>1. \A content \in Content : <<content>> \in Seq(Content) /\ Len(<<content>>) = 1
      OBVIOUS
    <3>2. /\ <<watcher.oldNode>> \in Seq(Content) /\ Len(<<watcher.oldNode>>) <= 1
          /\ chStatusUpdate \in Seq(Content) /\ Len(chStatusUpdate) <= 1
      BY <3>1 DEF TypeOK
    <3>3. chStatusUpdate' = chStatusUpdate \/ chStatusUpdate' = <<watcher.oldNode>>
      BY <1>9 DEF WatcherSends
    <3> QED BY <3>2, <3>3
  <2> QED BY <1>1, <1>9, <2>1, <2>2, <2>3 DEF WatcherSends, WatchStep, TypeOK, PingTypeOK, pingVars, apiVars
<1> QED BY <1>2, <1>3, <1>4, <1>5, <1>6, <1>7, <1>8, <1>9 DEF Watcher

\* A process starts with typed state, the first as any other.
LEMMA StartsTyped == (Init => TypeOK) /\ (TypeOK /\ Restart => TypeOK')
<1>1. Starting \in Runs /\ NoNode \in Node /\ Nothing \in Content
  BY NoNodeType, FromProvider DEF Starting, Runs, Points
<1>2. NotWatching \in [at: WatcherPoints, oldNode: Content]
  BY <1>1 DEF NotWatching, WatcherPoints
<1>3. PingAtStart \in {"off", "starting"}
  BY DEF PingAtStart
<1>4. <<>> \in Seq(Content) /\ Len(<<>>) = 0
  OBVIOUS
<1>5. ASSUME Init PROVE TypeOK
  <2>1. PingTypeOK
    BY <1>3, <1>5 DEF Init, PingTypeOK
  <2>2. chStatusUpdate \in Seq(Content) /\ Len(chStatusUpdate) <= 1
    BY <1>4, <1>5 DEF Init
  <2> QED BY <1>1, <1>2, <1>5, <2>1, <2>2, FromProvider DEF Init, TypeOK
<1>6. ASSUME TypeOK, Restart PROVE TypeOK'
  <2>1. faults' \in Nat
    BY <1>6 DEF Restart, Fails, TypeOK
  <2>2. PingTypeOK'
    BY <1>3, <1>6 DEF Restart, TypeOK, PingTypeOK
  <2>3. chStatusUpdate' \in Seq(Content) /\ Len(chStatusUpdate') <= 1
    BY <1>4, <1>6 DEF Restart
  <2> QED BY <1>1, <1>2, <1>6, <2>1, <2>2, <2>3, FromProvider DEF Restart, TypeOK, apiVars
<1> QED BY <1>5, <1>6

\* Every step keeps the types.
LEMMA TypeStep == TypeOK /\ [Next]_vars => TypeOK'
<1> SUFFICES ASSUME TypeOK, [Next]_vars PROVE TypeOK'
  OBVIOUS
<1>1. CASE UNCHANGED vars
  BY <1>1 DEF vars, pingVars, apiVars, worldVars, runVars, watchVars, TypeOK, PingTypeOK
<1>2. CASE Next
  BY <1>2, RunCallsType, LoopType, OthersType, StartsTyped DEF Next
<1> QED BY <1>1, <1>2

\* Every variable of the node controller keeps its type, whatever the bounds: the
\* calls stand where the code makes them, and the channel holds at most one node.
THEOREM NodeTypeCorrect == Spec => []TypeOK
  BY StartsTyped, TypeStep, PTL DEF Spec

------------------------------------------------------------------------------
(* Others' writes.                                                         *)

\* As long as the configuration was never changed nobody who knows the node
\* takes a foreign condition for the provider's: not controlLoop, not the
\* annotations of what was applied last, on the server or in the copy that Get
\* returned; and the watcher has nothing to read or to send.
NothingForeign ==
    /\ providerNode["foreign"] = 0
    /\ node.applied["foreign"] = 0 /\ run.read.applied["foreign"] = 0
    /\ notified = 0 /\ watcher.at \in {"off", "idle"} /\ chStatusUpdate = <<>>

ForeignInv == TypeOK /\ config > 0 /\ (config = 1 => NothingForeign)

\* A process starts without anything foreign to it.
LEMMA ForeignInit == Init => ForeignInv
  BY StartsTyped, FromProvider, NoNodeType
  DEF Init, ForeignInv, NothingForeign, Starting, NotWatching

\* What was applied last comes from the provider, and what the provider is said to
\* want comes from NodeFromProvider until the watcher gets an event.
LEMMA ForeignStep == ForeignInv /\ [Next]_vars => ForeignInv'
<1> SUFFICES ASSUME ForeignInv, [Next]_vars PROVE ForeignInv'
  OBVIOUS
<1>0. TypeOK /\ TypeOK' /\ config \in Nat \ {0}
  BY TypeStep DEF ForeignInv, TypeOK
<1>1. SUFFICES config' > 0 /\ (config' = 1 => NothingForeign')
  BY <1>0 DEF ForeignInv
<1>2. CASE ConfigWritten
  BY <1>0, <1>2 DEF ConfigWritten
<1>3. SUFFICES ASSUME ~ConfigWritten PROVE config' = config /\ (config = 1 => NothingForeign')
  BY <1>0, <1>2
<1>4. config = 1 => NothingForeign
  BY DEF ForeignInv
<1>5. ASSUME UNCHANGED <<config, providerNode, node, run, notified, watcher, chStatusUpdate>>
      PROVE  config' = config /\ (config = 1 => NothingForeign')
  BY <1>4, <1>5 DEF NothingForeign
<1>6. CASE UNCHANGED vars
  BY <1>5, <1>6 DEF vars, apiVars, worldVars, runVars, watchVars
<1>7. CASE LeaseCollected \/ ProviderHangs \/ Check \/ Ping
  BY <1>5, <1>7 DEF LeaseCollected, ProviderHangs, Check, Ping, PingUnchanged, apiVars, worldVars,
     runVars, watchVars
<1>8. CASE NodeDeleted
  BY <1>4, <1>8, NoNodeType DEF NodeDeleted, NothingForeign, worldVars, runVars, watchVars
<1>9. CASE ForeignWrites
  <2>1. node'.applied = node.applied
    BY <1>0, <1>9 DEF ForeignWrites, TypeOK, Node
  <2> QED BY <1>4, <1>9, <2>1 DEF ForeignWrites, NothingForeign, worldVars, runVars, watchVars
<1>10. CASE Restart
  <2>1. run'.read.applied["foreign"] = 0
    BY <1>10, NoNodeType DEF Restart, Starting
  <2> QED BY <1>0, <1>4, <1>10, <2>1, FromProvider DEF Restart, NothingForeign, NotWatching, apiVars
<1>11. CASE RunCalls
  <2>1. /\ node'.applied \in {node.applied, providerNode, Nothing}
        /\ run'.read \in {run.read, NoNode, node}
        /\ UNCHANGED <<config, providerNode, chStatusUpdate, notified, watcher>>
    BY <1>0, <1>11, RunCallsType DEF watchVars
  <2> QED BY <1>4, <2>1, FromProvider, NoNodeType DEF NothingForeign
<1>12. CASE TakeUpdate \/ StatusTick \/ PingTick
  <2>1. /\ UNCHANGED <<config, node, notified, watcher>> /\ run'.read \in {run.read, NoNode}
        /\ chStatusUpdate = <<>> => UNCHANGED <<providerNode, chStatusUpdate>>
    BY <1>0, <1>12, LoopType DEF watchVars
  <2> QED BY <1>4, <2>1, NoNodeType DEF NothingForeign
<1>13. CASE Watch
  BY <1>4, <1>13 DEF Watch, WatchStep, Watching, NothingForeign, apiVars
<1>14. CASE WatcherLoads \/ WatcherGets \/ WatcherSends \/ WatcherPanics
  <2>1. config' = config /\ notified \in Nat
    BY <1>0, <1>14 DEF WatcherLoads, WatcherGets, WatcherSends, WatcherPanics, WatchStep, TypeOK
  <2>2. config = 1 => FALSE
    BY <1>4, <1>14, <2>1 DEF WatcherLoads, WatcherGets, WatcherSends, WatcherPanics, NothingForeign
  <2> QED BY <2>1, <2>2
<1> QED BY <1>3, <1>6, <1>7, <1>8, <1>9, <1>10, <1>11, <1>12, <1>13, <1>14 DEF Next, Watcher

\* The step that sends a patch is the call, and nothing else the process does
\* while it is at that call touches the node.
LEMMA SparesStep == ForeignInv /\ [Next]_vars => (config = 1 => PatchSparesForeign)
<1>0. UNCHANGED vars => PatchSparesForeign
  BY DEF vars, runVars, PatchSparesForeign
<1> SUFFICES ASSUME ForeignInv, Next, config = 1 PROVE PatchSparesForeign
  BY <1>0
<1> SUFFICES ASSUME run.at = "patch", run'.at # "patch", node' # NoNode
             PROVE  node'.is["foreign"] = node.is["foreign"]
  BY DEF PatchSparesForeign
<1>1. NothingForeign /\ node \in Node
  BY DEF ForeignInv, TypeOK
<1>2. CASE Patch
  <2>1. PICK reply : ApiPatch(run.read, reply)
    BY <1>2 DEF Patch
  <2> DEFINE is == Patched(node.is, PatchFor(run.read.applied, providerNode, run.read.is))
  <2>2. is["foreign"] = node.is["foreign"]
    BY <1>1, PatchKeeps, NodeAssumption DEF NothingForeign
  <2>3. node' \in {node, [node EXCEPT !.is = is, !.applied = providerNode]}
    BY <2>1 DEF ApiPatch
  <2> HIDE DEF is
  <2> QED BY <1>1, <2>2, <2>3 DEF Node
<1>3. CASE UNCHANGED node
  BY <1>3
<1>4. ~(NodeDeleted \/ ForeignWrites)
  BY DEF NodeDeleted, ForeignWrites, runVars
<1>5. \/ Patch \/ UNCHANGED node
  BY <1>4 DEF Next, LeaseCollected, ConfigWritten, ProviderHangs, Restart, Check, Ping, PingUnchanged,
     RunCalls, Start, GetResult, Get, Create, Recreate, LeaseCreate, LeaseDelete, LeaseRecreate,
     LeaseUpdate, LeaseStep, RunStep, ApiIdle, ApiGet, TakeUpdate, StatusTick, PingTick, Watcher,
     Watch, WatcherLoads, WatcherGets, WatcherSends, WatcherPanics, WatchStep, apiVars
<1> QED BY <1>2, <1>3, <1>5

\* While the configuration is what it was at first, no patch touches what others
\* wrote into the node's status, although it may be computed from a node that was
\* read long before, by this process or for a node that was deleted since.
THEOREM ForeignUntouched == Spec => ForeignKeptWithoutReload
<1>1. ForeignInv /\ [Next]_vars => [config = 1 => PatchSparesForeign]_vars
  BY SparesStep
<1> QED BY <1>1, ForeignInit, ForeignStep, PTL DEF Spec, ForeignKeptWithoutReload
==============================================================================
