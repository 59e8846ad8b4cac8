-------------------------- MODULE NodeLifecycleProofs --------------------------
(***************************************************************************)
(* The node controller implements NodeLifecycle and never loses the latest *)
(* configuration; and, if nothing pings before controlLoop does, it never  *)
(* gets so far.                                                            *)
(***************************************************************************)
EXTENDS NodeProofs, SequenceTheorems

------------------------------------------------------------------------------
(* The inductive invariant.                                                *)

\* There is one node at a time, the last one created; the process and the lease
\* know earlier ones, the lease none that is later than what the process knows.
Identity ==
    /\ node = NoNode \/ (node.uid = uids /\ uids > 0)
    /\ serverUid <= uids /\ lease <= uids
    /\ serverUid # 0 => lease <= serverUid

\* Run's goroutine has not yet registered a node.
Unregistered ==
    \/ run.at \in {"returned", "exited"}
    \/ run.for = "register" /\ run.at \in {"start", "getResult", "get", "patch", "create"}

\* Whoever writes a lease knows the node it is for.
OwnerKnown == Unregistered \/ serverUid # 0

\* The watcher has loaded a version that it still has to send.
Carries == watcher.at \in {"loaded", "sending"}

\* Versions only get newer on their way from the file to the node: the watcher's is
\* no older than the channel's, that than controlLoop's, that than the server's.
CapacityOrder ==
    /\ 1 <= startConfig /\ startConfig <= providerNode["capacity"]
    /\ providerNode["capacity"] <= config
    /\ node # NoNode =>
         1 <= node.is["capacity"] /\ node.is["capacity"] <= providerNode["capacity"]
    /\ \A i \in 1..Len(chStatusUpdate) :
         /\ providerNode["capacity"] <= chStatusUpdate[i]["capacity"]
         /\ chStatusUpdate[i]["capacity"] <= config
         /\ Carries => chStatusUpdate[i]["capacity"] <= watcher.oldNode["capacity"]
    /\ Carries =>
         /\ providerNode["capacity"] <= watcher.oldNode["capacity"]
         /\ watcher.oldNode["capacity"] <= config

\* Until the configuration changes, the provider's node and the server's are ready
\* and have their limit of pods.
PromiseKept ==
    config = 1 =>
      \A f \in {"ready", "pods"} :
        providerNode[f] # 0 /\ (node # NoNode => node.is[f] # 0)

Inv == ForeignInv /\ Identity /\ OwnerKnown /\ CapacityOrder /\ PromiseKept

------------------------------------------------------------------------------
(* What calls do to the node.                                              *)

\* A field the provider wants has, after a patch, the provider's value or the one it
\* had: a patch is made for the node that was read, and may say nothing of a field
\* that has changed since (node.go:477-490).
LEMMA PatchBrings ==
    ASSUME NEW oldNode, NEW newNode, NEW apiServerNode, NEW content,
           NEW f \in Fields, newNode[f] # 0
    PROVE  Patched(content, PatchFor(oldNode, newNode, apiServerNode))[f]
             \in {newNode[f], content[f]}
  BY DEF Patched, PatchFor, Keep, Put, Delete

\* The provider's node has the version it was built from, is ready and has its limit
\* of pods.
LEMMA ProviderShows ==
    ASSUME NEW version \in Nat
    PROVE  /\ {"capacity", "ready", "pods"} \subseteq Fields
           /\ NodeFromProvider(version)["capacity"] = version
           /\ \A f \in {"ready", "pods"} : NodeFromProvider(version)[f] = 1
  BY NodeAssumption DEF NodeFromProvider

\* No node shows nothing.
LEMMA NothingShown ==
    /\ NoNode.uid = 0 /\ NoNode.is["capacity"] = 0
    /\ NoNode.is["ready"] = 0 /\ NoNode.is["pods"] = 0
  BY NodeAssumption DEF NoNode, Nothing

\* The steps of the node, as a patch or a creation makes them.
Patches ==
    /\ node # NoNode /\ uids' = uids
    /\ node'.uid = node.uid
    /\ node'.is["capacity"] \in Nat
    /\ node.is["capacity"] <= node'.is["capacity"]
    /\ node'.is["capacity"] <= providerNode["capacity"]
    /\ config = 1 => node'.is["ready"] # 0 /\ node'.is["pods"] # 0

Creates ==
    /\ node = NoNode /\ uids' = uids + 1
    /\ node' = Created(uids + 1, NodeFromProvider(startConfig))

\* The numbers an invariant state is made of.
LEMMA Numbers ==
    ASSUME TypeOK
    PROVE  /\ node \in Node /\ uids \in Nat /\ lease \in Nat /\ serverUid \in Nat
           /\ startConfig \in Nat /\ config \in Nat /\ run \in Runs
           /\ node.is["capacity"] \in Nat /\ node.is["ready"] \in Nat /\ node.uid \in Nat
           /\ providerNode["capacity"] \in Nat /\ providerNode["ready"] \in Nat
           /\ watcher.oldNode["capacity"] \in Nat
           /\ \A i \in 1..Len(chStatusUpdate) : chStatusUpdate[i]["capacity"] \in Nat
<1>1. {"capacity", "ready"} \subseteq Fields
  BY NodeAssumption
<1>2. \A content \in Content : content["capacity"] \in Nat /\ content["ready"] \in Nat
  BY <1>1 DEF Content
<1>3. node.is \in Content /\ providerNode \in Content /\ watcher.oldNode \in Content
  BY DEF TypeOK, Node
<1>4. \A i \in 1..Len(chStatusUpdate) : chStatusUpdate[i] \in Content
  BY DEF TypeOK
<1> QED BY <1>2, <1>3, <1>4 DEF TypeOK, Node

\* A patch, whatever node it was computed from, takes the capacity from the server's
\* towards the provider's and leaves a ready node ready.
LEMMA ApiPatchMoves ==
    ASSUME Inv, NEW read, NEW reply, ApiPatch(read, reply)
    PROVE  /\ lease' = lease
           /\ UNCHANGED <<node, uids>> \/ Patches
           /\ reply = "ok" => node # NoNode
<1> DEFINE is == Patched(node.is, PatchFor(read.applied, providerNode, read.is))
           patched == [node EXCEPT !.is = is, !.applied = providerNode]
<1>0. TypeOK
  BY DEF Inv, ForeignInv
<1>1. lease' = lease /\ uids' = uids /\ (reply = "ok" => node # NoNode)
  BY DEF ApiPatch
<1>2. CASE UNCHANGED node
  BY <1>1, <1>2
<1>3. CASE node # NoNode /\ node' = patched
  <2>1. is["capacity"] \in {providerNode["capacity"], node.is["capacity"]}
    <3>1. providerNode["capacity"] # 0
      BY <1>0, Numbers DEF Inv, CapacityOrder, Carries
    <3> QED BY <3>1, PatchBrings, ProviderShows
  <2>2. ASSUME config = 1, NEW f \in {"ready", "pods"} PROVE is[f] # 0
    <3>1. providerNode[f] # 0 /\ node.is[f] # 0
      BY <1>3, <2>2 DEF Inv, PromiseKept
    <3> QED BY <3>1, PatchBrings, ProviderShows
  <2> HIDE DEF is
  <2>3. node'.is = is /\ node'.uid = node.uid
    BY <1>0, <1>3, Numbers DEF Node
  <2> QED BY <1>0, <1>1, <1>3, <2>1, <2>2, <2>3, Numbers DEF Patches, Inv, CapacityOrder, Carries
<1>4. UNCHANGED node \/ (node # NoNode /\ node' = patched)
  BY DEF ApiPatch
<1> QED BY <1>2, <1>3, <1>4

\* A creation succeeds, with or without telling so, only where there is no node.
LEMMA ApiCreateMoves ==
    ASSUME NEW reply, ApiCreate(NodeFromProvider(startConfig), reply)
    PROVE  /\ lease' = lease
           /\ UNCHANGED <<node, uids>> \/ Creates
           /\ reply = "ok" => Creates
  BY DEF ApiCreate, Creates

------------------------------------------------------------------------------
(* What Run's goroutine does to the node, to the lease and to what it      *)
(* knows of the node.                                                      *)

NodeMoves ==
    /\ UNCHANGED lease
    /\ UNCHANGED <<node, uids>> \/ Patches \/ Creates

LeaseMoves ==
    /\ UNCHANGED <<node, uids, serverUid>>
    /\ \/ lease' \in {lease, 0}
       \/ serverUid # 0 /\ lease' = serverUid

KnowsNode == serverUid' = serverUid \/ (serverUid' = uids' /\ uids' # 0)

\* Run's goroutine changes the node or the lease, never both, and what it learns of
\* the node is the UID of the one there is.
LEMMA RunCallsMove ==
    ASSUME Inv, RunCalls
    PROVE  /\ NodeMoves \/ LeaseMoves
           /\ KnowsNode
           /\ UNCHANGED <<config, startConfig, providerNode, chStatusUpdate, watchVars>>
<1>0. TypeOK /\ UNCHANGED <<config, providerNode, chStatusUpdate, watchVars>>
  BY RunCallsType DEF Inv, ForeignInv
<1>1. UNCHANGED startConfig
  BY DEF RunCalls, Start, GetResult, Get, Patch, Create, Recreate, LeaseCreate, LeaseDelete,
     LeaseRecreate, LeaseUpdate, LeaseStep, RunStep
<1>2. SUFFICES (NodeMoves \/ LeaseMoves) /\ KnowsNode
  BY <1>0, <1>1
<1>3. CASE Start \/ GetResult
  BY <1>3 DEF Start, GetResult, ApiIdle, NodeKept, apiVars, NodeMoves, KnowsNode
<1>4. CASE Get
  BY <1>4 DEF Get, ApiGet, NodeKept, apiVars, NodeMoves, KnowsNode
<1>5. CASE Patch
  <2>1. PICK reply \in {"ok", "notFound", "error"} :
          /\ ApiPatch(run.read, reply)
          /\ reply = "ok" => serverUid' = node.uid
          /\ reply # "ok" => UNCHANGED serverUid
    BY <1>5 DEF Patch
  <2>2. NodeMoves /\ (reply = "ok" => node # NoNode) /\ uids' = uids
    BY <2>1, ApiPatchMoves DEF NodeMoves, Patches
  <2>3. node # NoNode => node.uid = uids /\ uids # 0
    BY <1>0, Numbers DEF Inv, Identity
  <2> QED BY <2>1, <2>2, <2>3 DEF KnowsNode
<1>6. CASE Create
  <2>1. PICK reply \in {"ok", "error"} :
          /\ ApiCreate(NodeFromProvider(startConfig), reply)
          /\ reply = "ok" => serverUid' = uids + 1
          /\ reply # "ok" => UNCHANGED serverUid
    BY <1>6 DEF Create
  <2>2. NodeMoves /\ (reply = "ok" => uids' = uids + 1)
    BY <2>1, ApiCreateMoves DEF NodeMoves, Creates
  <2> QED BY <1>0, <2>1, <2>2, Numbers DEF KnowsNode
<1>7. CASE Recreate
  <2>1. PICK reply \in {"ok", "error"} : ApiCreate(NodeFromProvider(startConfig), reply)
    BY <1>7 DEF Recreate
  <2> QED BY <1>7, <2>1, ApiCreateMoves DEF Recreate, NodeKept, NodeMoves, KnowsNode
<1>8. CASE LeaseCreate \/ LeaseDelete \/ LeaseRecreate \/ LeaseUpdate
  <2>1. serverUid # 0
    BY <1>8 DEF LeaseCreate, LeaseDelete, LeaseRecreate, LeaseUpdate, LeaseStep, RunStep,
       Inv, OwnerKnown, Unregistered
  <2>2. UNCHANGED <<node, uids, serverUid>> /\ lease' \in {lease, serverUid, 0}
    BY <1>8 DEF LeaseCreate, LeaseDelete, LeaseRecreate, LeaseUpdate, LeaseStep, NodeKept
  <2> QED BY <2>1, <2>2 DEF LeaseMoves, KnowsNode
<1> QED BY <1>3, <1>4, <1>5, <1>6, <1>7, <1>8 DEF RunCalls

\* Registration comes first: as long as Run's goroutine knows no node, it is at the
\* calls of ensureNode, or it has given up.
LEMMA RunCallsOwner == ASSUME Inv, RunCalls PROVE OwnerKnown'
<1> SUFFICES ASSUME serverUid' = 0 PROVE Unregistered'
  BY DEF OwnerKnown
<1>0. run \in Runs /\ uids \in Nat /\ NoNode.uid = 0
  BY Numbers, NothingShown DEF Inv, ForeignInv
<1>1. serverUid = 0
  BY RunCallsMove DEF KnowsNode
<1>2. Unregistered
  BY <1>1 DEF Inv, OwnerKnown
<1>3. ASSUME NEW reply, run.for = "register", UpdateFails(reply) PROVE Unregistered'
  BY <1>0, <1>3 DEF UpdateFails, Goes, Begins, Runs, Unregistered
<1>4. CASE Start
  BY <1>0, <1>2, <1>4 DEF Start, RunStep, Goes, Runs, Unregistered
<1>5. CASE GetResult
  <2>1. run.for = "register"
    BY <1>2, <1>5 DEF GetResult, RunStep, Unregistered
  <2> QED BY <1>0, <1>5, <2>1 DEF GetResult, Goes, Begins, Runs, Unregistered
<1>6. CASE Get
  <2>1. run.for = "register"
    BY <1>2, <1>6 DEF Get, RunStep, Unregistered
  <2>2. run' = [run EXCEPT !.at = "patch", !.read = node] => Unregistered'
    BY <1>0, <2>1 DEF Runs, Unregistered
  <2> QED BY <1>3, <1>6, <2>1, <2>2 DEF Get
<1>7. CASE Patch
  <2>1. run.for = "register"
    BY <1>2, <1>7 DEF Patch, RunStep, Unregistered
  <2>2. PICK reply \in {"ok", "notFound", "error"} :
          /\ ApiPatch(run.read, reply)
          /\ reply = "ok" => serverUid' = node.uid
          /\ reply # "ok" => UpdateFails(reply)
    BY <1>7 DEF Patch
  <2>3. reply # "ok"
    BY <1>0, <2>2, ApiPatchMoves DEF Inv, Identity
  <2> QED BY <1>3, <2>1, <2>2, <2>3
<1>8. CASE Create
  BY <1>0, <1>8 DEF Create, Begins, Unregistered
<1>9. CASE Recreate \/ LeaseCreate \/ LeaseDelete \/ LeaseRecreate \/ LeaseUpdate
  BY <1>2, <1>9 DEF Recreate, LeaseCreate, LeaseDelete, LeaseRecreate, LeaseUpdate, LeaseStep,
     RunStep, Unregistered
<1> QED BY <1>4, <1>5, <1>6, <1>7, <1>8, <1>9 DEF RunCalls

\* The node after it was created: it is as pNode was built.
LEMMA CreatedNode ==
    ASSUME TypeOK, Creates
    PROVE  /\ node' # NoNode /\ node'.uid = uids + 1 /\ uids' = uids + 1
           /\ node'.is["capacity"] = startConfig
           /\ node'.is["ready"] = 1 /\ node'.is["pods"] = 1
<1>1. node'.uid = uids + 1 /\ node'.is = NodeFromProvider(startConfig) /\ uids \in Nat
  BY Numbers DEF Creates, Created
<1>2. node' # NoNode
  BY <1>1, NothingShown
<1> QED BY <1>1, <1>2, ProviderShows, Numbers DEF Creates

\* The invariant over Run's calls.
LEMMA RunCallsKeep ==
    ASSUME Inv, RunCalls
    PROVE  Identity' /\ OwnerKnown' /\ CapacityOrder' /\ PromiseKept'
<1>0. /\ TypeOK /\ KnowsNode /\ (NodeMoves \/ LeaseMoves)
      /\ UNCHANGED <<config, startConfig, providerNode, chStatusUpdate, watcher>>
  BY RunCallsMove DEF Inv, ForeignInv, watchVars
<1>1. CASE UNCHANGED <<node, uids>>
  <2>1. CapacityOrder' /\ PromiseKept'
    BY <1>0, <1>1 DEF Inv, CapacityOrder, Carries, PromiseKept
  <2>2. lease' \in {lease, 0, serverUid}
    BY <1>0 DEF NodeMoves, LeaseMoves
  <2>3. Identity'
    BY <1>0, <1>1, <2>2, Numbers DEF Inv, Identity, KnowsNode
  <2> QED BY <2>1, <2>3, RunCallsOwner
<1>2. CASE Patches /\ UNCHANGED lease
  <2>1. CapacityOrder' /\ PromiseKept'
    BY <1>0, <1>2, Numbers DEF Inv, CapacityOrder, Carries, PromiseKept, Patches
  <2>2. Identity'
    BY <1>0, <1>2, Numbers DEF Inv, Identity, Patches, KnowsNode
  <2> QED BY <2>1, <2>2, RunCallsOwner
<1>3. CASE Creates /\ UNCHANGED lease
  <2>1. CapacityOrder' /\ PromiseKept'
    BY <1>0, <1>3, CreatedNode, Numbers DEF Inv, CapacityOrder, Carries, PromiseKept
  <2>2. Identity'
    BY <1>0, <1>3, CreatedNode, Numbers DEF Inv, Identity, KnowsNode
  <2> QED BY <2>1, <2>2, RunCallsOwner
<1> QED BY <1>0, <1>1, <1>2, <1>3 DEF NodeMoves, LeaseMoves

\* The invariant over the cases of the loop's select: what the channel held becomes
\* the provider's node, and nothing older can come after it.
LEMMA LoopKeeps ==
    ASSUME Inv, TakeUpdate \/ StatusTick \/ PingTick
    PROVE  Identity' /\ OwnerKnown' /\ CapacityOrder' /\ PromiseKept'
<1>0. /\ TypeOK /\ UNCHANGED <<config, node, uids, lease, serverUid, startConfig, watcher>>
      /\ run.at = "loop"
  BY DEF TakeUpdate, StatusTick, PingTick, RunStep, ApiIdle, NodeKept, apiVars, watchVars,
     Inv, ForeignInv
<1>1. Identity'
  BY <1>0 DEF Inv, Identity
<1>2. OwnerKnown'
  BY <1>0 DEF Inv, OwnerKnown, Unregistered
<1>3. CASE UNCHANGED <<providerNode, chStatusUpdate>>
  BY <1>0, <1>1, <1>2, <1>3 DEF Inv, CapacityOrder, Carries, PromiseKept
<1>4. CASE TakeUpdate
  <2>1. /\ chStatusUpdate # <<>> /\ Len(chStatusUpdate) = 1
        /\ providerNode' = chStatusUpdate[1] /\ Len(chStatusUpdate') = 0
    <3>1. chStatusUpdate \in Seq(Content) /\ Len(chStatusUpdate) <= 1 /\ chStatusUpdate # <<>>
      BY <1>0, <1>4 DEF TakeUpdate, TypeOK
    <3>2. Len(chStatusUpdate) = 1
      <4>1. \A content \in Seq(Content) : content # <<>> => Len(content) \in Nat \ {0}
        BY EmptySeq
      <4>2. Len(chStatusUpdate) \in Nat /\ Len(chStatusUpdate) # 0
        BY <3>1, <4>1
      <4>3. Len(chStatusUpdate) <= 1
        BY <3>1
      <4>4. \A n \in Nat : n # 0 /\ n <= 1 => n = 1
        OBVIOUS
      <4> QED BY <4>2, <4>3, <4>4
    <3>3. Head(chStatusUpdate) = chStatusUpdate[1] /\ Len(Tail(chStatusUpdate)) = 0
      BY <3>1, <3>2
    <3> QED BY <1>4, <3>1, <3>2, <3>3 DEF TakeUpdate
  <2>2. /\ providerNode["capacity"] <= chStatusUpdate[1]["capacity"]
        /\ chStatusUpdate[1]["capacity"] <= config
        /\ Carries => chStatusUpdate[1]["capacity"] <= watcher.oldNode["capacity"]
        /\ chStatusUpdate[1]["capacity"] \in Nat
    BY <1>0, <2>1, Numbers DEF Inv, CapacityOrder, Carries
  <2>3. CapacityOrder'
    BY <1>0, <2>1, <2>2, Numbers DEF Inv, CapacityOrder, Carries
  <2>4. config # 1
    BY <2>1 DEF Inv, ForeignInv, NothingForeign
  <2> QED BY <1>0, <1>1, <1>2, <2>3, <2>4 DEF PromiseKept
<1> QED BY <1>3, <1>4 DEF StatusTick, PingTick, NodeKept

\* The invariant over what others do, and the ping controller.
LEMMA OthersKeep ==
    ASSUME Inv,
           \/ NodeDeleted \/ ForeignWrites \/ LeaseCollected \/ ConfigWritten \/ ProviderHangs
           \/ Check \/ Ping
    PROVE  Identity' /\ OwnerKnown' /\ CapacityOrder' /\ PromiseKept'
<1>0. /\ TypeOK /\ UNCHANGED <<uids, run, serverUid, startConfig, providerNode,
                                 chStatusUpdate, watcher>>
  BY DEF NodeDeleted, ForeignWrites, LeaseCollected, ConfigWritten, ProviderHangs, Check, Ping,
     PingUnchanged, apiVars, runVars, watchVars, Inv, ForeignInv
<1>1. OwnerKnown'
  BY <1>0 DEF Inv, OwnerKnown, Unregistered
<1>2. CASE UNCHANGED <<node, lease, config>>
  BY <1>0, <1>1, <1>2 DEF Inv, Identity, CapacityOrder, Carries, PromiseKept
<1>3. CASE NodeDeleted
  <2>1. node' = NoNode /\ UNCHANGED <<lease, config>>
    BY <1>3 DEF NodeDeleted, worldVars
  <2> QED BY <1>0, <1>1, <2>1 DEF Inv, Identity, CapacityOrder, Carries, PromiseKept
<1>4. CASE ForeignWrites
  <2>1. /\ UNCHANGED <<lease, config>> /\ node # NoNode /\ node'.uid = node.uid
        /\ node'.is = [node.is EXCEPT !["foreign"] = @ + 1]
    BY <1>0, <1>4, Numbers DEF ForeignWrites, worldVars, Node
  <2>2. \A f \in {"capacity", "ready", "pods"} : node'.is[f] = node.is[f]
    BY <1>0, <2>1, Numbers, ProviderShows DEF Node, Content
  <2>3. node' # NoNode
    BY <1>0, <2>1, NothingShown, Numbers DEF Inv, Identity
  <2> QED BY <1>0, <1>1, <2>1, <2>2, <2>3 DEF Inv, Identity, CapacityOrder, Carries, PromiseKept
<1>5. CASE LeaseCollected
  <2>1. lease' = 0 /\ UNCHANGED <<node, config>>
    BY <1>5 DEF LeaseCollected, worldVars
  <2> QED BY <1>0, <1>1, <2>1, Numbers DEF Inv, Identity, CapacityOrder, Carries, PromiseKept
<1>6. CASE ConfigWritten
  <2>1. config' = config + 1 /\ UNCHANGED <<node, lease>> /\ config > 0
    BY <1>6 DEF ConfigWritten, apiVars, Inv, ForeignInv
  <2>2. Identity' /\ PromiseKept'
    BY <1>0, <2>1, Numbers DEF Inv, Identity, PromiseKept
  <2>3. CapacityOrder'
    BY <1>0, <2>1, Numbers DEF Inv, CapacityOrder, Carries
  <2> QED BY <1>1, <2>2, <2>3
<1> QED BY <1>2, <1>3, <1>4, <1>5, <1>6 DEF ProviderHangs, Check, Ping, PingUnchanged, apiVars

\* The watcher's copy has the version it loaded, whichever node it is a copy of.
LEMMA LoadedVersion ==
    ASSUME TypeOK
    PROVE  /\ WatcherLoads => watcher'.oldNode["capacity"] = config
           /\ WatcherGets => watcher'.oldNode["capacity"] = watcher.oldNode["capacity"]
<1>1. ASSUME NEW content \in Content, NEW n
      PROVE  /\ [content EXCEPT !["capacity"] = n]["capacity"] = n
             /\ [content EXCEPT !["capacity"] = n, !["pods"] = 0]["capacity"] = n
  BY ProviderShows, Numbers DEF Content
<1>2. node.is \in Content /\ Nothing \in Content
  BY Numbers DEF Node, Nothing, Content
<1>3. WatcherLoads => watcher'.oldNode["capacity"] = config
  BY <1>1, <1>2 DEF WatcherLoads
<1>4. ASSUME WatcherGets PROVE watcher'.oldNode["capacity"] = watcher.oldNode["capacity"]
  <2> DEFINE capacity == watcher.oldNode["capacity"]
  <2> HIDE DEF capacity
  <2>1. PICK reply \in {"ok", "notFound", "error"} :
          watcher' = [at |-> "sending",
                      oldNode |-> [(IF reply = "ok" THEN node.is ELSE Nothing)
                                   EXCEPT !["capacity"] = capacity, !["pods"] = 0]]
    BY <1>4 DEF WatcherGets, capacity
  <2>2. watcher'.oldNode["capacity"] = capacity
    BY <1>1, <1>2, <2>1
  <2> QED BY <2>2 DEF capacity
<1> QED BY <1>3, <1>4

\* The invariant over the watcher's steps: what it loads of the file is the latest
\* version, and it goes into the channel when that is empty.
LEMMA WatcherKeeps ==
    ASSUME Inv, Watcher \/ WatcherPanics
    PROVE  Identity' /\ OwnerKnown' /\ CapacityOrder' /\ PromiseKept'
<1>0. /\ TypeOK /\ UNCHANGED <<node, uids, lease, config, serverUid, startConfig, providerNode>>
  BY DEF Watcher, Watch, WatcherLoads, WatcherGets, WatcherSends, WatcherPanics, WatchStep, ApiGet,
     apiVars, Inv, ForeignInv
<1>1. OwnerKnown'
  BY <1>0 DEF Watcher, Watch, WatcherLoads, WatcherGets, WatcherSends, WatcherPanics, Begins, Inv,
     OwnerKnown, Unregistered
<1>2. Identity' /\ PromiseKept'
  BY <1>0 DEF Inv, Identity, PromiseKept
<1>3. CASE WatcherPanics
  BY <1>0, <1>1, <1>2, <1>3 DEF WatcherPanics, watchVars, Inv, CapacityOrder, Carries
<1>4. CASE Watch \/ WatcherLoads \/ WatcherGets
  <2>0. UNCHANGED chStatusUpdate
    BY <1>4 DEF Watch, WatcherLoads, WatcherGets
  <2>1. CASE Watch
    BY <1>0, <1>1, <1>2, <2>0, <2>1 DEF Watch, Watching, Inv, CapacityOrder, Carries
  <2>2. CASE WatcherLoads
    <3>1. watcher'.oldNode["capacity"] = config
      BY <1>0, <2>2, LoadedVersion DEF WatcherLoads
    <3>2. CapacityOrder'
      BY <1>0, <2>0, <3>1, Numbers DEF Inv, CapacityOrder, Carries
    <3> QED BY <1>1, <1>2, <3>2
  <2>3. CASE WatcherGets
    <3>1. watcher'.oldNode["capacity"] = watcher.oldNode["capacity"] /\ Carries
      BY <1>0, <2>3, LoadedVersion DEF WatcherGets, Carries
    <3>2. CapacityOrder'
      BY <1>0, <2>0, <3>1, Numbers DEF Inv, CapacityOrder
    <3> QED BY <1>1, <1>2, <3>2
  <2> QED BY <1>4, <2>1, <2>2, <2>3
<1>5. CASE WatcherSends
  <2>1. ~Carries'
    BY <1>0, <1>5 DEF WatcherSends, Watching, TypeOK, Carries
  <2>2. CASE UNCHANGED chStatusUpdate
    BY <1>0, <1>1, <1>2, <2>1, <2>2 DEF Inv, CapacityOrder, Carries
  <2>3. CASE chStatusUpdate' = <<watcher.oldNode>>
    <3>1. Len(chStatusUpdate') = 1 /\ chStatusUpdate'[1] = watcher.oldNode
      BY <2>3
    <3>2. Carries
      BY <1>5 DEF WatcherSends, Carries
    <3>3. CapacityOrder'
      BY <1>0, <2>1, <3>1, <3>2, Numbers DEF Inv, CapacityOrder, Carries
    <3> QED BY <1>1, <1>2, <3>3
  <2> QED BY <1>5, <2>2, <2>3 DEF WatcherSends
<1> QED BY <1>3, <1>4, <1>5 DEF Watcher

\* Every process starts with the invariant: it takes the latest configuration, which
\* is no older than what an earlier process left on the server.
LEMMA StartsKeep ==
    /\ Init => Inv
    /\ Inv /\ Restart => Identity' /\ OwnerKnown' /\ CapacityOrder' /\ PromiseKept'
<1>1. ASSUME Init PROVE Inv
  <2>1. ForeignInv
    BY <1>1, ForeignInit
  <2>2. Identity /\ OwnerKnown
    BY <1>1 DEF Init, Identity, OwnerKnown, Unregistered, Starting
  <2>3. Len(chStatusUpdate) = 0
    BY <1>1 DEF Init
  <2>4. CapacityOrder /\ PromiseKept
    BY <1>1, <2>3, ProviderShows DEF Init, CapacityOrder, Carries, PromiseKept, NotWatching
  <2> QED BY <2>1, <2>2, <2>4 DEF Inv
<1>2. ASSUME Inv, Restart PROVE Identity' /\ OwnerKnown' /\ CapacityOrder' /\ PromiseKept'
  <2>0. TypeOK /\ UNCHANGED <<node, uids, lease, config>> /\ config > 0
    BY <1>2 DEF Inv, ForeignInv, Restart, apiVars
  <2>1. Identity' /\ OwnerKnown'
    BY <1>2, <2>0, Numbers DEF Restart, Inv, Identity, OwnerKnown, Unregistered, Starting
  <2>2. /\ Len(chStatusUpdate') = 0 /\ ~Carries' /\ startConfig' = config
        /\ providerNode'["capacity"] = config
        /\ \A f \in {"ready", "pods"} : providerNode'[f] = 1
    BY <1>2, <2>0, Numbers, ProviderShows DEF Restart, NotWatching, Carries
  <2>3. CapacityOrder'
    <3>1. node # NoNode => 1 <= node.is["capacity"] /\ node.is["capacity"] <= config
      BY <1>2, <2>0, Numbers DEF Inv, CapacityOrder, Carries
    <3> QED BY <2>0, <2>2, <3>1, Numbers DEF CapacityOrder, Carries
  <2>4. PromiseKept'
    BY <1>2, <2>0, <2>2 DEF Inv, PromiseKept
  <2> QED BY <2>1, <2>3, <2>4
<1> QED BY <1>1, <1>2

\* Every step keeps the invariant.
LEMMA InvStep == Inv /\ [Next]_vars => Inv'
<1> SUFFICES ASSUME Inv, [Next]_vars PROVE Inv'
  OBVIOUS
<1>1. ForeignInv'
  BY ForeignStep DEF Inv
<1>2. CASE UNCHANGED vars
  BY <1>1, <1>2 DEF vars, apiVars, worldVars, runVars, watchVars, Inv, Identity, OwnerKnown,
     Unregistered, CapacityOrder, Carries, PromiseKept
<1>3. CASE Next
  BY <1>1, <1>3, RunCallsKeep, LoopKeeps, OthersKeep, WatcherKeeps, StartsKeep DEF Next, Inv
<1> QED BY <1>2, <1>3

------------------------------------------------------------------------------
(* The refinement.                                                         *)

\* A node is shown, and its absence is shown as such.
LEMMA ShownNode ==
    ASSUME Inv
    PROVE  /\ node = NoNode => Shown = Lifecycle!None
           /\ node # NoNode => Shown # Lifecycle!None /\ Shown.uid = uids
           /\ Shown.uid = node.uid /\ Shown.capacity = node.is["capacity"]
           /\ Shown.ready = (node.is["ready"] # 0)
           /\ Shown.pods = (node.is["pods"] # 0)
<1>1. node = NoNode => Shown = Lifecycle!None
  BY NothingShown DEF Shown, Lifecycle!None
<1>2. node # NoNode => Shown # Lifecycle!None /\ Shown.uid = uids
  BY DEF Inv, Identity, Shown, Lifecycle!None
<1> QED BY <1>1, <1>2 DEF Shown

\* A step that takes the server's node to a patched one shows a publication.
LEMMA PatchShown == ASSUME Inv, Patches, UNCHANGED <<lease, config>> PROVE Lifecycle!Publish
<1> DEFINE capacity == node'.is["capacity"]
           ready == node'.is["ready"] # 0
           pods == node'.is["pods"] # 0
<1>0. TypeOK /\ config > 0
  BY DEF Inv, ForeignInv
<1>1. Shown # Lifecycle!None /\ Shown.uid = node.uid /\ Shown.capacity = node.is["capacity"]
  BY ShownNode DEF Patches
<1>2. capacity \in node.is["capacity"]..config
  BY <1>0, Numbers DEF Patches, Inv, CapacityOrder, Carries
<1>3. ready \in Lifecycle!Promised /\ pods \in Lifecycle!Promised
  BY DEF Patches, Lifecycle!Promised
<1>4. Shown' = [uid |-> node.uid, capacity |-> capacity, ready |-> ready, pods |-> pods]
  BY DEF Shown, Patches
<1> HIDE DEF capacity, ready, pods
<1> QED BY <1>1, <1>2, <1>3, <1>4 DEF Lifecycle!Publish, Patches

\* A creation shows a registration, with the configuration the process began with.
LEMMA CreationShown ==
    ASSUME Inv, Creates, UNCHANGED <<lease, config>>
    PROVE  Lifecycle!Register
<1>0. TypeOK /\ Shown = Lifecycle!None
  BY ShownNode DEF Inv, ForeignInv, Creates
<1>1. startConfig \in 1..config
  BY <1>0, Numbers DEF Inv, CapacityOrder, Carries
<1>2. Shown' = [uid |-> uids + 1, capacity |-> startConfig, ready |-> TRUE, pods |-> TRUE]
  <2>1. (node'.is["ready"] # 0) = TRUE /\ (node'.is["pods"] # 0) = TRUE
    BY <1>0, CreatedNode
  <2> QED BY <1>0, <2>1, CreatedNode DEF Shown
<1> QED BY <1>0, <1>1, <1>2 DEF Lifecycle!Register, Creates

\* What Run's goroutine does is one step of the cluster's view, or none.
LEMMA RunCallsShown == ASSUME Inv, RunCalls PROVE [Lifecycle!Next]_Lifecycle!vars
<1>0. TypeOK /\ UNCHANGED config /\ (NodeMoves \/ LeaseMoves)
  BY RunCallsMove DEF Inv, ForeignInv
<1>1. CASE UNCHANGED <<node, uids, lease>>
  BY <1>0, <1>1 DEF Lifecycle!vars, Shown
<1>2. CASE Patches /\ UNCHANGED lease
  BY <1>0, <1>2, PatchShown DEF Lifecycle!Next
<1>3. CASE Creates /\ UNCHANGED lease
  BY <1>0, <1>3, CreationShown DEF Lifecycle!Next
<1>4. CASE UNCHANGED <<node, uids>> /\ lease # 0 /\ lease' = 0
  BY <1>0, <1>4 DEF Shown, Lifecycle!Next, Lifecycle!Disown
<1>5. CASE UNCHANGED <<node, uids>> /\ serverUid # 0 /\ lease' = serverUid
  <2>1. serverUid \in 1..uids /\ serverUid >= lease
    BY <1>0, <1>5, Numbers DEF Inv, Identity
  <2> QED BY <1>0, <1>5, <2>1 DEF Shown, Lifecycle!Next, Lifecycle!Own
<1> QED BY <1>0, <1>1, <1>2, <1>3, <1>4, <1>5 DEF NodeMoves, LeaseMoves

\* What others do the cluster sees as it is; what they write into the node's status
\* is none of the node's capacity nor of its readiness.
LEMMA OthersShown ==
    ASSUME Inv, NodeDeleted \/ ForeignWrites \/ LeaseCollected \/ ConfigWritten
    PROVE  [Lifecycle!Next]_Lifecycle!vars
<1>0. TypeOK /\ UNCHANGED uids
  BY DEF Inv, ForeignInv, NodeDeleted, ForeignWrites, LeaseCollected, ConfigWritten, apiVars
<1>1. CASE NodeDeleted
  <2>1. Shown # Lifecycle!None /\ UNCHANGED <<lease, config>> /\ node' = NoNode
    BY <1>1, ShownNode DEF NodeDeleted, worldVars
  <2>2. Shown' = Lifecycle!None
    BY <2>1, NothingShown DEF Shown, Lifecycle!None
  <2> QED BY <1>0, <2>1, <2>2 DEF Lifecycle!Next, Lifecycle!Vanish
<1>2. CASE ForeignWrites
  <2>1. /\ UNCHANGED <<lease, config>> /\ node'.uid = node.uid
        /\ node'.is = [node.is EXCEPT !["foreign"] = @ + 1]
    BY <1>0, <1>2, Numbers DEF ForeignWrites, worldVars, Node
  <2>2. \A f \in {"capacity", "ready", "pods"} : node'.is[f] = node.is[f]
    BY <1>0, <2>1, Numbers, ProviderShows DEF Node, Content
  <2> QED BY <1>0, <2>1, <2>2 DEF Shown, Lifecycle!vars
<1>3. CASE LeaseCollected
  BY <1>0, <1>3 DEF LeaseCollected, worldVars, Shown, Lifecycle!Next, Lifecycle!Disown
<1>4. CASE ConfigWritten
  BY <1>0, <1>4 DEF ConfigWritten, apiVars, Shown, Lifecycle!Next, Lifecycle!Reconfigure
<1> QED BY <1>1, <1>2, <1>3, <1>4

\* The other steps of the process, its end and its start show nothing.
LEMMA OwnSteps ==
    ASSUME \/ ProviderHangs \/ Restart \/ Check \/ Ping \/ TakeUpdate \/ StatusTick \/ PingTick
           \/ Watcher \/ WatcherPanics
    PROVE  UNCHANGED <<node, uids, lease, config>>
  BY DEF ProviderHangs, Restart, Check, Ping, PingUnchanged, TakeUpdate, StatusTick, PingTick,
     RunStep, ApiIdle, ApiGet, Watcher, Watch, WatcherLoads, WatcherGets, WatcherSends, WatcherPanics,
     WatchStep, apiVars

\* The node controller implements NodeLifecycle: whatever is read long before it is
\* used, sent over the channel, done for a node that is gone or started again, the
\* capacity of a node never goes back, it is ready and has its limit of pods until the
\* first change of the configuration, and a lease is never given to an earlier node nor to none
\* (node.go:146, 183-200, 244-247, 336-350, 553-561 and 619-638).
THEOREM NodeImplementation == Spec => ImplementsLifecycle
<1>1. Init => Lifecycle!Init
  <2> SUFFICES ASSUME Init PROVE Lifecycle!Init
    OBVIOUS
  <2>1. Shown = Lifecycle!None
    BY StartsKeep, ShownNode DEF Init
  <2> QED BY <2>1 DEF Init, Lifecycle!Init
<1>2. Inv /\ [Next]_vars => [Lifecycle!Next]_Lifecycle!vars
  <2> SUFFICES ASSUME Inv, [Next]_vars PROVE [Lifecycle!Next]_Lifecycle!vars
    OBVIOUS
  <2>1. UNCHANGED <<node, uids, lease, config>> => UNCHANGED Lifecycle!vars
    BY DEF Shown, Lifecycle!vars
  <2>2. CASE UNCHANGED vars
    BY <2>1, <2>2 DEF vars, apiVars, worldVars
  <2>3. CASE Next
    BY <2>1, <2>3, RunCallsShown, OthersShown, OwnSteps DEF Next
  <2> QED BY <2>2, <2>3
<1> QED BY <1>1, <1>2, StartsKeep, InvStep, PTL DEF Spec, ImplementsLifecycle, Lifecycle!Spec

------------------------------------------------------------------------------
(* The configuration on its way.                                           *)

\* When the watcher waits for an event, either the file is watched or an event is
\* there, the one that said that the file is gone.
Listens == watcher.at = "idle" /\ ~watched => notified > 0

ConfigInv == ConfigTracked /\ Listens

\* While it is carried, the latest version is where ConfigTracked looks for it: the
\* watcher loads whatever is the latest, and what the watcher sends and what
\* controlLoop takes only changes places.
LEMMA WatcherTracks ==
    ASSUME TypeOK, ConfigTracked, Watcher \/ WatcherPanics
    PROVE  ConfigTracked'
<1>0. UNCHANGED <<config, providerNode, missed>>
  BY DEF Watcher, Watch, WatcherLoads, WatcherGets, WatcherSends, WatcherPanics, WatchStep, watchVars
<1>1. CASE WatcherPanics
  BY <1>0, <1>1 DEF WatcherPanics, watchVars, ConfigTracked
<1>2. CASE Watch
  BY <1>0, <1>2 DEF Watch, ConfigTracked
<1>4. CASE WatcherLoads
  <2>1. watcher'.at = "loaded" /\ watcher'.oldNode["capacity"] = config
    BY <1>4, LoadedVersion DEF WatcherLoads
  <2> QED BY <1>0, <2>1 DEF ConfigTracked
<1>5. CASE WatcherGets
  <2>1. watcher'.at = "sending" /\ watcher'.oldNode["capacity"] = watcher.oldNode["capacity"]
    BY <1>5, LoadedVersion DEF WatcherGets
  <2> QED BY <1>0, <1>5, <2>1 DEF WatcherGets, ConfigTracked
<1>3. CASE WatcherSends
  <2>1. watcher.at = "sending" /\ UNCHANGED notified
    BY <1>3 DEF WatcherSends
  <2>2. CASE watcher' = [watcher EXCEPT !.at = "blocked"] /\ UNCHANGED chStatusUpdate
    <3>1. watcher'.at = "blocked" /\ watcher'.oldNode = watcher.oldNode
      BY <2>2 DEF TypeOK
    <3> QED BY <1>0, <2>1, <2>2, <3>1 DEF ConfigTracked
  <2>3. CASE chStatusUpdate = <<>> /\ chStatusUpdate' = <<watcher.oldNode>>
    <3>1. Len(chStatusUpdate) = 0
      BY <2>3
    <3>2. Len(chStatusUpdate') = 1 /\ chStatusUpdate'[1] = watcher.oldNode
      BY <2>3
    <3> QED BY <1>0, <2>1, <3>1, <3>2 DEF ConfigTracked
  <2> QED BY <1>3, <2>2, <2>3 DEF WatcherSends
<1> QED BY <1>1, <1>2, <1>3, <1>4, <1>5 DEF Watcher

\* The channel never holds an older version than controlLoop's, so that the latest is
\* not given up for one that comes out of the channel.
LEMMA ProcessTracks ==
    ASSUME Inv, ConfigTracked, RunCalls \/ TakeUpdate \/ StatusTick \/ PingTick \/ Restart
    PROVE  ConfigTracked'
<1>0. TypeOK
  BY DEF Inv, ForeignInv
<1>1. CASE RunCalls
  BY <1>0, <1>1, RunCallsType DEF watchVars, ConfigTracked
<1>2. CASE StatusTick \/ PingTick
  BY <1>2 DEF StatusTick, PingTick, RunStep, NodeKept, watchVars, ConfigTracked
<1>3. CASE TakeUpdate
  <2>1. UNCHANGED <<config, watcher, notified, missed>>
    BY <1>3 DEF TakeUpdate, RunStep, watchVars
  <2>2. /\ Len(chStatusUpdate) \in Nat /\ Len(chStatusUpdate) <= 1 /\ Len(chStatusUpdate) # 0
        /\ providerNode' = chStatusUpdate[1]
    <3>1. chStatusUpdate \in Seq(Content) /\ chStatusUpdate # <<>>
      BY <1>0, <1>3 DEF TakeUpdate, TypeOK
    <3>2. \A content \in Seq(Content) : content # <<>> => Len(content) \in Nat \ {0}
      BY EmptySeq
    <3>3. Len(chStatusUpdate) \in Nat /\ Len(chStatusUpdate) # 0
      BY <3>1, <3>2
    <3>4. providerNode' = Head(chStatusUpdate) /\ Head(chStatusUpdate) = chStatusUpdate[1]
      BY <1>3, <3>1 DEF TakeUpdate
    <3> QED BY <1>0, <3>3, <3>4 DEF TypeOK
  <2>3. 1 \in 1..Len(chStatusUpdate) /\ \A i \in 1..Len(chStatusUpdate) : i = 1
    BY <2>2
  <2>4. /\ providerNode["capacity"] <= providerNode'["capacity"]
        /\ providerNode'["capacity"] <= config
    BY <2>2, <2>3 DEF Inv, CapacityOrder, Carries
  <2>5. CASE \/ providerNode["capacity"] = config
             \/ \E i \in 1..Len(chStatusUpdate) : chStatusUpdate[i]["capacity"] = config
    <3>1. providerNode'["capacity"] \in Nat /\ config \in Nat
      BY <1>0, <2>2, <2>3, Numbers
    <3>2. providerNode'["capacity"] = config
      BY <2>2, <2>3, <2>4, <2>5, <3>1
    <3> QED BY <2>1, <3>2 DEF ConfigTracked
  <2>6. CASE \/ watcher.at \in {"loaded", "sending", "blocked"} /\ watcher.oldNode["capacity"] = config
             \/ notified > 0 \/ missed
    BY <2>1, <2>6 DEF ConfigTracked
  <2> QED BY <2>5, <2>6 DEF ConfigTracked
<1>4. CASE Restart
  BY <1>0, <1>4, Numbers, ProviderShows DEF Restart, ConfigTracked
<1> QED BY <1>1, <1>2, <1>3, <1>4

\* The watch ends with the file's removal, which is an event, and is there again
\* before the watcher waits for the next one.
LEMMA ListensStep == TypeOK /\ Listens /\ [Next]_vars => Listens'
<1> SUFFICES ASSUME TypeOK, Listens, [Next]_vars PROVE Listens'
  OBVIOUS
<1>0. notified \in Nat
  BY DEF TypeOK
<1>1. CASE UNCHANGED <<watcher, notified, watched>>
  BY <1>1 DEF Listens
<1>2. CASE ConfigWritten
  BY <1>0, <1>2 DEF ConfigWritten, Listens
<1>3. CASE Restart
  BY <1>3 DEF Restart, NotWatching, Listens
<1>4. CASE Watch \/ WatcherLoads \/ WatcherGets
  BY <1>4 DEF Watch, WatcherLoads, WatcherGets, Listens
<1>5. CASE WatcherSends
  <2>1. watcher'.at = "blocked" \/ watched'
    BY <1>5 DEF WatcherSends, TypeOK
  <2> QED BY <2>1 DEF Listens
<1>6. UNCHANGED <<watcher, notified, watched>> \/ ConfigWritten \/ Restart \/ Watcher
  BY DEF vars, watchVars, Next, NodeDeleted, ForeignWrites, LeaseCollected, ProviderHangs, Check, Ping,
     PingUnchanged, RunCalls, Start, GetResult, Get, Patch, Create, Recreate, LeaseCreate,
     LeaseDelete, LeaseRecreate, LeaseUpdate, LeaseStep, RunStep, TakeUpdate, StatusTick, PingTick,
     WatcherPanics
<1> QED BY <1>1, <1>2, <1>3, <1>4, <1>5, <1>6 DEF Watcher

\* The latest version of the configuration is on its way to the node that controlLoop
\* wants, whichever versions are skipped, although one load may serve several events,
\* the channel holds one node and the watch ends with a file that is replaced
\* (node.go:161-194, 228-247), unless it was written before the file was watched or
\* while an event was being handled and the watch had ended.
THEOREM ConfigAlwaysTracked == Spec => []ConfigTracked
<1>1. Init => ConfigInv
  BY ProviderShows DEF Init, ConfigInv, ConfigTracked, Listens, NotWatching
<1>2. Inv /\ ConfigInv /\ [Next]_vars => ConfigInv'
  <2> SUFFICES ASSUME Inv, ConfigInv, [Next]_vars PROVE ConfigTracked'
    BY ListensStep DEF Inv, ForeignInv, ConfigInv
  <2>0. TypeOK /\ ConfigTracked /\ Listens
    BY DEF Inv, ForeignInv, ConfigInv
  <2>1. CASE UNCHANGED vars
    BY <2>0, <2>1 DEF vars, worldVars, runVars, watchVars, ConfigTracked
  <2>2. CASE ConfigWritten
    <3>1. notified \in Nat
      BY <2>0 DEF TypeOK
    <3>2. CASE watched \/ notified > 0
      BY <2>2, <3>1, <3>2 DEF ConfigWritten, ConfigTracked
    <3>3. CASE ~watched /\ ~(notified > 0)
      <4>1. notified = 0
        BY <3>1, <3>3
      <4>2. watcher.at # "idle"
        BY <2>0, <3>3 DEF Listens
      <4>3. missed'
        BY <2>2, <3>3, <4>1, <4>2 DEF ConfigWritten
      <4> QED BY <4>3 DEF ConfigTracked
    <3> QED BY <3>2, <3>3
  <2>3. CASE \/ NodeDeleted \/ ForeignWrites \/ LeaseCollected \/ ProviderHangs
             \/ Check \/ Ping
    BY <2>0, <2>3 DEF NodeDeleted, ForeignWrites, LeaseCollected, ProviderHangs, Check, Ping,
       PingUnchanged, worldVars, runVars, watchVars, ConfigTracked
  <2> QED BY <2>0, <2>1, <2>2, <2>3, WatcherTracks, ProcessTracks DEF Next
<1>3. ConfigInv => ConfigTracked
  BY DEF ConfigInv
<1> QED BY <1>1, <1>2, <1>3, StartsKeep, InvStep, PTL DEF Spec

------------------------------------------------------------------------------
(* The program as it is.                                                   *)

\* Run's goroutine waits for the first ping, and nothing pings.
Waiting ==
    /\ node = NoNode /\ lease = 0
    /\ run.at \in {"start", "getResult", "exited"}
    /\ checker = "off" /\ ~firstPingCompleted

\* If only controlLoop starts the ping controller (node.go:222), no node is ever
\* registered, and no lease made: ensureNode, which comes before controlLoop, waits
\* for the first ping (302, 328), in every process, whatever others do.
THEOREM NeverRegistered ==
    ASSUME ~PingStartsFirst
    PROVE  Spec => [](node = NoNode /\ lease = 0)
<1>1. Init => Waiting
  BY DEF Init, Waiting, PingAtStart, Starting
<1>2. Waiting /\ [Next]_vars => Waiting'
  <2> SUFFICES ASSUME Waiting, [Next]_vars PROVE Waiting'
    OBVIOUS
  <2>1. CASE UNCHANGED vars
    BY <2>1 DEF vars, pingVars, apiVars, runVars, Waiting
  <2>2. CASE \/ NodeDeleted \/ ForeignWrites \/ LeaseCollected \/ ConfigWritten
             \/ ProviderHangs
    BY <2>2 DEF NodeDeleted, ForeignWrites, LeaseCollected, ConfigWritten, ProviderHangs,
       pingVars, apiVars, runVars, Waiting
  <2>3. CASE Restart
    BY <2>3 DEF Restart, PingAtStart, Starting, apiVars, Waiting
  <2>4. CASE Check \/ Ping
    BY <2>4 DEF Check, Ping, StartCheck, Expire, CheckReturns, CloseFirst, PingReturns, PingUnchanged,
       apiVars, runVars, Waiting
  <2>5. CASE Start
    <3>1. run' = [run EXCEPT !.at = "getResult"] /\ UNCHANGED <<apiVars, pingVars>>
      BY <2>5 DEF Start, Goes, ApiIdle, Stays
    <3>2. run'.at \in {"getResult", run.at}
      BY <3>1
    <3> QED BY <3>1, <3>2 DEF Waiting, apiVars, pingVars
  <2>6. ~(GetResult \/ Get \/ Patch \/ Create \/ Recreate \/ LeaseCreate \/ LeaseDelete
          \/ LeaseRecreate \/ LeaseUpdate \/ TakeUpdate \/ StatusTick \/ PingTick)
    BY DEF GetResult, Get, Patch, Create, Recreate, LeaseCreate, LeaseDelete, LeaseRecreate,
       LeaseUpdate, LeaseStep, RunStep, TakeUpdate, StatusTick, PingTick, Waiting
  <2>7. CASE Watcher \/ WatcherPanics
    BY <2>7 DEF Watcher, Watch, WatcherLoads, WatcherGets, WatcherSends, WatcherPanics, WatchStep,
       ApiGet, Begins, pingVars, apiVars, Waiting
  <2> QED BY <2>1, <2>2, <2>3, <2>4, <2>5, <2>6, <2>7 DEF Next, RunCalls
<1>3. Waiting => node = NoNode /\ lease = 0
  BY DEF Waiting
<1> QED BY <1>1, <1>2, <1>3, PTL DEF Spec
==============================================================================
