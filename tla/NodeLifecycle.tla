----------------------------- MODULE NodeLifecycle -----------------------------
(***************************************************************************)
(* What a cluster can rely on about the node, with nothing said of how: no *)
(* pings, no patches, no timers, no watcher.  There is one node at a time, *)
(* and nodes are told apart by numbers; its capacity, of cpu and memory,   *)
(* follows the configuration, of which 1 is the first version; it has a    *)
(* limit of pods or none; its lease has an owner.                          *)
(***************************************************************************)
EXTENDS Naturals

VARIABLES node,     \* the node there is, if any
          given,    \* the last number given to a node
          config,   \* the version of the configuration
          owner     \* the number of the node that owns the lease; 0: no lease

vars == <<node, given, config, owner>>

None == [uid |-> 0, capacity |-> 0, ready |-> FALSE, pods |-> FALSE]

Init == node = None /\ given = 0 /\ config = 1 /\ owner = 0

Reconfigure ==
    /\ config' = config + 1
    /\ UNCHANGED <<node, given, owner>>

\* A node is ready and has its limit of pods from the start, and may come with a
\* version of the configuration that is not the latest.
Register ==
    /\ node = None
    /\ given' = given + 1
    /\ \E capacity \in 1..config :
         node' = [uid |-> given + 1, capacity |-> capacity, ready |-> TRUE, pods |-> TRUE]
    /\ UNCHANGED <<config, owner>>

Vanish ==
    /\ node # None /\ node' = None
    /\ UNCHANGED <<given, config, owner>>

\* Readiness and the limit of pods are promised until the first change of the
\* configuration.
Promised == IF config = 1 THEN {TRUE} ELSE BOOLEAN

\* A node's capacity never goes back to an earlier version.
Publish ==
    /\ node # None
    /\ \E capacity \in node.capacity..config, ready \in Promised, pods \in Promised :
         node' = [uid |-> node.uid, capacity |-> capacity, ready |-> ready, pods |-> pods]
    /\ UNCHANGED <<given, config, owner>>

\* The lease is taken over by later nodes only.
Own ==
    /\ \E uid \in 1..given : uid >= owner /\ owner' = uid
    /\ UNCHANGED <<node, given, config>>

Disown ==
    /\ owner # 0 /\ owner' = 0
    /\ UNCHANGED <<node, given, config>>

Next == Reconfigure \/ Register \/ Vanish \/ Publish \/ Own \/ Disown

Spec == Init /\ [][Next]_vars
================================================================================
