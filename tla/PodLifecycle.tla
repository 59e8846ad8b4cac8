------------------------------ MODULE PodLifecycle ------------------------------
(***************************************************************************)
(* What a node promises of the pods assigned to it, with nothing said of   *)
(* how: no informer, no queue, no worker.  A name is given to one pod      *)
(* after the other, told apart by numbers; the node deploys pods it was    *)
(* given, and takes down what nobody wants.                                *)
(***************************************************************************)
EXTENDS Naturals

CONSTANTS Names

VARIABLES pods,      \* the pod of each name, and whether it is to go
          given,     \* the last number given to each name
          deployed   \* the number of the pod that runs; 0 if none does

vars == <<pods, given, deployed>>

None == [uid |-> 0, stage |-> "none"]

\* Something numbered 1 may run from before.
Init ==
    /\ pods = [n \in Names |-> None]
    /\ given = [n \in Names |-> 1]
    /\ deployed \in [Names -> {0, 1}]

Assign(n) ==
    /\ pods[n] = None
    /\ given' = [given EXCEPT ![n] = given[n] + 1]
    /\ pods' = [pods EXCEPT ![n] = [uid |-> given[n] + 1, stage |-> "wanted"]]
    /\ UNCHANGED deployed

AskDeletion(n) ==
    /\ pods[n].stage = "wanted"
    /\ pods' = [pods EXCEPT ![n] = [uid |-> pods[n].uid, stage |-> "going"]]
    /\ UNCHANGED <<given, deployed>>

Leaves(n) ==
    /\ pods[n] # None
    /\ pods' = [pods EXCEPT ![n] = None]
    /\ UNCHANGED <<given, deployed>>

\* A pod is deployed that was given, be it that it has left in the meantime.
Deploy(n) ==
    /\ deployed[n] = 0
    /\ \E uid \in 2..given[n] : deployed' = [deployed EXCEPT ![n] = uid]
    /\ UNCHANGED <<pods, given>>

Needed(n) == pods[n].stage = "wanted" /\ pods[n].uid = deployed[n]

\* The promise ends where a name is used again.
Reused(n) == given[n] > 2

Undeploy(n) ==
    /\ deployed[n] # 0
    /\ ~Needed(n) \/ Reused(n)
    /\ deployed' = [deployed EXCEPT ![n] = 0]
    /\ UNCHANGED <<pods, given>>

Next == \E n \in Names : Assign(n) \/ AskDeletion(n) \/ Leaves(n) \/ Deploy(n) \/ Undeploy(n)

Spec == Init /\ [][Next]_vars
==============================================================================
