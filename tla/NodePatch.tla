------------------------------- MODULE NodePatch -------------------------------
(***************************************************************************)
(* The three-way patch of the node's status, provider/sci/controller/      *)
(* node.go.  A node's content is a function from its fields to values,     *)
(* where 0 says that the field is not there: a condition type, a resource  *)
(* of the capacity, a label.  All of them are merged by key.               *)
(***************************************************************************)
EXTENDS Naturals

CONSTANTS Fields,     \* what the node's status, labels and annotations consist of
          Conditions  \* those that are conditions, which carry a heartbeat

ASSUME FieldsAssumption == Conditions \subseteq Fields

Content == [Fields -> Nat]
Nothing == [f \in Fields |-> 0]

\* What a patch does to a field: it puts a value, deletes the field or says
\* nothing of it.
Keep       == [op |-> "keep", value |-> 0]
Delete     == [op |-> "delete", value |-> 0]
Put(value) == [op |-> "put", value |-> value]

\* Mutant: a two-way patch, from the server's node to the provider's.
PatchFor_TwoWay(oldNode, newNode, apiServerNode) ==
    [f \in Fields |->
       IF newNode[f] = apiServerNode[f] THEN Keep
       ELSE IF newNode[f] = 0 THEN Delete ELSE Put(newNode[f])]

\* Mutant: what was applied last and is not what is wanted now is deleted first.
PatchFor_DeletesFirst(oldNode, newNode, apiServerNode) ==
    [f \in Fields |->
       IF oldNode[f] # 0 /\ oldNode[f] # newNode[f] THEN Delete
       ELSE IF newNode[f] # 0 /\ newNode[f] # apiServerNode[f] THEN Put(newNode[f]) ELSE Keep]

\* From the last applied node, the provider's and the server's as it was read.
\* updateNodeStatusHeartbeat has just refreshed the provider's conditions, so
\* they always differ from the server's.
PatchFor(oldNode, newNode, apiServerNode) ==
    [f \in Fields |->
       IF newNode[f] # 0
       THEN IF f \in Conditions \/ newNode[f] # apiServerNode[f] THEN Put(newNode[f]) ELSE Keep
       ELSE IF oldNode[f] # 0 THEN Delete ELSE Keep]

Patched(content, patch) ==
    [f \in Fields |-> IF patch[f].op = "keep" THEN content[f] ELSE patch[f].value]
==============================================================================
