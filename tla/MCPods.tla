-------------------------------- MODULE MCPods --------------------------------
EXTENDS PodProperties

NoLeftovers == {}

ALeftover == {[uid |-> 1, spec |-> 1, state |-> "running", labelled |-> l] : l \in BOOLEAN}
UpstreamSplit == {1, 2}
AssumedSplit  == {1, 2, 3}
AnyPod        == BOOLEAN
NoHostPods    == {FALSE}
==============================================================================
