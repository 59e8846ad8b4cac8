-------------------------------- MODULE MCNode --------------------------------
EXTENDS NodeProperties

NodeFields     == {"ready", "capacity", "pods", "foreign"}
NodeConditions == {"ready", "foreign"}
AnyLease       == {"off", "unsupported", "on"}
==============================================================================
