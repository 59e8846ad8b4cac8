SPECIFICATION FairSpec
PROPERTIES PodsComeUp
CHECK_DEADLOCK FALSE
