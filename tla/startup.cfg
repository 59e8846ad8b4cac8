SPECIFICATION FairSpec
INVARIANTS TypeOK RunsWithDefaults NodeWaitsForPods NothingServesAfterReturn
PROPERTIES StartupEnds ShutdownEnds ReadyUnlessMissed
CHECK_DEADLOCK FALSE
