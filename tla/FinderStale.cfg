SPECIFICATION TrackerSpec
INVARIANTS FinderResolves
CHECK_DEADLOCK FALSE
