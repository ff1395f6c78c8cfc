SPECIFICATION Spec
INVARIANTS SavestateExact BatterySafe PixelsExact NetworkExact FinderExact
           FrontendExact CoverageExact
CHECK_DEADLOCK FALSE
