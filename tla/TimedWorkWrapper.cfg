SPECIFICATION FairSpec
CONSTANT MaxToggles = 4
INVARIANTS TypeOK PumpAlive HandlersBounded
PROPERTIES RestIsStable PumpKeepsTicking
\* The process may be terminated by an exception.
CHECK_DEADLOCK FALSE
