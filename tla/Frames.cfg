SPECIFICATION Spec
CONSTANT MaxFrames = 3
INVARIANTS TypeOK NoConflict HandedOnFilled ListenersAreServed
\* The process may be terminated by an exception.
CHECK_DEADLOCK FALSE
