SPECIFICATION Spec
CONSTANTS Conns = {c1}  MaxFrames = 2
INVARIANT ClosureReleases
CHECK_DEADLOCK FALSE
