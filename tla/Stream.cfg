SPECIFICATION FairSpec
CONSTANTS Conns = {c1, c2}  MaxFrames = 2
INVARIANTS TypeOK OneWrite InOrder StaysSubscribed
PROPERTIES WorkRunsOut Arrives
\* All connections may have been served.
CHECK_DEADLOCK FALSE
