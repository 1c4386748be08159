SPECIFICATION FairSpec
CONSTANTS Rects <- MCRects  MaxRects = 3
INVARIANTS TypeOK NoRegionLost EdgesFound
PROPERTIES RoundsRunOut Ends
\* The algorithm ends.
CHECK_DEADLOCK FALSE
