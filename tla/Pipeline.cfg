SPECIFICATION FairSpec
CONSTANTS N = 4  NumThreads = 3  MayBlock = {1, 3}  MaxFrames = 2  MaxToggles = 2
INVARIANTS TypeOK NoneLostNoneReordered PopSafe RowsAligned BehindIsServed
PROPERTIES RefinesConveyor KeepsUp
\* The process may be terminated by an exception.
CHECK_DEADLOCK FALSE
