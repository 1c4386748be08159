SPECIFICATION FairSpec
CONSTANTS MaxToggles = 4  Connections = {1, 2}
INVARIANTS TypeOK FlagsAgree RunningSceneIsStopped ListMatches
PROPERTIES EnterLeadsToExit
\* The process ends.
CHECK_DEADLOCK FALSE
