SPECIFICATION FairSpec
CONSTANT MaxToggles = 1
PROPERTY PauseStopsPump
CHECK_DEADLOCK FALSE
