SPECIFICATION Spec
CONSTANTS MaxToggles = 2  Connections = {1}
INVARIANT MonitoringStops
CHECK_DEADLOCK FALSE
