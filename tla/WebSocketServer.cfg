SPECIFICATION Spec
CONSTANT Connections = {1, 2}
PROPERTY ShutdownClosesAll
CHECK_DEADLOCK FALSE
