CONSTANTS
    Modes <- AllModes
    Networks <- Usual
    PROBES = 1
    RTT = {10, 40}
    None = None
    MaxTasks = 2
SPECIFICATION Spec
INVARIANTS LiveTransportTrue ModeRespected DirectDelivers
PROPERTIES NoFlapping HostMeasures
CHECK_DEADLOCK FALSE
