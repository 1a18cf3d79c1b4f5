CONSTANTS
    Modes <- AllModes
    Networks <- Stale
    PROBES = 1
    RTT = {10, 40}
    None = None
    MaxTasks = 2
SPECIFICATION Spec
INVARIANT DirectDelivers
CHECK_DEADLOCK FALSE
