CONSTANTS
    SEQ = 8
    First = 6
    RING = 4
    BLOCKS = 2
    RS_MAX_DATA = 3
    SHARDS = 6
    Rates = {0, 3, 60}
    Sizes = {1, 2}
    FEC_MAX_PACKET = 1
    MaxSent = 5
    MaxFaults = 2
    MaxChanges = 1
    MaxNet = 1
    FIELD_SIZE = 8
    POLYNOMIAL = 3
    Codecs <- MCCodecs
    Symbols = {0, 5}
    CAPACITY = 2
    MaxRounds = 2
    FLOOR_KBPS = 10
    CAP = 14
    Starts = {14}
    LOSS_CLEAN = 5
    LOSS_DOWN = 30
    LOSS_SEVERE = 150
    RECOVERY_LOSS = 5
    RTT_OK_MS = 25
    RTT_EXCESS_MS = 35
    RTT_BAD_MS = 90
    CLEAN_WINDOWS_UP = 2
    PROBE_WAIT_MIN = 1
    PROBE_WAIT_MAX = 2
    PROBE_PUNISH_WINDOWS = 1
    COOLDOWN_WINDOWS = 1
    RECOVERY_WINDOWS = 2
    PROBE_DOWN_WINDOWS = 2
    DEADBAND_LEARN_WINDOWS = 2
    LAST_GOOD_WINDOWS = 2
    POINT_DEBOUNCE = 1
    HOST_BOUND_CUTS = 2
    POINT_RETRY_WINDOWS = 3
    POINT_RETRY_MAX = 3
    STARTUP_WINDOWS = 1
    OVERUSE_FRAMES = 2
    FAST_FRAMES = 1
    Points <- MCPoints
    Ladders = {TRUE}
    Samples <- MCSamples
    Overheads = {0, 25}
    MaxAsked = 1
SPECIFICATION MCSpec
INVARIANTS RepairExact ShardsRight RateBounded CeilingEarned
PROPERTIES RepairComplete ClimbsBack
VIEW MCView
CHECK_DEADLOCK FALSE
