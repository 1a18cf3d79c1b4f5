CONSTANTS
    Hosts = {d1, d2}
    None = None
    Caps = {0}
    Modes <- AllModes
    MaxSalts = 2
    PEER_TIMEOUT = 3
    MAX_WAIT_MSGS = 2
SPECIFICATION MCSpec
INVARIANTS PinHonoured NothingLeft KeyAgreement VerdictTrue SilentDropped
PROPERTIES ConnectEnds OnlySilentDropped GoneReleasesHost RequestReturns
CHECK_DEADLOCK FALSE
