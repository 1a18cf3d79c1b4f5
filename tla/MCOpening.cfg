CONSTANTS
    Peers = {new, old_build}
    Old = {old_build}
    None = None
    MaxSalts = 2
    shown = shown
    plain = plain
    fixed = fixed
    Empty = Empty
    Passwords <- MCPasswords
    Norm <- MCNorm
    Creds <- MCCreds
    MAX_WAIT_MSGS = 2
    MaxAttempts = 2
    MaxLosses = 1
SPECIFICATION MCSpec
INVARIANTS
    PinHonoured NothingLeft KeyAgreement
    AcceptedIsProven NoProofAcrossChannels VerdictRight
PROPERTIES CancelledLeavesNothing AttemptAnswered
CHECK_DEADLOCK FALSE
