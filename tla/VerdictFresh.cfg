CONSTANTS
    Policies <- Password
    Secrets <- WrongOrRight
    NoProof = NoProof
    NoChallenge = NoChallenge
    MaxAttempts = 2
    MaxCalls = 2
    MaxOutages = 0
    MaxFaults = 0
SPECIFICATION Spec
PROPERTY VerdictFresh
CHECK_DEADLOCK FALSE
