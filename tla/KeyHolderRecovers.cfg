CONSTANTS
    Policies <- Password
    Secrets <- StoredKey
    NoProof = NoProof
    NoChallenge = NoChallenge
    MaxAttempts = 2
    MaxCalls = 1
    MaxOutages = 1
    MaxFaults = 0
SPECIFICATION Spec
PROPERTY KeyHolderRecovers
CHECK_DEADLOCK FALSE
