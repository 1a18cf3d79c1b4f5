CONSTANTS
    Policies <- OpenOrPassword
    Secrets <- AnyPassword
    NoProof = NoProof
    NoChallenge = NoChallenge
    MaxAttempts = 2
    MaxCalls = 1
    MaxOutages = 1
    MaxFaults = 1
SPECIFICATION Spec
INVARIANT NoOutcomeMissed
PROPERTIES TimeoutReal RegisterReturns Recovers
CHECK_DEADLOCK FALSE
