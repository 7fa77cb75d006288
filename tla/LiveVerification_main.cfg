SPECIFICATION FairSpec
CONSTANTS
    Clients = {verifier, agent, other}
    Verifier = verifier
    MaxConcurrent = 2
    MaxTokens = 2
    Checks = 1
    Attempts = 2
    MaxVerification = 2
    AutoContinue = TRUE
    MaxRuns = 3
    MaxFaults = 1
INVARIANTS
    TypeOK
    SlotsCounted
    NobodyWaitsInVain
    EnvironmentNotCharged
    OneFollowUpPerFailure
    DirectReturnsBounded
PROPERTIES
    VerificationSettles
CHECK_DEADLOCK FALSE
