SPECIFICATION Spec
CONSTANTS
    p1 = p1
    p2 = p2
    Pages = {p1, p2}
    MaxCodes = 3
    HourLimit = 2
    RecoveryCount = 2
    MaxBatches = 2
    MAX_ATTEMPTS = 2
    WINDOW = 2
    MaxClock = 4
    MaxRequests = 4
SYMMETRY Symmetric
INVARIANTS
    CredentialsAreSingleUse
    ShownCodesWork
PROPERTY
    BlockHolds
CHECK_DEADLOCK FALSE
