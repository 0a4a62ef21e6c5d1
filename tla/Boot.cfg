SPECIFICATION FairSpec
CONSTANTS
    Threshold = 2
    Limit = 3
    CountMax = 4
    Hold = 2
    Healthy = 2
    MaxResets = 2
    MaxFaults = 1
INVARIANTS
    BudgetSafe
    SealedIsAlone
PROPERTIES
    TrustIsEarned
    BootProgress
CHECK_DEADLOCK FALSE
