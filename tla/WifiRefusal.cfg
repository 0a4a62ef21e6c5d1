SPECIFICATION TrialSpec
CONSTANTS
    Pairs = {"A", "B", "C"}
    MaxRetry = 1
    GraceChecks = 3
    MaxResets = 1
    MaxWired = 1
PROPERTIES RefusalIsSustained
CHECK_DEADLOCK FALSE
