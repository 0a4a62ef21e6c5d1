SPECIFICATION NetworkSpec
CONSTANTS
    Pairs = {"A", "B", "C"}
    MaxRetry = 1
    GraceChecks = 3
    MaxResets = 1
    MaxWired = 1
    Gateways = {"g1", "g2"}
    BootRetries = 0
    MaxTrouble = 1
    MaxSilent = 2
    MaxInbox = 2
    Candidates = 2
    MaxProbes = 3
    MaxRefusals = 2
    kQueueDepth = 2
    MaxLines = 4
    MaxLogFaults = 3
INVARIANTS
    TrialSafe
    LinkSafe
    UnwindIsSafe
    ProbesAreSeparate
    SyslogSafe
PROPERTIES
    RefusalIsSustainedOnAir
    RecoverIsEarned
    NetworkRecovers
CHECK_DEADLOCK FALSE
