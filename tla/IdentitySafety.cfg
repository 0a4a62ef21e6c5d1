SPECIFICATION Spec
CONSTANTS
    Keys = {1, 2, 3, 4, 5}
    Vins = {"v1", "v2"}
    NoVin = "none"
    Overtaking = FALSE
    MaxFaults = 2
    MaxCrashes = 1
INVARIANTS
    IdentitySafe
    SigningIdentity
    JournalsCoverTears
PROPERTIES
    OnlyRequestsReplace
CHECK_DEADLOCK FALSE
