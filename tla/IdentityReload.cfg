SPECIFICATION Spec
CONSTANTS
    Keys = {1, 2, 3, 4, 5}
    Vins = {"v1"}
    NoVin = "none"
    Overtaking = TRUE
    MaxFaults = 1
    MaxCrashes = 0
PROPERTIES ReloadNeedsBoot
CHECK_DEADLOCK FALSE
