SPECIFICATION Spec
CONSTANTS
    Depth = 2
    CellChunks = 2
    MaxGen = 6
    MaxRx = 1
    MaxFaults = 1
    Requests = {"discover", "disconnect"}
    FaultKinds = {"disc", "cancel", "connect", "gatt", "terminate", "drop", "task", "reset"}
INVARIANTS
    LinkStateIsTrue
