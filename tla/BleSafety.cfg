SPECIFICATION LinkSpec
CONSTANTS
    Depth = 2
    CellChunks = 2
    MaxGen = 8
    MaxRx = 2
    MaxFaults = 0
    Requests = {}
    FaultKinds = {}
    MaxLost = 1
    MaxFalls = 2
    kWindowSize = 3
    MaxCounter = 7
INVARIANTS ReadyLinkIsSound FramerIsContiguous WakeSafe WindowIsExact
PROPERTIES TerminatesItsOwnLink
