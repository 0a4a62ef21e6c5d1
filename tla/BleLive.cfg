SPECIFICATION FairSpec
CONSTANTS
    Depth = 1
    CellChunks = 1
    MaxGen = 4
    MaxRx = 0
    MaxFaults = 1
    Requests = {"disconnect"}
    FaultKinds = {"cancel", "connect", "terminate"}
PROPERTIES
    LinkWorkEnds
