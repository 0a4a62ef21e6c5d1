SPECIFICATION Spec
CONSTANTS
    Kinds <- FifoKinds
    Codes = {}
    Uuids = {1, 2, 3, 4, 5, 6, 7, 8, 9}
    QueueSize = 2
    MaxCommands = 2
    MaxWire = 1
INVARIANTS HonestSuccess SlotDiscipline
