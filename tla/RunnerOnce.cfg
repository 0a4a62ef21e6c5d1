SPECIFICATION Spec
CONSTANTS
    Kinds <- OneKinds
    Codes = {0, 1, 3, 6, 25}
    Uuids = {1, 2, 3, 4, 5, 6, 7, 8, 9}
    QueueSize = 2
    MaxCommands = 1
    MaxWire = 1
INVARIANTS TypeOK AtMostOnce HonestFailure
PROPERTIES ImplementsService
