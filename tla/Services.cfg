SPECIFICATION ServicesSpec
CONSTANTS
    Blocks = 2
    MaxRedirects = 1
    Rows = 1
    Gated = 1
    Readings = {"a"}
    OutboxSize = 4
    MaxDrops = 1
    MaxRejections = 1
    MaxCaches = 1
INVARIANTS
    TransferSafe
    LeaseCoversEffects
    OnlyTheAnnouncedImage
    BrokerSafe
PROPERTIES
    RetiredIsFinal
    ServicesEnd
CHECK_DEADLOCK FALSE
