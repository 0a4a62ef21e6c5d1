SPECIFICATION FairSpec
CONSTANTS
    Images = {1, 2}
    MaxSerial = 3
    MaxRevision = 1
    MaxBoots = 2
    ArmingBoots = {1}
    MaxNews = 3
INVARIANTS
    OfferSafe
    LeaseIsGate
    RollbackIsSound
PROPERTIES
    StartsAreExclusive
    StatusSettles
