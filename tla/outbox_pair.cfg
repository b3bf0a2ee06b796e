SPECIFICATION FairSpec
CONSTANTS
    Dispatchers = {c1, c2}
    MaxRow = 3
    Stored <- SomeStored
    BatchSize = 2
    Backoff <- ScaledBackoff
    MaxFaults = 3
INVARIANTS
    TypeOK
    OnlyMalformedFails
    BatchesDisjoint
    DuplicatesHaveCause
    PublishedIsReadable
PROPERTIES
    ImplementsDelivery
    EveryRowSettles
CHECK_DEADLOCK FALSE
