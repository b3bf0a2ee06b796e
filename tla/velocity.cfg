SPECIFICATION Spec
CONSTANTS
    Workers = {w1, w2}
    Transactions <- FirstThree
    Keys = {"c1", "m1", "m2"}
    KeyOf <- OneCustomer
    EventTime <- OnePerTick
    Window = 2
    Ttl = 3
    MaxNow = 4
    NoTransaction = NoTransaction
SYMMETRY WorkerSymmetry
INVARIANTS
    TypeOK
    LatestCountIsExact
    MissingHasCause
    RetentionIsBounded
