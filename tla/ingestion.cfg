SPECIFICATION Spec
CONSTANTS
    Handlers = {h1, h2, h3}
    Ids = {i1, i2}
    Payloads = {p1, p2}
    NoId = NoId
    NoPayload = NoPayload
SYMMETRY FullSymmetry
INVARIANTS
    TypeOK
    StoredWithEvent
    AcceptedIsStored
    ConflictIsReal
PROPERTIES
    ImplementsLedger
