SPECIFICATION Spec
CONSTANTS
    NoDecision = NoDecision
    Workers = {w1}
    Events = {e1}
    MissingTx = {}
    Decisions = {d1}
    MaxMessages = 1
INVARIANTS
    DatabaseFailureIsRetried
