SPECIFICATION Spec
CONSTANTS
    NoDecision = NoDecision
    Workers = {w1, w2}
    Events = {e1}
    MissingTx = {}
    Decisions = {d1}
    MaxMessages = 2
PROPERTIES
    CompletedIsStable
