SPECIFICATION FairSpec
CONSTANTS
    NoDecision = NoDecision
    Workers = {w1}
    Events = {e1}
    MissingTx = {}
    Decisions = {d1}
    MaxMessages = 1
PROPERTIES
    LostIsReclaimed
