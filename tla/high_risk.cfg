SPECIFICATION QuerySpec
CONSTANTS
    NoDecision = NoDecision
    Workers = {w1}
    Events = {1, 2, 3}
    MissingTx = {3}
    Decisions = {0, 1, 2}
    HighScores = {1, 2}
    MaxMessages = 3
    Limit = 1
INVARIANTS
    WalkMissesNone
PROPERTIES
    AnswerNeverRegresses
