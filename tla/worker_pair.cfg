SPECIFICATION PairSpec
CONSTANTS
    NoDecision = NoDecision
    Workers = {w1, w2}
    Events = {e1, e2}
    MissingTx = {}
    Decisions = {d1, d2}
    MaxMessages = 3
INVARIANTS
    TypeOK
    AckImpliesDurable
    CompletedHasAudit
    NothingStranded
    CalculationIsVisible
    AckedIsNotDeadLettered
PROPERTIES
    DecisionIsFinal
    ImplementsAssessment
    EveryMessageLeaves
