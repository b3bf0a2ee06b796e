SPECIFICATION Spec
CONSTANTS
    NoBaseline = NoBaseline
    AmountScale = 10000
    Categories = {"food", "travel"}
    Configs <- SomeConfigs
    Transactions <- SomeTransactions
    Contexts <- SomeContexts
    Histories <- SomeHistories
INVARIANTS
    TypeOK
    ReasonsExplainScore
    DeployedHighNeedsAll
    OwnHistoryNeverDeviates
    RoundingDecidesTiesOnly
PROPERTIES
    RescoringIsMonotone
