SPECIFICATION Spec
CONSTANTS
    None = None
    Text = Text
    NaN = NaN
    Infinity = Infinity
    SourceRows <- SomeRows
    Files <- SomeFiles
    Seeds = {"s1"}
    LastDay = 5
    MaxAmount = 9999998
    MaxEdits = 2
    Configs <- SomeConfigs
INVARIANTS
    FraudOnlyMissesNone
CHECK_DEADLOCK FALSE
