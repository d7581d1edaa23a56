SPECIFICATION Spec
CONSTANTS
    N = 2
    Configs <- MCConfigs
    Defaults <- MCDefaults
    Losses = {4, 5, 6}
    Gradients <- MCGradients
    NotFinite = NotFinite
    Null = Null
INVARIANTS
    TypeOK
    LazyIsEager
    BestRate
    EndsAtBest
CHECK_DEADLOCK FALSE
