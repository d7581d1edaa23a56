SPECIFICATION Spec
CONSTANTS
    NumLabels = 2
    Data <- MCData
    Options <- MCOptions
    Vectors <- MCVectors
    Scales <- MCScales
    Gains <- MCGains
INVARIANTS
    TypeOK
    AnswersRight
