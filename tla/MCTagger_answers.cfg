SPECIFICATION Spec
CONSTANTS
    NumLabels = 2
    Models <- MCModels
    Instances <- MCInstances
INVARIANTS
    TypeOK
    ViterbiIsBest
    ScoresRight
    MarginalsRight
