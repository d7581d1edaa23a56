CONSTANTS
    NumLabels = 2
    NumAttrs = 2
    MaxFeatures = 2
    Trained <- Results
SPECIFICATION Spec
INVARIANT SuccessMeansSaved
