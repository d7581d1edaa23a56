CONSTANTS
    NumLabels = 2
    NumAttrs = 2
    MaxFeatures = 4
    Trained <- Results
SPECIFICATION Spec
INVARIANTS
    TypeOK
    RoundTrip
    HeaderCommits
    DictionariesWhole
