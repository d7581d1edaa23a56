CONSTANTS
    Keys <- SevenKeys
    Strings <- ThreeStrings
    Hashes <- FewHashes
    MaxIds = 3
    MaxRounds = 3
    NumTables = 2
    NotFound <- MinusOne
    NoString = NoString
    Beyond = Beyond
    Null = Null
SPECIFICATION Spec
CHECK_DEADLOCK FALSE
INVARIANTS
    TypeOK
    Balanced
    Ordered
    AllFreed
    LooksUp
PROPERTY ImplementsDictionary
