CONSTANTS
    a1 = a1
    a2 = a2
    a3 = a3
    v1 = v1
    v2 = v2
    Null = Null
    Addr <- ThreeAddrs
    Versions <- TwoVersions
    Cursors <- OneCursor
    MaxTokens = 2
    Outcomes <- AllOutcomes
SPECIFICATION Spec
SYMMETRY AddrAndVersionSymmetry
INVARIANTS
    TypeOK
    NoLeak
    GenericUsable
    ResultHonest
    CursorIntact
PROPERTY AnswersSettle
