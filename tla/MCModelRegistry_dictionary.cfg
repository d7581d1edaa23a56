CONSTANTS
    a1 = a1
    a2 = a2
    a3 = a3
    v1 = v1
    v2 = v2
    Null = Null
    Addr <- ThreeAddrs
    Versions <- OneVersion
    Cursors <- OneCursor
    MaxTokens = 2
    Outcomes <- Survive
SPECIFICATION Spec
INVARIANT DictionaryOwnedByModel
