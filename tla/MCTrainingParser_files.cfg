CONSTANTS
    Docs <- AnyFile
    MaxTokens = 2
    InitialCapacity = 1
SPECIFICATION Spec
INVARIANTS
    TypeOK
    FileOrder
    MemorySafe
    MeaningPreserved
    StaysInside
PROPERTY CompleteFilesEnd
