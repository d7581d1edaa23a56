SPECIFICATION Spec
CONSTANTS
    Upper <- MCUpper
    Lower <- MCLower
    ToLower <- MCToLower
    Digits <- MCDigits
    Punct <- MCPunct
    Roman <- MCRoman
    Abbreviations <- MCAbbreviations
    Corpora <- MCCorpora
    Factors <- MCFactors
    Names <- MCNames
    MaxErrors = 2
INVARIANTS
    TypeOK
    TokensSettle
    ServedAsTrained
    BestByName
    ColumnsHoldTheName
    OneOfEachPerError
