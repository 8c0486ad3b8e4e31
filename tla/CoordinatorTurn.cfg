SPECIFICATION Spec
CONSTANTS
    MaxDecisions = 5
    MaxActions = 2
    MaxBusinessQueries = 1
    MaxDocumentSearches = 1
    MaxRestores = 1
    RecursionLimit = 12
    Citations <- FewCitations
INVARIANTS
    TypeOK
    ProtocolKept
    LimitsKept
    ResultGrounded
    WithinRecursionLimit

    
