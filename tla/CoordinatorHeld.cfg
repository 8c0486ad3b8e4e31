SPECIFICATION Spec
CONSTANTS
    MaxDecisions = 4
    MaxActions = 1
    MaxBusinessQueries = 1
    MaxDocumentSearches = 1
    MaxRestores = 1
    RecursionLimit = 10
    Citations <- FewCitations
PROPERTIES
    HeldDraftKept
