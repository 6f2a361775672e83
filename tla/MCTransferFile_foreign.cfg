SPECIFICATION Spec
CONSTANTS
    Size = 4
    StaleSize = 3
    PageSize = 2
    Cases <- ForeignCases
    CutDirty = FALSE
    MaxTries = 3
    MaxCalls = 2
INVARIANT SuccessIsExact
