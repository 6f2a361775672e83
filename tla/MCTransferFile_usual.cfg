SPECIFICATION Spec
CONSTANTS
    Size = 4
    StaleSize = 3
    PageSize = 2
    Cases <- UsualCases
    CutDirty = FALSE
    MaxTries = 3
    MaxCalls = 2
INVARIANTS TypeOK SuccessIsExact Aligned
PROPERTIES GoodTransferAccepted
