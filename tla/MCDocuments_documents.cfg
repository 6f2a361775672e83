CONSTANTS
    Digit = "1"
    Other = "x"
    Wanted = "repomd.xml"
    MaxDigits = 1
    Formats = {"repomd", "metalink"}
    Attributes <- TheAttributes
    WarningCb = {"OK", "ABORT"}
    MaxElements <- TheSizes
    MaxStrange = 2
    MaxTexts <- TheTexts
SPECIFICATION Spec
INVARIANTS ParsedIsMeant AssertionsHold
CHECK_DEADLOCK FALSE
