CONSTANTS
    Paths = {"p", "q"}
    Ids = {"r", "s"}
    Token = {";", " ", "NL", "true", "false", "ipv4", "ipv6", "whatever", "a", "b", "2", "m", "120", "u="}
    EndInEquals = {"u="}
    Kind <- TheKinds
    Numeral <- TheNumerals
    Settings <- TheSettings
    FileTexts <- TheTexts
    MaxFiles = 2
    MaxSets = 2
    MaxEdits = 1
SPECIFICATION ConfSpec
INVARIANTS SetIsRead ListsAreRead
CHECK_DEADLOCK FALSE
