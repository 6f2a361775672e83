CONSTANTS
    m1 = m1  m2 = m2  m3 = m3
    NumChunks = 2
    Mirrors = {m1, m2, m3}
    MirrorLists <- Remote
    NoMirror = NoMirror
    Protocol <- TwoHttp
    RangeLimit <- FirstUnranged
    InitialRanges = 8
    InitialFiles <- NoFiles
    Caches <- NoCaches
    MaxTries = 3
    MaxFaults = 1
SPECIFICATION Spec
INVARIANT FinishedIsValid
CHECK_DEADLOCK FALSE
