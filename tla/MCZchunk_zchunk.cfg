CONSTANTS
    m1 = m1  m2 = m2  m3 = m3
    NumChunks = 6
    Mirrors = {m1, m2, m3}
    MirrorLists <- RemoteOrLocal
    NoMirror = NoMirror
    Protocol <- TwoHttp
    RangeLimit <- Ranged
    InitialRanges = 8
    InitialFiles <- SomeFiles
    Caches <- SomeCaches
    MaxTries = 3
    MaxFaults = 2
SPECIFICATION Spec
INVARIANTS FinishedIsValid RangesSurvive NothingTwice
PROPERTIES ProgressKept Decided
CHECK_DEADLOCK FALSE
