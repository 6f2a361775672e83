SPECIFICATION FairSpec
CONSTANTS
    h1 = h1  h2 = h2  m1 = m1  m2 = m2
    NumTargets = 4
    Mirrors = {m1, m2}
    NoMirror = NoMirror
    Handles = {h1}
    HandleOf <- OneHandle
    UrlKind <- AllMirrors
    MirrorList <- TwoMirrors
    Protocol <- AllHttp
    OfflineHandles = {}
    MaxParallel = 2
    MaxPerMirror = 2
    MaxMirrorTries = 2
    AllowedFailures = 2
    AdaptiveSorting = TRUE
    FailFastArgs = {TRUE, FALSE}
    Outcomes = {"ok", "error", "serious"}
    MirrorFailureCb = {"OK"}
    EndCb = {"OK"}
    Faults = {}
INVARIANTS TypeOK Bookkeeping MirrorLimit NothingStranded FailuresAreContained MirrorTryBudget
PROPERTIES BadMirrorSkipped Termination
