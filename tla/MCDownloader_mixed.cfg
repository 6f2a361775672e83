SPECIFICATION Spec
CONSTANTS
    h1 = h1  h2 = h2  m1 = m1  m2 = m2
    NumTargets = 5
    Mirrors = {m1, m2}
    NoMirror = NoMirror
    Handles = {h1, h2}
    HandleOf <- MixedHandles
    UrlKind <- MixedKinds
    MirrorList <- TwoMirrors
    Protocol <- FirstIsFile
    OfflineHandles = {h2}
    MaxParallel = 2
    MaxPerMirror = 2
    MaxMirrorTries = 0
    AllowedFailures = 2
    AdaptiveSorting = TRUE
    FailFastArgs = {TRUE, FALSE}
    Outcomes = {"ok", "error", "serious", "fatal", "cb_error"}
    MirrorFailureCb = {"OK", "ABORT", "ERROR"}
    EndCb = {"OK", "ERROR"}
    Faults = {"io", "curlm", "interrupt"}
INVARIANTS ReportedOnce UrlTryBudget
PROPERTIES ImplementsDownloadSpec
