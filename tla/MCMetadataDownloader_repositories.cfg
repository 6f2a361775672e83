CONSTANTS
    NumTargets = 2
    h1 = h1  h2 = h2
    Handles = {h1, h2}
    Configs <- TheConfigs
    AllRecords = {"primary", "other"}
    Faults = {"io", "parse", "path", "fatal", "callback"}
    Asserted = {TRUE, FALSE}
    MaxCalls = 2
SPECIFICATION Spec
SYMMETRY HandlesAlike
INVARIANTS EndReportedOnce NoErrorMeansComplete CallbacksRestored TriesScoped
