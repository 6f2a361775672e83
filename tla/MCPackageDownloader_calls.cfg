CONSTANTS
    NULL = NULL
    UrlLists <- TheUrlLists
    LocalUrls <- TheLocalUrls
    LostUrls = {"gone"}
    ListUrls = {"remotefile"}
    LocalLists <- TheLocalLists
    VarLists = {"old"}
    HandleFaults = {"parse", "network", "sort", "yum", "provided"}
    MaxSets = 1
    MaxCalls = 2
    MaxSignals = 1
    NumPackages = 2
    PackageKinds <- Kinds
    Files = {"absent", "other"}
    FailFastArgs = {TRUE, FALSE}
    PackageFaults = {}
SPECIFICATION Spec
INVARIANTS PreparedFromOptions ParsedListHasDescriptor PackagesReported AlreadyMeansVerified CheckMarksBadFiles
