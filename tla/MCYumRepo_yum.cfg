CONSTANTS
    NULL = NULL
    RecordsOf <- TheRecordsOf
    NoSum = {"updateinfo"}
    OddSum = {"other"}
    Plain = "primary"
    Zck = "primary_zck"
    TheOptions <- OptionSets
    Hashes = {1, 2}
    Faults = {"transfer", "garbage", "path", "abort", "crash"}
    MaxSets = 4
    MaxCalls = 4
SPECIFICATION Spec
INVARIANTS WantedDelivered AskedDelivered RepomdAuthentic ResultConsistent
