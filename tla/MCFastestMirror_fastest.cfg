CONSTANTS
    a1 = a1  a2 = a2  b1 = b1  c1 = c1  local = local
    Mirrors = {a1, a2, b1, c1, local}
    HostOf <- TheHosts
    LocalHosts = {"file"}
    InitialLists <- TwoHandles
    Offline = FALSE
    HasCache = TRUE
    Latencies <- Times
    MaxAge = 1
    RecordMaxAge = 2
    MaxTime = 2
    MaxCalls = 2
    MaxEvents = 1
SPECIFICATION Spec
INVARIANTS MirrorsKept BestFirst
PROPERTIES CachedIsRecent
CHECK_DEADLOCK FALSE
