SPECIFICATION Spec
CONSTANTS
    r1 = r1
    r2 = r2
    r3 = r3
    p1 = p1
    k1 = k1
    k2 = k2
    k3 = k3
    p = p
    q = q
    v = v
    secret = secret
    None = None
    Requests <- MCRequests
    Batch <- MCBatch
    Posts <- MCPosts
    Posted <- MCPosted
    TraceOf <- MCTraceOf
    Tokens = {"open"}
    Capacity = 2
    Redacted <- MCRedacted
    Oversized <- MCOversized
    Hash <- MCHash
    MaxProbe = 1
    MaxTries <- MCTries
    MaxFaults = 1
    MaxCrashes = 1
    Faults = {"shed", "sync", "blob", "scores", "read", "disk", "hangup", "body"}
INVARIANTS
    AckedIsStored StoredOnce ReferencesResolve NothingRawStored StrictRejectsOnlyAbsent
CHECK_DEADLOCK FALSE
