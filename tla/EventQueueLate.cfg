\* Handlers that outlive their lease: what "processed" still means.
SPECIFICATION LeaseSpec
CONSTANTS
    j1 = j1
    l1 = l1
    l2 = l2
    Events = {1}
    Consumers = {c1}
    Instances = {i1, i2}
    Subscribed <- MCSubscribed
    MaxAttempts = 2
    Backoff <- MCBackoff
    ClaimLease = 2
    BatchSize = 1
    Retention = 1
    DeadFor = 0
    MaxClock = 4
    Prompt = FALSE
    AuditEntries = {e1, e2, e3}
    AuditWorkers = {w1, w2}
    AuditBuffer = 2
    MaxSpans = 2
    Clients = {1, 2}
    BaseNames = {"a"}
    maxUniqueTries = 2
    MaxCalls = 3
    MaxCrashes = 1
SYMMETRY Symmetry
INVARIANTS ProcessedMeansFinished
CHECK_DEADLOCK FALSE
