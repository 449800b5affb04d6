\* Two instances, one consumer: claims, stale offers, crashes and shutdowns; three audit
\* entries for a buffer of two; two callers at one name and its numbered neighbour, and a
\* process that may die once.  The dead letters' constants are given in the module.
SPECIFICATION MessagingSpec
CONSTANTS
    j1 = j1
    l1 = l1
    l2 = l2
    Events = {1}
    Consumers = {c1}
    Instances = {i1, i2}
    Subscribed <- MCSubscribed
    MaxAttempts = 2
    Backoff <- MCBackoff
    ClaimLease = 2
    BatchSize = 1
    Retention = 1
    DeadFor = 0
    MaxClock = 4
    Prompt = TRUE
    AuditEntries = {e1, e2, e3}
    AuditWorkers = {w1, w2}
    AuditBuffer = 2
    MaxSpans = 2
    Clients = {1, 2}
    BaseNames = {"a"}
    maxUniqueTries = 2
    MaxCalls = 3
    MaxCrashes = 1
INVARIANTS OneOwner AuditKept
    FormsAgree FilesGenerated ListsAgree ValuesComeBack RecordsTell MessagesTell RequestsAnswered FilesServed
SYMMETRY MessagingSymmetry
PROPERTIES FailuresNeverForgotten LettersHandled FilesAtomic
CHECK_DEADLOCK FALSE
