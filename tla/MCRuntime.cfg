\* Three callers of the breaker and of the pool; two modules, two workers and a request; two
\* incidents; one app and two notifications; one service account with one key.
SPECIFICATION RuntimeSpec
CONSTANTS
    c1 = c1
    c2 = c2
    c3 = c3
    k1 = k1
    k2 = k2
    w1 = w1
    w2 = w2
    r1 = r1
    r2 = r2
    a1 = a1
    Nothing = Nothing
    Callers = {c1, c2, c3}
    Threshold = 2
    OpenTimeout = 2
    Attempts = 2
    Prompt = FALSE
    AlertIncidents <- MCIncidents
    SeverityOf <- MCSeverityOf
    Alerts <- MCAlerts
    DefaultImmediate <- MCImmediate
    DefaultCooldown = 1
    DefaultDigestEvery = 1
    DigestBatch = 1
    DigestRetention = 0
    MaxFaults = 1
    Apps = {a1}
    StreamNotes = {1, 2}
    Announcers = {w1, w2}
    Buffer = 1
    MaxMarks = 1
    MaxFailures = 1
    SaReqs = {1, 2}
    NoticeWorkers = {1, 2}
    AccountIds = {1}
    KeyIds = {1}
    Tenants = {}
    Owners = {7}
    Actors <- MCActors
    MaxActiveKeys = 1
    ExpiryWarning = 1
    UnusedAfter = 1
    LongestLife = 2
    CountsMatched = FALSE
    MaxSaOps = 2
INVARIANT FlagHasTrial
PROPERTIES BreakerRecovers PoolServes StopsInOrder IncidentsTold StreamsTell KeysWatched
