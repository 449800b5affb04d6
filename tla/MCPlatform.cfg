\* Two calls of Hold, h1's refreshes get through and h2's may fail; two processes that
\* migrate; two databases; three Install calls; two people with two requests.
SPECIFICATION PlatformSpec
CONSTANTS
    h1 = h1
    h2 = h2
    Nobody = Nobody
    Holders = {h1, h2}
    Steady = {h1}
    TTL = 5
    Attempts = 2
    Ahead <- Even
    Skew = 0
    Slack = 1
    MaxClock = 9
    Procs = {p1, p2}
    Conns <- MCConns
    Versions = {1, 2, 3}
    Releases <- MCReleases
    MaxDeaths = 2
    DbNames = {"local", "shared"}
    AuditName = "local"
    MaxPools = 2
    MaxDepth = 3
    MaxWrites = 2
    MaxScopes = 2
    Options <- MCOptions
    Declared <- MCDeclared
    Permissions <- MCPermissions
    Sources <- MCSources
    Consumers <- MCConsumers
    CommandNames = {"db:prune", "migrate"}
    Disks <- MCDisks
    Callers <- MCCallers
    Prefix <- MCPrefix
    MaxCalls = 3
    Persons = {"ana", "iva"}
    Lists = {"cars"}
    ViewNames = {"new", "used", "mine"}
    ViewStates = {"s"}
    ViewIds <- MCViewIds
    MaxPerList = 1
    Patches <- MCPatches
    MaxSize = 2
    PersonalRequests = {r1, r2}
    MaxPersonalOps = 3
INVARIANTS Exclusion LossNoticed TransactionsWhole AssembledRight
PROPERTIES LeaseEndsRightly MigratesOnce PersonalKept
CHECK_DEADLOCK FALSE
