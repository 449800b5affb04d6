\* Two requests in progress in every scene, alike; three administrative operations, four
\* writes to the incident log, two to the tree.
SPECIFICATION StoresSpec
CONSTANTS
    Levels <- MCLevels
    TenantLevel = "dealer"
    ParentOf <- MCParentOf
    Catalogue <- MCCatalogue
    Enabled = {}
    Procs = {"p1", "p2"}
    AdminProcs = {"p1"}
    Reqs = {r1, r2}
    Subjects <- MCSubjects
    Known <- MCSubjects
    Scopes <- MCScopes
    OutOfBounds = {}
    RoleIds = {1, 2}
    Drafts <- MCDrafts
    Predefined <- MCPredefined
    Computed = {}
    ViewRoles = "roles"
    ViewAccess = "bindings"
    ViewServiceAccountAccess = "service"
    ManageRoles = "roles"
    DeleteRoles = "roles"
    ManageBindings = "bindings"
    ManageServiceAccountBindings = "service"
    StartRoles <- MCStartRoles
    StartBindings <- MCStartBindings
    SeedBindings <- MCSeedBindings
    MaxOps = 3
    MaxBindings = 5
    IncReqs = {r1, r2}
    Fingerprints = {"f"}
    People = {1}
    StaffIds = {9}
    Updates <- MCUpdates
    MaxAttempts = 2
    Retain = 0
    MaxWrites = 4
    MaxIncTime = 2
    ChReqs = {r1, r2}
    ItemIds = {1, 2, 3}
    MaxChWrites = 2
SYMMETRY Symmetry
INVARIANTS CacheFresh IncidentsKept
PROPERTIES AccessKept TreesKept
CHECK_DEADLOCK FALSE
