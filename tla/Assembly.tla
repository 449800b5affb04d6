------------------------------ MODULE Assembly ------------------------------
(***************************************************************************)
(* gocore: features install themselves on one App, in any order, and then  *)
(* the App runs once: as the server, or as one command.  Installing never  *)
(* stops at a mistake; it notes a problem.  Check looks the whole App over *)
(* and only an App without problems is served.  A route is guarded by what *)
(* the App knows when it is mounted, not when it was installed.            *)
(***************************************************************************)
EXTENDS RouteRules

CONSTANTS Options,      \* given to New: [authenticate, authorizer, offline, registry, autoMigrate]
          Declared,     \* the routes some feature declares
          Permissions,  \* the ids of the application's one catalogue
          Sources,      \* schemas: [conn, files, models]
          Consumers,    \* event consumers: [name, event, payload]
          CommandNames, \* names features register commands under
          Disks,        \* disks: [name, public: a path or {}]
          Callers,      \* who sends requests: [kind, holds]
          Prefix,       \* the API prefix, a sequence of segments
          MaxCalls      \* bound: calls made while installing

ASSUME AssemblyAssumption == MaxCalls \in Nat

VARIABLES app,      \* the App's fields
          built,    \* what the engine serves: mounted routes with their chains
          phase,    \* "installing", "serving", "refused", "panicked", "done"
          closed,   \* the databases were closed
          reached   \* the last request that reached a route's own handler

assemblyVars == <<app, built, phase, closed, reached>>

\* New: the options decide.  An offline App opens no database.
New(o) ==
  [authenticate |-> o.authenticate, authorizer |-> o.authorizer,
   offline |-> o.offline, registry |-> IF o.offline THEN "none" ELSE o.registry,
   autoMigrate |-> o.autoMigrate,
   authenticatedBy |-> FALSE, authorizedBy |-> FALSE, routes |-> <<>>, catalogue |-> FALSE,
   laters |-> <<>>, problems |-> 0, migrations |-> <<>>, applied |-> {}, created |-> {}, tables |-> <<>>, consumers |-> <<>>,
   eventsUsed |-> FALSE, commands |-> {}, disks |-> {}, onStart |-> <<>>, started |-> FALSE,
   calls |-> 0]

AssemblyInit == /\ \E o \in Options : app = New(o)
                /\ built = {} /\ phase = "installing" /\ closed = FALSE /\ reached = {}

fail(a) == [a EXCEPT !.problems = @ + 1]
failIf(a, wrong) == IF wrong THEN fail(a) ELSE a

\* One call of a feature's Install.
Installs(a) == /\ phase = "installing" /\ app.calls < MaxCalls
               /\ app' = [a EXCEPT !.calls = @ + 1]
               /\ UNCHANGED <<built, phase, closed, reached>>

\* Routes, Root and RoutesWith only note the route.
install(a, spec) == [a EXCEPT !.routes = Append(@, spec)]
Routes == \E d \in Declared : Installs(install(app, d))

\* Authenticate replaces what an option gave; twice is a problem.
Authenticate == \E n \in {0, 1} :
  Installs([failIf(app, app.authenticatedBy) EXCEPT !.authenticatedBy = TRUE, !.authenticate = n])

Authorize == Installs([failIf(app, app.authorizedBy) EXCEPT !.authorizedBy = TRUE, !.authorizer = {"feature"}])

InstallPermissions == Installs([app EXCEPT !.catalogue = TRUE])

Later == Installs([app EXCEPT !.laters = Append(@, FALSE)])
Set == \E i \in DOMAIN app.laters : Installs([app EXCEPT !.laters[i] = TRUE])
Fail == Installs(fail(app))
OnStart == \E ok \in BOOLEAN : Installs([app EXCEPT !.onStart = Append(@, ok)])

\* Command: empty, two words, a flag, a built-in, no function or taken.
BadNames == {"", "two words", "-flag", "migrate", "help", "ts:generate", "no function"}
Command == \E n \in CommandNames :
  Installs(IF n \in BadNames \cup app.commands THEN fail(app) ELSE [app EXCEPT !.commands = @ \cup {n}])

\* Disks: a name once; a public disk serves its files at the site's root.
serveDisk(a, d) ==
  IF d.public = {} THEN a
  ELSE LET at == (CHOOSE p \in d.public : TRUE) \o <<CatchAll("key")>>
           serves(m) == [Public(Raw(d.name \o m, m, at)) EXCEPT !.root = TRUE]
       IN install(install(a, serves("GET")), serves("HEAD"))
InstallDisk == \E d \in Disks :
  Installs(IF d.name \in app.disks THEN fail(app) ELSE serveDisk([app EXCEPT !.disks = @ \cup {d.name}], d))

(************************** schemas and migrations **************************)

\* fromModels: with WithAutoMigrate on SQLite the tables come from the models.
hasConnection(a, c) == a.registry = "open" /\ c = "primary"
fromModels(a, src) == a.autoMigrate /\ src.models /\ hasConnection(a, src.conn)

\* migrator: offline, or sources without a database, is an error; sources made
\* from models are left to createFromModels.
byFiles(a) == SelectSeq(a.migrations, LAMBDA s : ~fromModels(a, s))
migratorFails(a) == a.offline \/ (a.migrations # <<>> /\ a.registry = "none")
upFails(a) == migratorFails(a) \/ \E i \in DOMAIN byFiles(a) : ~hasConnection(a, byFiles(a)[i].conn)

\* Migrate: the models once each, then the files oldest first; a source of an
\* unknown connection stops it before anything is run.
everySource(a) == {a.migrations[i] : i \in DOMAIN a.migrations}
createFromModels(a) ==
  LET due == {i \in DOMAIN a.migrations : fromModels(a, a.migrations[i]) /\ i \notin a.created}
  IN [a EXCEPT !.created = @ \cup due, !.tables = @ \o SetToSeq({a.migrations[i] : i \in due})]
Migrated(a) ==
  LET made == createFromModels(a)
  IN IF upFails(a) THEN made ELSE [made EXCEPT !.applied = @ \cup {byFiles(a)[i] : i \in DOMAIN byFiles(a)}]
migrateNow(a) == IF ~a.autoMigrate THEN a ELSE failIf(Migrated(a), upFails(a))

\* Schema, through collect: a source collected before is not collected again.

collect(a, src) ==
  IF \E i \in DOMAIN a.migrations : a.migrations[i].conn = src.conn /\ a.migrations[i].files = src.files
  THEN a ELSE migrateNow([a EXCEPT !.migrations = Append(@, src)])
InstallSchema == \E src \in Sources : Installs(collect(app, src))

\* Events needs a database; it brings its own schema.
EventSchema == [conn |-> "primary", files |-> "events", models |-> TRUE]
Events == \E c \in Consumers :
  Installs(IF app.registry = "none" /\ ~app.offline THEN fail(app)
           ELSE [collect(app, EventSchema) EXCEPT !.eventsUsed = TRUE, !.consumers = Append(@, c)])

pending(a) == {s \in everySource(a) : ~fromModels(a, s) /\ s \notin a.applied}

(********************************* checking *********************************)

path(spec) == (IF spec.root THEN <<>> ELSE Prefix) \o spec.path
key(spec) == <<spec.method, path(spec)>>

\* security: what the App knows now.
security(a) == [authenticate |-> a.authenticate, authorizer |-> a.authorizer]
\* mounted.mount: a route of RoutesWith has its own, with the App's authorizer
\* when it names none.
securityOf(a, spec) ==
  IF spec.own = {} THEN security(a)
  ELSE LET own == CHOOSE s \in spec.own : TRUE
       IN IF own.authorizer = {} THEN [own EXCEPT !.authorizer = a.authorizer] ELSE own

duplicate(a, i) == \E j \in 1..(i - 1) : key(a.routes[j]) = key(a.routes[i])
catalogued(a, p) == a.catalogue /\ p \in Permissions

\* The dry mount: routes that are no duplicates, in order, on a router of
\* their own.  A route that may not be mounted leaves the router as it was.
place(spec) == [method |-> spec.method, path |-> path(spec)]
onScratch(a) == {i \in DOMAIN a.routes : ~duplicate(a, i) /\ ~refusesToMount(securityOf(a, a.routes[i]), a.routes[i])}

dryMountFails(a, i) ==
  \/ refusesToMount(securityOf(a, a.routes[i]), a.routes[i])
  \/ ginRefuses({place(a.routes[j]) : j \in {k \in onScratch(a) : k < i}}, a.routes[i].method, path(a.routes[i]))

routeProblem(a, i) ==
  LET spec == a.routes[i]
  IN \/ duplicate(a, i)
     \/ ~DeclaresAccess(spec)
     \/ PathProblems(spec) # {}
     \/ \E n \in DOMAIN Needs(spec) : ~catalogued(a, Needs(spec)[n])
     \/ ~duplicate(a, i) /\ dryMountFails(a, i)

\* event.Problems: one consumer per name, one payload per event.
eventProblem(a) == \E i, j \in DOMAIN a.consumers :
  /\ i < j
  /\ \/ a.consumers[i].name = a.consumers[j].name
     \/ a.consumers[i].event = a.consumers[j].event /\ a.consumers[i].payload # a.consumers[j].payload

handled(a) == {a.routes[i] : i \in DOMAIN a.routes}
checked(a, extra) ==
  /\ a.problems = 0 /\ ~extra
  /\ \A i \in DOMAIN a.laters : a.laters[i]
  /\ Unhandled(handled(a), Declared) = {}
  /\ \A i \in DOMAIN a.routes : ~routeProblem(a, i)
  /\ ~eventProblem(a)

startFails(a) == \E i \in DOMAIN a.onStart : ~a.onStart[i]
pendingProblems(a) == a.registry = "open" /\ (upFails(a) \/ pending(a) # {})

(********************************* running **********************************)

\* What DefaultInfrastructure put on the engine before the features' routes.
Own(metrics) == {[method |-> "GET", path |-> <<Literal(n)>>] : n \in {"health", "ready"} \cup metrics}

\* Register mounts the routes in order; the router panics on one it refuses.
mountedOf(a) == {[spec |-> a.routes[i], chain |-> access(securityOf(a, a.routes[i]), a.routes[i])] : i \in DOMAIN a.routes}
panics(a, own) == \E i \in DOMAIN a.routes :
  ginRefuses(own \cup {place(a.routes[j]) : j \in 1..(i - 1)}, a.routes[i].method, path(a.routes[i]))

mount(own) ==
  IF panics(app, own) THEN phase' = "panicked" /\ UNCHANGED built
  ELSE phase' = "serving" /\ built' = mountedOf(app)

\* RunContext: nothing is served unless every check passes.
RunContext ==
  /\ phase = "installing"
  /\ IF app.offline THEN phase' = "refused" /\ UNCHANGED <<app, built, closed>>
     ELSE /\ app' = [app EXCEPT !.started = TRUE]
          /\ LET wrong == pendingProblems(app) \/ startFails(app)
             IN IF checked(app, wrong) THEN mount(Own({"metrics"})) /\ UNCHANGED closed
                ELSE phase' = "refused" /\ closed' = (app.registry = "open") /\ UNCHANGED built
  /\ UNCHANGED reached

\* Handler, for tests: checked like Run, but not for what is pending, and
\* without /metrics.
Handler == /\ phase = "installing"
           /\ IF checked(app, FALSE) THEN mount(Own({})) ELSE phase' = "refused" /\ UNCHANGED built
           /\ UNCHANGED <<app, closed, reached>>

\* RunCommand with a command: it runs once and the databases are closed.  Only
\* an application's own command and ts:generate refuse when problems were noted.
RunAppCommand ==
  /\ phase = "installing"
  /\ \E c \in {"migrate", "own"} :
       /\ c = "own" => app.commands # {}
       /\ app' = [(IF c = "migrate" THEN Migrated(app) ELSE app) EXCEPT !.started = TRUE]
       /\ phase' = IF (IF c = "migrate" THEN upFails(app) ELSE app.problems > 0) THEN "refused" ELSE "done"
  /\ closed' = (app.registry = "open")
  /\ UNCHANGED <<built, reached>>

\* A request passes the chain of the route it matches, or stops in it.
Request == /\ phase = "serving"
           /\ \E m \in built, c \in Callers :
                /\ reachesHandler(m.chain, c, IF app.catalogue THEN Permissions ELSE {})
                /\ reached' = {<<m.spec, c>>}
           /\ UNCHANGED <<app, built, phase, closed>>

AssemblyNext == \/ Routes \/ Authenticate \/ Authorize \/ InstallPermissions \/ Later \/ Set
                \/ Fail \/ OnStart \/ Command \/ InstallDisk \/ InstallSchema \/ Events
                \/ RunContext \/ Handler \/ RunAppCommand \/ Request
AssemblySpec == AssemblyInit /\ [][AssemblyNext]_assemblyVars

-----------------------------------------------------------------------------
\* A route's own handler runs only for callers its declaration admits, whatever
\* order the routes, the authentication, the authorizer and the catalogue were
\* installed in (App.Routes, Authenticate, Authorize; Security.access).
AccessAsDeclared ==
  \A r \in reached :
    LET spec == r[1]
        who == r[2]
    IN \/ spec.public
       \/ /\ who.kind # "nobody"
          /\ spec.personOnly => who.kind = "person"
          /\ spec.permission # "" => spec.permission \in who.holds
          /\ spec.anyOf # <<>> => \E i \in DOMAIN spec.anyOf : spec.anyOf[i] \in who.holds
          /\ \A i \in DOMAIN spec.allOf : spec.allOf[i] \in who.holds

\* What Check let through, Register can mount: the dry mount, which leaves
\* duplicates out, misses no path the router refuses, except the engine's own
\* (/health, /ready, /metrics), which it does not know.
CheckedMounts == phase = "panicked" => \E i \in DOMAIN app.routes : place(app.routes[i]) \in Own({"metrics"})

\* A feature's tables are made from its models once, though every later
\* Schema and Events call migrates again (App.collect, createFromModels).
CreatedOnce == \A i, j \in DOMAIN app.tables : app.tables[i] = app.tables[j] => i = j


\* In whatever order features install, a handler runs only for callers its route admits,
\* what Check let through can be mounted, and tables are made once (App.Routes, Check,
\* Register, collect).
AssembledRight == AccessAsDeclared /\ CheckedMounts /\ CreatedOnce
=============================================================================
