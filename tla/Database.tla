------------------------------ MODULE Database ------------------------------
(***************************************************************************)
(* database: the registry of connections, transactions carried in a        *)
(* context, and the writes of a repository; audit: an entry written        *)
(* through the transactor.  One request runs against it while              *)
(* connections are registered and closed.  A connection is known by the    *)
(* pool under it, so two names may stand for one; transactors and          *)
(* repositories keep the connection they were made with, whatever its name *)
(* comes to stand for.  The context's chain of transactions is the stack   *)
(* of the calls of WithinTransaction in progress.                          *)
(***************************************************************************)
EXTENDS Integers, Sequences, FiniteSets

CONSTANTS DbNames,     \* connection names
          AuditName,   \* the connection audit entries are written on
          MaxPools,    \* bound: pools opened
          MaxDepth,    \* bound: calls of WithinTransaction within one another
          MaxScopes,   \* bound: outermost calls of the request
          MaxWrites    \* bound: writes of the request

ASSUME DatabaseAccessAssumption == AuditName \in DbNames /\ MaxPools \in Nat /\ MaxDepth \in Nat

VARIABLES connections, \* connections[n]: the pool name n stands for, or {};
                       \* 0 is a connection with no *sql.DB under it
          primaryName, \* {} or {the primary's name}
          openPools,   \* pools not closed
          opened,      \* pools opened so far
          entries,     \* the calls of WithinTransaction in progress, outermost first
          written,     \* every write made: [pool, scope, n]
          durable,     \* the writes the databases keep
          scopes,      \* how many outermost calls there were
          answered     \* answered[s]: what scope s returned to its caller

dbVars == <<connections, primaryName, openPools, opened, entries, written, durable, scopes, answered>>
registryVars == <<connections, primaryName, openPools, opened>>
txVars == <<entries, written, durable, scopes, answered>>

DbInit == /\ connections = [n \in DbNames |-> {}] /\ primaryName = {} /\ openPools = {} /\ opened = 0
          /\ entries = <<>> /\ written = {} /\ durable = {} /\ scopes = 0 /\ answered = <<>>

\* Registry.Get, Primary: the pool of a name; Has is that there is one.
Get(n) == connections[n]
Primary == UNION {Get(n) : n \in primaryName}
FirstIsPrimary(n) == primaryName' = IF primaryName = {} THEN {n} ELSE primaryName

---------------------------------------------------------------------------
\* Register: an invalid config or a pool that does not open changes nothing,
\* and so does a name already registered.
Register(n) ==
    /\ Get(n) = {}
    /\ opened < MaxPools
    /\ opened' = opened + 1
    /\ openPools' = openPools \cup {opened'}
    /\ connections' = [connections EXCEPT ![n] = {opened'}]
    /\ FirstIsPrimary(n)
    /\ UNCHANGED txVars

\* AddConnection: whatever the name stood for, it now stands for a connection
\* built elsewhere: over a pool known already, one not seen before, or none.
AddConnection(n, pool) ==
    /\ pool <= opened + 1
    /\ opened' = IF pool > opened THEN pool ELSE opened
    /\ openPools' = openPools \cup {p \in {pool} : p > opened}
    /\ connections' = [connections EXCEPT ![n] = {pool}]
    /\ FirstIsPrimary(n)
    /\ UNCHANGED txVars

\* CloseAll: a name whose connection has no pool to close stays; the primary's
\* name stays too.
CloseAll ==
    LET stuck == {n \in DbNames : connections[n] = {0}}
    IN /\ openPools' = openPools \ UNION {connections[n] : n \in DbNames}
       /\ connections' = [n \in DbNames |-> IF n \in stuck THEN connections[n] ELSE {}]
       /\ UNCHANGED <<primaryName, opened, txVars>>

---------------------------------------------------------------------------
\* find, TxFor: the innermost open transaction of a pool.  A call that joined
\* one has no transaction of its own.
TxFor(pool) == {i \in 1..Len(entries) : entries[i].own /\ entries[i].pool = pool
                                        /\ \A j \in i+1..Len(entries) : ~(entries[j].own /\ entries[j].pool = pool)}
InTransaction == \E i \in 1..Len(entries) : entries[i].own

\* The outermost call in progress on a pool, 0 when there is none: the unit of
\* work a write there belongs to.
ScopeOf(pool) ==
    LET calls == {i \in 1..Len(entries) : entries[i].pool = pool}
    IN IF calls = {} THEN 0 ELSE entries[CHOOSE i \in calls : \A j \in calls : i <= j].scope

\* A pool that was closed begins nothing and runs no statement of its own; the
\* transactions in progress on it go on.
Usable(pool) == pool \in openPools \/ TxFor(pool) # {}

\* WithinTransaction, to the start of fn: join the pool's transaction, or
\* begin one (Begin failing changes nothing).
NestedBeginMutant(pool) ==
    /\ Len(entries) < MaxDepth /\ (scopes < MaxScopes \/ ScopeOf(pool) # 0) /\ Usable(pool)
    /\ scopes' = scopes + (IF ScopeOf(pool) = 0 THEN 1 ELSE 0)
    /\ entries' = Append(entries, [pool |-> pool, own |-> TRUE, writes |-> {},
                                   scope |-> IF ScopeOf(pool) = 0 THEN scopes' ELSE ScopeOf(pool)])
    /\ answered' = IF ScopeOf(pool) = 0 THEN Append(answered, "running") ELSE answered
    /\ UNCHANGED <<written, durable, registryVars>>
WithinTransaction(pool) ==
    /\ Len(entries) < MaxDepth /\ (scopes < MaxScopes \/ ScopeOf(pool) # 0) /\ Usable(pool)
    /\ scopes' = scopes + (IF ScopeOf(pool) = 0 THEN 1 ELSE 0)
    /\ entries' = Append(entries, [pool |-> pool, own |-> TxFor(pool) = {}, writes |-> {},
                                   scope |-> IF ScopeOf(pool) = 0 THEN scopes' ELSE ScopeOf(pool)])
    /\ answered' = IF ScopeOf(pool) = 0 THEN Append(answered, "running") ELSE answered
    /\ UNCHANGED <<written, durable, registryVars>>

Row(pool) == [pool |-> pool, scope |-> ScopeOf(pool), n |-> Cardinality(written) + 1]

\* BaseRepository.DB(ctx).Create and the like: in the pool's transaction, or on
\* its own.
DB(pool) ==
    /\ Cardinality(written) < MaxWrites /\ Usable(pool)
    /\ written' = written \cup {Row(pool)}
    /\ IF TxFor(pool) = {}
       THEN durable' = durable \cup {Row(pool)} /\ UNCHANGED entries
       ELSE /\ entries' = [i \in DOMAIN entries |->
                             IF i \in TxFor(pool) THEN [entries[i] EXCEPT !.writes = @ \cup {Row(pool)}] ELSE entries[i]]
            /\ UNCHANGED durable
    /\ UNCHANGED <<scopes, answered, registryVars>>

\* transactorRepository.Write: the entry joins the transaction of the audit
\* connection, or commits in one of its own.
AuditWrite == \E pool \in Get(AuditName) : DB(pool)

\* PlainRepository.DB: a write that commits on its own, outside any scope.
PlainDB(pool) ==
    /\ Cardinality(written) < MaxWrites /\ pool \in openPools
    /\ LET row == [Row(pool) EXCEPT !.scope = 0]
       IN written' = written \cup {row} /\ durable' = durable \cup {row}
    /\ UNCHANGED <<entries, scopes, answered, registryVars>>

---------------------------------------------------------------------------
Innermost == entries[Len(entries)]
Answer(how) == answered' = IF Innermost.own /\ answered[Innermost.scope] = "running" THEN [answered EXCEPT ![Innermost.scope] = how] ELSE answered

\* fn returned nil: the call that began the transaction commits it, which may
\* fail, and then nobody knows whether the database kept it.
ReturnNil ==
    /\ entries # <<>>
    /\ entries' = SubSeq(entries, 1, Len(entries) - 1)
    /\ \/ durable' = durable \cup Innermost.writes /\ Answer("nil")
       \/ Innermost.own /\ durable' \in {durable, durable \cup Innermost.writes} /\ Answer("commit failed")
    /\ UNCHANGED <<written, scopes, registryVars>>

\* fn returned an error: the call that began it rolls back; one that joined
\* leaves that to the caller it returns to, which may carry on.
ReturnError ==
    /\ entries # <<>>
    /\ entries' = SubSeq(entries, 1, Len(entries) - 1)
    /\ Answer("error")
    /\ UNCHANGED <<written, durable, scopes, registryVars>>

\* fn panicked: every call in progress rolls back and panics in turn.
Panics ==
    /\ entries # <<>>
    /\ entries' = <<>>
    /\ answered' = [s \in DOMAIN answered |-> IF answered[s] = "running" THEN "error" ELSE answered[s]]
    /\ UNCHANGED <<written, durable, scopes, registryVars>>

DbNext ==
    \/ \E n \in DbNames : Register(n) \/ \E pool \in 0..MaxPools : AddConnection(n, pool)
    \/ \E pool \in 1..MaxPools : WithinTransaction(pool) \/ DB(pool) \/ PlainDB(pool)
    \/ CloseAll \/ AuditWrite \/ ReturnNil \/ ReturnError \/ Panics

DbSpec == DbInit /\ [][DbNext]_dbVars

---------------------------------------------------------------------------
(* What one outermost WithinTransaction writes on a connection, through      *)
(* whatever repositories, names and inner calls, and while connections are   *)
(* renamed or closed under it, is kept as a whole or not at all; nil means   *)
(* kept, and an error other than a failed commit means not.  A change and    *)
(* its audit entry on the same connection stand or fall together.            *)
TransactionsWhole ==
    \A w \in written : w.scope # 0 =>
        /\ \A v \in written : v.scope = w.scope => (v \in durable <=> w \in durable)
        /\ answered[w.scope] = "nil" => w \in durable
        /\ answered[w.scope] \in {"running", "error"} => w \notin durable

-----------------------------------------------------------------------------
(***************************************************************************)
(* database/migrate and the commands of gocore that drive it.  A release   *)
(* of the application knows the migration files of its sources; processes  *)
(* of any release run "migrate", "migrate mark-applied" or serve, against  *)
(* the same databases and at the same time.  Each database has its own     *)
(* version table.  goose (external) takes a table lock per database,       *)
(* reads the versions under it and runs the missing files oldest first;    *)
(* MySQL commits DDL as it goes, so a run that fails or dies between a     *)
(* file's statements and its version row leaves them run, in part or       *)
(* wholly, and not recorded.                                               *)
(***************************************************************************)

CONSTANTS Procs,       \* processes of the application
          Conns,       \* the connections, a sequence in name order
          Versions,    \* migration versions
          Releases,    \* Releases[n]: the sources, each [conn, version, file]
          MaxDeaths    \* bound: how many runs die part way

ASSUME MigrationsAssumption == /\ Versions \subseteq Nat
                               /\ MaxDeaths \in Nat

VARIABLES recorded,  \* recorded[c][v]: rows of version v in c's version table
          runs,      \* runs[c][v]: how often statements of the file ran on c
          broken,    \* broken[c][v]: runs of the file that ended before its row
          locked,    \* locked[c]: the process holding goose's lock on c
          marked,    \* marked[c]: versions an operator recorded by hand
          deaths,
          migrators  \* migrators[p]: what process p is doing

migrateVars == <<recorded, runs, broken, locked, marked, deaths, migrators>>

ConnNames == {Conns[i] : i \in 1..Len(Conns)}
Zeros == [c \in ConnNames |-> [v \in Versions |-> 0]]
Resting == [at |-> "idle", release |-> 1, conn |-> 1, pending |-> {}, seen |-> {}]

MigrationsInit == /\ recorded = Zeros /\ runs = Zeros /\ broken = Zeros
                  /\ locked = [c \in ConnNames |-> {}]
                  /\ marked = [c \in ConnNames |-> {}]
                  /\ deaths = 0
                  /\ migrators = [p \in Procs |-> Resting]

Is(p, s) == migrators[p].at = s
Proceeding(p, change) == migrators' = [migrators EXCEPT ![p] = change]

\* files: every source's files for one connection, merged; two with the same
\* version stop the run.
files(n, c) == {s \in Releases[n] : s.conn = c}
clashes(n, c) == \E s, t \in files(n, c) : s # t /\ s.version = t.version
versionsOf(n, c) == {s.version : s \in files(n, c)}

\* connections: those some source has files for, in name order.
connectionsOf(n) == SelectSeq(Conns, LAMBDA c : files(n, c) # {})

here(p) == connectionsOf(migrators[p].release)[migrators[p].conn]
missing(n, c) == {v \in versionsOf(n, c) : recorded[c][v] = 0}
lowest(S) == CHOOSE v \in S : \A w \in S : v <= w

\* RunCommand: a process does one command.
RunCommand(p) == /\ Is(p, "idle")
                 /\ \E n \in 1..Len(Releases), s \in {"up", "status", "mark"} :
                      Proceeding(p, [migrators[p] EXCEPT !.at = s, !.release = n])
                 /\ UNCHANGED <<recorded, runs, broken, locked, marked, deaths>>

\* each: on to the next connection of the release, or to what follows the last.
onward(p, last) == IF migrators[p].conn < Len(connectionsOf(migrators[p].release))
                   THEN [migrators[p] EXCEPT !.conn = @ + 1, !.at = IF last = "serving" THEN "status" ELSE "up"]
                   ELSE [migrators[p] EXCEPT !.at = last]

\* Status, for Pending: the versions that are not recorded on the connection.
Status(p) ==
  LET n == migrators[p].release
      left == migrators[p].pending \cup missing(n, here(p))
      next == onward(p, "serving")
  IN /\ Is(p, "status")
     /\ IF clashes(n, here(p)) THEN Proceeding(p, [migrators[p] EXCEPT !.at = "refused"])
        ELSE Proceeding(p, [next EXCEPT !.pending = left,
                                   !.at = IF @ = "serving" /\ left # {} THEN "refused" ELSE @])
     /\ UNCHANGED <<recorded, runs, broken, locked, marked, deaths>>

NoLockMutant(p) ==
  LET n == migrators[p].release
  IN /\ Is(p, "up")
     /\ Proceeding(p, [migrators[p] EXCEPT !.at = "running", !.pending = missing(n, here(p))])
     /\ UNCHANGED <<recorded, runs, broken, locked, marked, deaths>>

\* Up on one connection: goose takes its lock, then reads what is missing.
Up(p) ==
  LET n == migrators[p].release
  IN /\ Is(p, "up")
     /\ \/ /\ clashes(n, here(p))
           /\ Proceeding(p, [migrators[p] EXCEPT !.at = "failed"])
           /\ UNCHANGED locked
        \/ /\ ~clashes(n, here(p))
           /\ locked[here(p)] = {}
           /\ locked' = [locked EXCEPT ![here(p)] = {p}]
           /\ Proceeding(p, [migrators[p] EXCEPT !.at = "running", !.pending = missing(n, here(p))])
     /\ UNCHANGED <<recorded, runs, broken, marked, deaths>>

\* The statements of the oldest missing file run.
Executes(p) == /\ Is(p, "running") /\ migrators[p].pending # {}
               /\ LET v == lowest(migrators[p].pending)
                  IN runs' = [runs EXCEPT ![here(p)][v] = @ + 1]
               /\ Proceeding(p, [migrators[p] EXCEPT !.at = "recording"])
               /\ UNCHANGED <<recorded, broken, locked, marked, deaths>>

\* The version row of the file that ran.
Records(p) == /\ Is(p, "recording")
              /\ LET v == lowest(migrators[p].pending)
                 IN /\ recorded' = [recorded EXCEPT ![here(p)][v] = @ + 1]
                    /\ Proceeding(p, [migrators[p] EXCEPT !.at = "running", !.pending = @ \ {v}])
              /\ UNCHANGED <<runs, broken, locked, marked, deaths>>

\* Nothing is missing any more: the lock is given back.
UpToDate(p) == /\ Is(p, "running") /\ migrators[p].pending = {}
               /\ locked' = [locked EXCEPT ![here(p)] = {}]
               /\ Proceeding(p, onward(p, "migrated"))
               /\ UNCHANGED <<recorded, runs, broken, marked, deaths>>

\* A statement of the file fails: Up stops at the first failure.  SQLite rolls
\* the file back; MySQL keeps the statements that ran before it.
FailsAt(p) == /\ Is(p, "running") /\ migrators[p].pending # {}
              /\ locked' = [locked EXCEPT ![here(p)] = {}]
              /\ Proceeding(p, [migrators[p] EXCEPT !.at = "failed"])
              /\ \/ UNCHANGED <<runs, broken>>
                 \/ LET v == lowest(migrators[p].pending)
                    IN /\ runs' = [runs EXCEPT ![here(p)][v] = @ + 1]
                       /\ broken' = [broken EXCEPT ![here(p)][v] = @ + 1]
              /\ UNCHANGED <<recorded, marked, deaths>>

\* The process dies; goose's lock is a lease that ends.  Died while recording,
\* the file ran and has no row.
Dies(p) == /\ migrators[p].at \in {"running", "recording"}
           /\ deaths < MaxDeaths
           /\ deaths' = deaths + 1
           /\ broken' = IF Is(p, "recording")
                        THEN [broken EXCEPT ![here(p)][lowest(migrators[p].pending)] = @ + 1]
                        ELSE broken
           /\ locked' = [locked EXCEPT ![here(p)] = {}]
           /\ Proceeding(p, [migrators[p] EXCEPT !.at = "dead"])
           /\ UNCHANGED <<recorded, runs, marked>>

\* MarkApplied, first half: the version must be a file of the connection, and
\* what is recorded already is read, without goose's lock.
MarkApplied(p) ==
  /\ Is(p, "mark")
  /\ \E i \in 1..Len(connectionsOf(migrators[p].release)) :
       LET c == connectionsOf(migrators[p].release)[i]
           n == migrators[p].release
       IN \E v \in Versions :
            IF clashes(n, c) \/ v \notin versionsOf(n, c)
            THEN Proceeding(p, [migrators[p] EXCEPT !.at = "failed"])
            ELSE Proceeding(p, [migrators[p] EXCEPT !.at = "marking", !.conn = i, !.pending = {v},
                                               !.seen = versionsOf(n, c) \ missing(n, c)])
  /\ UNCHANGED <<recorded, runs, broken, locked, marked, deaths>>

\* MarkApplied, second half: one transaction inserts what was not recorded.
MarksRows(p) ==
  /\ Is(p, "marking")
  /\ LET new == migrators[p].pending \ migrators[p].seen
     IN /\ recorded' = [recorded EXCEPT ![here(p)] = [v \in Versions |-> IF v \in new THEN @[v] + 1 ELSE @[v]]]
        /\ marked' = [marked EXCEPT ![here(p)] = @ \cup new]
  /\ Proceeding(p, [migrators[p] EXCEPT !.at = "migrated"])
  /\ UNCHANGED <<runs, broken, locked, deaths>>

MigrationsNext ==
  \E p \in Procs : \/ RunCommand(p) \/ Status(p) \/ Up(p) \/ Executes(p) \/ Records(p)
                   \/ UpToDate(p) \/ FailsAt(p) \/ Dies(p) \/ MarkApplied(p) \/ MarksRows(p)

MigrationsSpec == MigrationsInit /\ [][MigrationsNext]_migrateVars

-----------------------------------------------------------------------------
\* A file's statements run on a database a second time only after a run of it
\* failed or died before its row: "two deploys, or two instances migrating at
\* start, wait for each other".
RunOnce == \A c \in ConnNames, v \in Versions : runs[c][v] <= 1 + broken[c][v]

\* A process that serves has every migration of its own release recorded on
\* every connection, also the ones older than the newest applied.
ServesMigrated ==
  \A p \in Procs : Is(p, "serving") =>
     \A c \in ConnNames : \A v \in versionsOf(migrators[p].release, c) : recorded[c][v] > 0

\* A file runs only when every older file of the release is recorded on that
\* database: a failing one stops the run.
OlderFirst ==
  [][\A p \in Procs : (Is(p, "running") /\ migrators'[p].at = "recording") =>
       \A v \in versionsOf(migrators[p].release, here(p)) :
          v < lowest(migrators[p].pending) => recorded[here(p)][v] > 0]_migrateVars

\* However deploys race, die and mark versions by hand, a file's statements run again only
\* after a run of it failed or died before its row, a file runs only after every older one, and a
\* process that serves has every migration of its release (Migrator.Up, Pending, mark-applied).
MigratesOnce == [](RunOnce /\ ServesMigrated) /\ OlderFirst

=============================================================================
