# go-core, specified, model-checked and proved

go-core is a framework of Go packages for business applications: an application is assembled from features, serves
HTTP, keeps its data in MySQL through GORM, and comes with accounts, access control, an event queue, notifications,
an incident log and more. This directory holds a TLA+ model of it. The modules are written from the code under
`src/`; `PROJECT.json` maps every definition to the lines it models, and lists the components, the runs, the hazards
each property answers, the findings and the theorems.

Run a model from this directory with `tlc -workers 2 -config MCStores.cfg MCStores`, and check the proofs of a module
with `tlapm AuthzProofs.tla`.

## 1. How the models are laid out

* **State machines.** A component with state is a module of its own: variables for its tables, its memory and what
  each of its requests or goroutines holds between two steps, and one action per statement, critical section or
  channel operation. A step is atomic where the code is: one SQL statement, one transaction that locks what it reads,
  one section under a mutex. Everything else may come between two steps.
* **Rule modules.** Pure code (validation, rounding, paging, decisions, templates) is operators without state.
  `MCMessaging` picks sample inputs and compares each operator with a reference definition of what it should compute.
* **MC modules** put components that share no state into one run. A variable `scene` names the component a behaviour
  is about and the others keep their initial values, so the state space is the sum of the parts, not their product.
* **Proof modules** extend the components they are about.
* Some modules hold several packages that are used together: `Database` has connections, transactions and
  migrations; `Inputs` has what a request brings (credentials, fields, body and files) and the generated TypeScript;
  `Handlers` has the HTTP surface and the merge of preferences; `Messages`, `Values`, `Listing` and `Declarations`
  likewise.

Inputs, rows and messages are model values or members of small sets; texts, formats and SQL appear only where a
property is about them. Statements may fail where the code handles an error, a bounded number of times (`MaxFaults`,
`MaxFailures`). Every bound is a constant of its module (`MaxClock`, `MaxOps`, ...) and stands in a guard.

## 2. The modules

| Module | Models | State and actions |
|---|---|---|
| EventQueue | `event/`: outbox, poller, lanes, dead letters, housekeeping | `outbox` and `att` are the tables, `offer`, `lane` and `sweep` the memory of each instance. `Poll`, `TakeOffer`, `Lease`, `HandlerReturns`, `Finish` follow a delivery; `Retry` and the four steps of `Sweep` run beside it; instances shut down, crash and start |
| LeaseLock | `lock/` and its store | `row` is the key; `run` and `beat` are the main flow and the heartbeat of each `Hold`; statements fail before or after their commit; each holder reads a clock `Ahead` of the slowest |
| CircuitBreaker | `httpclient`: breaker around retry | the breaker's fields and each caller's request; the sections of `Execute` and the deferred one of a trial are separate |
| StoragePool | `storage/pool` | where each connection is; `Get`, `Put`, `Close` by their mutex sections and channel operations |
| AuditQueue | `audit/async.go`, traced statements | entries, the channel, the drain goroutines, the `WaitGroup`; `Shutdown` closes, waits or times out |
| FileStore, AtomicFiles | `storage/local`, `storage/memory` under `Files` | temporary files, links and renames step by step, crashes between any two; `AtomicFiles` is what a driver promises, and `FileStore` is shown to implement it |
| Retention | `retention/` | rules, rows and any number of `db:prune` commands, each statement on its own |
| Database | `database/`, `database/migrate`, `gocore/migrations.go`, `audit` through the transactor | the registry, the stack of nested `WithinTransaction` calls, what is written and what is durable; processes of several releases that migrate, mark versions and serve |
| RequestGuards, OncePerKey | the chain `gocore/builder.go` installs: recovery, errors, idempotency, limiters | requests, the store's entries, the limiters' buckets and a clock that moves between reading the time and taking the mutex. `OncePerKey` is what an idempotency key promises |
| SignIn | `identity/account`, `identity/gormstore`: sign-in, sessions, passwords, locks | columns of accounts and sessions; a request goes statement by statement through `Continue`; `untold` are tokens that stopped working and whose holder has not heard |
| AccountAdmin | creating and changing accounts, one's own details | the rows, the history, and per request what was read and what form is posted |
| EmailChange | `codes.go`, `reauth.go`, the e-mail change of `profile.go` | codes, the re-confirmation counter, addresses; every request by its statements |
| Authz, AuthzRules | `authz/`, its store and cache, `access/` | `AuthzRules` has the decisions; `Authz` has the rows, each process's cache and epochs, loads query by query and changes in three moments: check, write, evict |
| Incident, IncidentAlerts | `incident/` | transactions that read a snapshot and then write, lost races and retries; alerts, cooldowns and digests over at-least-once delivery |
| Characteristics | `characteristics/core`, its store | a tree of two levels behind a snapshot loaded level by level |
| ServiceAccounts | `identity/serviceaccount` | accounts and keys, changes as a read and a write, authentication, the daily notices of several processes |
| PersonalStores | `identity/preferences`, `savedview` | objects patched by read, merge and write; views found, counted and written in separate statements |
| Notification, LiveStream | `notification/` | `Notification`: deliveries, claims, sends, devices, the sweep. `LiveStream`: the hub's bounded subscriptions and the streams |
| Lifecycle | `gocore/lifecycle.go`, `server.go`, `worker/manager.go` | `RunContext` from boot to exit with modules, workers, requests and timers |
| Assembly, RouteRules | `gocore` App, `route/` | every `Install` call in any order, then `Check`, mount and serve; `RouteRules` is what a declaration says |
| Handlers | `identity/http` and the other handlers, `identity/preferences/mergepatch.go` | the routes, each handler's checks and calls in order, and the merge of preferences |
| Inputs | `internal/binders`, `validation`, `go2ts`, `identity/http/authenticate.go` and `cookies.go`, `web/`, `storage/files.go` and `disk.go` | which field a key fills, what a rule refuses, the schema a browser is given, stale files; who a request is by; uploads, body limits, keys and names of files |
| Listing | `datatable`, `pagination`, the users' lists | searching, ordering, cutting into pages, views and their counts |
| Values | `money`, `database/types`, audit entries | rounding and splitting with 64-bit width, columns and JSON, masking and differences |
| Messages | notification settings, web push, `mail` | recipients, quiet hours, sizes, the talk with the relay |
| Declarations | `env`, `i18n`, `navigation`, the catalogue, descriptions of characteristics | what an application declares and which of it is refused |

Components compose where they meet: `Lifecycle` has the application and the worker manager, `EmailChange` the codes,
the re-confirmation and the profile, `RequestGuards` the whole chain in front of a handler, `Assembly` the App with the
rules of its routes, `Database` the audit entry inside the transaction it belongs to, `Authz` the administration, the
engine and the caches of several processes over one store.

## 3. The runs

Every passing run finishes without an error. A violation run states what a comment or a doc of the repository promises,
and TLC finds a behaviour of the code that breaks it. Properties marked * are also proved (section 5).

| Run | Module, configuration | Properties |
|---|---|---|
| `messaging` | MCMessaging, MCMessaging.cfg | `OneOwner`*, `FailuresNeverForgotten`*, `LettersHandled`, `AuditKept`*, `FilesAtomic`*, and of the pure functions `FormsAgree`, `FilesGenerated`, `ListsAgree`, `ValuesComeBack`, `RecordsTell`, `MessagesTell`, `RequestsAnswered`, `FilesServed` |
| `platform` | MCPlatform, MCPlatform.cfg | `Exclusion`*, `LossNoticed`*, `LeaseEndsRightly`*, `TransactionsWhole`*, `MigratesOnce`, `AssembledRight`, `PersonalKept` |
| `runtime` | MCRuntime, MCRuntime.cfg | `FlagHasTrial`*, `BreakerRecovers`, `PoolServes`, `StopsInOrder`, `IncidentsTold`, `StreamsTell`, `KeysWatched` |
| `stores` | MCStores, MCStores.cfg | `CacheFresh`*, `AccessKept`, `IncidentsKept`, `TreesKept` |
| `signin` | MCSignIn, SignIn.cfg | `SessionsHold`*, `LockKept`*, `AccountsTold`* |
| `email_change` | EmailChange, EmailChange.cfg | `AddressChanged`* |
| `devices` | MCDevices, MCDevices.cfg | `PushedOnce`, `GuardsHold`*, `HandledOnce`*, `BacklogCleared`* |
| `delivery` | MCDevices, NotificationDelivery.cfg | `DeliveriesKept` |
| `event_late_finish` | MCMessaging, EventQueueLate.cfg | violated: `ProcessedMeansFinished` |
| `notice_removal` | MCDevices, NotificationRemoval.cfg | violated: `OthersLeftAlone` |
| `service_account_stays` | MCRuntime, MCServiceAccountsStays.cfg | violated: `DeactivatedStays` |
| `request_replay` | MCDevices, MCRequestReplay.cfg | violated: `AnsweredAlike` |

What the properties say, and of what code:

* **Once, and not lost.** `OneOwner`: no two lanes of a consumer work on one event while both leases run.
  `FailuresNeverForgotten`: a count of failures falls only by a retry or a deletion. `LettersHandled`: an event is
  processed exactly when every consumer has finished it, whichever finish together, a pruned one was handled or
  expired, and a dead letter ends only by a retry or expiry. `AuditKept`: an entry that was accepted is written,
  reported or held by exactly one place, and a shutdown without an error leaves none. `PushedOnce`, `DeliveriesKept`: a
  push is sent once however many workers run (a send that was accepted and whose answer was lost is retried, and may
  arrive twice), and every delivery ends. `HandledOnce`: `RequestGuards` implements `OncePerKey`. `MigratesOnce`: a
  file runs again only after a run of it died before its row. `IncidentsTold`: an incident is told of once, plus once
  for each delivery of its own event that was repeated, however often its digest was.
* **As if at one moment.** `FilesAtomic`: `FileStore` implements `AtomicFiles`, and a list names only what was there
  during the call. `TransactionsWhole`: what one outermost `WithinTransaction` writes on a connection is kept whole or
  not at all, as it answered, while names are added, replaced and closed under it. `IncidentsKept`: one open incident
  per problem, each write kept once through lost races.
* **Exclusion and time.** `Exclusion`, `LossNoticed`, `LeaseEndsRightly` of `lock.Hold`; `GuardsHold`: a limiter hands
  out no second budget in a window although times are read before the mutex is taken.
* **Fresh caches.** `CacheFresh`: an entry is what the store amounts to, but for changes about to be evicted here or
  made by another process, and for a load inside a `Replace` whose transaction reads an older snapshot. `TreesKept`: a
  snapshot is never older than a write this process has answered.
* **People.** `SessionsHold`, `LockKept`, `AccountsTold`, `AddressChanged`, `AccessKept`, `PersonalKept`,
  `KeysWatched`: see the comments in `SignIn`, `AccountAdmin`, `EmailChange`, `MCStores`, `PersonalStores`, `MCRuntime`.
* **It goes on.** `BreakerRecovers`, `PoolServes`, `StopsInOrder`, `StreamsTell`: nothing stays stuck.
* **Assembly.** `AssembledRight`: in whatever order features install, a handler runs only for callers its route admits
  and what `Check` let through can be mounted, but for the engine's own paths (section 4).
* **Pure functions.** Each compares a translated function with an independent definition: a browser's schema with the
  server's rules (`FormsAgree`), pages with the rows they cut (`ListsAgree`), values with what comes back from their
  column, JSON or decimal text (`ValuesComeBack`), and so on. Where the code itself parts from the definition, the
  exception is an operator with a comment: `ConversionTells` names the rules whose bound does not fit the field's kind
  (max:300 of a uint8), `PagesCover` asks for every row once only where rows that tie keep one order from page to page,
  `EntryTells` leaves out audit:"-" inside a list, and `SendsTell` allows an error after the relay took the message.

### Bounds, and why they are enough

* **Queue.** Events meet only in a batch: one event shows every race of two instances. Two consumers (a scene of its
  own, with its constants in the module) are needed for "processed" and "pruned". A lease of 2 and a clock to 4 let a
  lease run out and be taken again; two attempts allow a failure, a backoff and a dead letter.
* **Audit, files, retention.** Three entries for a buffer of two and two goroutines fill and drain the channel. Two
  callers at one name and its numbered neighbour, three calls and one crash show every pair of file operations. Two
  commands with batches of one over two rows interleave between batches.
* **Lock.** With a ttl of 5 the beat is 1 and `Beat + 4 * Slack + Skew <= TTL` holds with equality, the tightest case.
* **Transactions and migrations.** Two names for pools, depth 3, two outermost calls: a call joins, begins anew on
  another connection, and follows an earlier one. Two processes, three releases (one adds an older file, one has a
  duplicate version), two deaths.
* **Assembly.** Every order of three `Install` calls out of the declared routes, permissions, disks and commands.
* **Breaker, pool, lifecycle.** Three callers: one fails late, one is on trial or waiting, one is rejected or returns.
  Two modules show the reverse order of stopping, the second running the workers. One request in flight is enough for
  a server that waits for none in particular.
* **Alerts, keys.** Two incidents with a cooldown and a digest of one tick, one repeated delivery. One account with one
  key that is made, or exists and is about to expire, when the model starts; two daily runs beside two requests.
* **Access, incidents, trees.** Two requests at a time in two processes, three changes; two captures with the staff
  change and the sweep between; two levels of items.
* **Guards.** Two requests of one key, two budgets of one, a window and a retention of one, a clock to 2.
* **People.** Two requests of two people from initial states in which accounts are locked or not and windows full or
  empty; three requests on one code: two guesses and one that issues, cancels or re-confirms.
* **Devices.** A second device id for a browser that is removed and registered anew; leases of 2 with a margin of 1.

The proofs drop these bounds for the properties marked *. Symmetry is used over requests, instances, people,
passwords, callers and addresses, which the specifications treat alike, and only in runs without liveness. Deadlock is
checked except where finite requests or a bounded clock let a model end (`messaging`, `platform`, `stores`,
`email_change` and three of the violations).

### Fairness

Only `runtime` and `delivery` have it; every other run checks safety.

* Breaker: time passes; a request that may be sent is sent (the property is about a client in use); a request ends,
  which the client's timeout and the retry limit see to; a deferred function runs.
* Pool: a goroutine takes its next step, a held connection is returned, and a receiver on the channel is served when
  connections keep arriving, since Go serves receivers in order (strong fairness).
* Lifecycle: `RunContext`, its timers and each Boot go on. Nothing is assumed of handlers and workers.
* Alerts: the queue delivers again until a delivery succeeds, failures being bounded; the digest worker and time go on.
* Streams: a stream's loop takes its snapshot, its heartbeat fires, and a dropped subscription is noticed.
* Key notices: a daily run that began goes on, and one that could tell again and again tells (the run is repeated
  every day, so strong fairness).
* Deliveries: time passes, a call takes its next step, and a caller that could pick due rows again and again does so
  (the workers poll every second, whatever they found before).

### Abstract specifications

`AtomicFiles` and `OncePerKey` are what a storage driver and an idempotency key promise. `FileStore` maps its files
and its answered calls to the first, `RequestGuards` maps the store's entries, the captured responses and the running
requests to the second; both refinements are checked by TLC and proved.

## 4. What was found

Four runs are expected to be violated; each is a finding of `PROJECT.json`.

* **A late outcome replaces the recorded one** (`event_late_finish`, `event/queue.go:249`). A handler that outlives its
  lease is not noticed: `finish` writes every outcome column without checking that the lease is still its own. When the
  worker that took over has finished and the event is processed, a late failure leaves an unfinished row behind a
  processed event, and nothing claims it again.
* **A removal cancels another person's pushes** (`notice_removal`, `notification/devices_store.go:171`). The owner of a
  device is checked before the transaction that cancels its queued pushes. If the browser has moved to somebody else
  in between, the row stays and its new owner's pushes are cancelled.
* **A deactivated service account works again** (`service_account_stays`, `identity/serviceaccount/service.go:264`).
  `Update` writes every column it read, `deactivated_at` among them.
* **A duplicate of a failed request is told 200** (`request_replay`, `middlewares/idempotency.go:155`). The store
  captures the response when the inner chain returns, before the error handler or the recovery outside it writes one.

Other behaviours were seen while modelling. The models contain those of modelled components; no run is spent on them.

* *Queue, breaker, pool.* A dead letter that expires while a sibling consumer is at work reads as never tried. A late
  failure reopens a half-open breaker, and after the open period a second trial can start (`circuitbreaker.go:151`;
  `OneTrialAtATime` says when that cannot be). A waiting `Get` is not woken when a failed dial frees a place, and
  `PoolServes` leaves that case out. A worker's restart limit also counts runs that returned without an error.
* *Sign-in and codes.* `RevokeSession` ends the session, and a failing history write returns before the Notices are
  told (`users.go:259`), so `EndedIsTold` speaks of histories without an error. A login that compared the old password
  before a password change opens its session after it. The cooldown and the hourly cap of codes are read before the
  transaction that issues: two requests at once both pass (`codes.go:261`).
* *Accounts.* `UpdateDetails` writes both of its fields when either differs, so a stale form sets back a phone without
  a line of history (`profile.go:118`). `ChangeLocale` is not on the history, by design.
* *Incidents.* `Update` writes every column it read, so "A field left out stays" (`write.go:328`) fails under a race. A
  duplicate key on reopening is not retried. The alert cooldown is read before a send and stamped after it. A repeated
  delivery after a digest puts an incident into two digests.
* *Characteristics.* No foreign keys: a child can be created under a parent that is being deleted. Move and Delete work
  on a snapshot that may be old, so two moves at once may number the siblings twice; the order of a new item is read
  outside its transaction.
* *Service accounts, views, preferences.* The limits on active keys and on saved views are checked and then inserted,
  so each concurrent request may pass them by one. `ClaimNotice` depends on affected rows meaning changed rows; the
  same holds of `notification/inbox.go:247`, `devices_store.go:103` and of a redacting retention rule, which never ends
  when its rows still match and the connection counts matched rows.
* *Access.* A load that spans a `Replace` by another process can cache a transient refusal until the entry's time is
  up (`lag` in `Authz`); so can a load made inside a `Replace`, which reads the snapshot its transaction began with.
* *Assembly and migrations.* A root route at `/health`, `/ready` or `/metrics` passes `Check` and panics at mount.
  Without a registry pending migrations are not checked. Marking versions by hand beside an `Up` can record one twice.
  After `CloseAll` the primary name is stale; `AddConnection` may replace a live pool.
* *Storage.* The local driver's `List` returns nothing when a file vanishes during its walk (`local.go:284`, `317`); a
  crash leaves temporary files nobody removes; the key "." passes `checkKey`; `UploadFile` names files by the second.
* *Input and types.* `EmailRule` refuses a nil pointer; `in` drops the other rules of a field in the generated schema;
  two types of one base name share a generated file; a nullable boolean or enum cannot be scanned from NULL; a zero
  date cannot be scanned as text; an unset yes/no of a characteristic posted back is written as no.
* *Lists, money, mail, texts.* COUNT and SELECT of a page are not one transaction; `ORDER BY` names only the asked
  column, so rows that tie may change places between two pages and be shown twice or not at all (`datatable.go:357`;
  the users' list adds the id); a page offset can overflow; `Sub`,
  `Neg` and `Abs` wrap at the smallest amount; `Send` reports an error of QUIT after the relay accepted the message;
  `TWith` with a parameter that is a prefix of another depends on map order.

## 5. What is proved

TLAPS proves the following for every value of the constants that meets the named assumptions: any number of events,
people, requests, processes, rows or crashes, any ttl, budget, window or threshold.

| Module | Theorem | States | Says |
|---|---|---|---|
| EventQueueProofs | `TypeCorrect` | | tables, channels and lanes keep their types; an unfinished row has attempts left |
| | `QueueSafety` | `OneOwner` | under `Prompt`: one lane per event and consumer, a lease protects its row, processed means finished, pruned means handled or given up |
| | `RowsAreKept` | `FailuresNeverForgotten` | under `Prompt`: a dead letter ends only by a retry or deletion; a count of failures never falls otherwise |
| LockAndFileProofs | `HoldExcludes` | `Exclusion` | a steady function owns the row while its context lives, when the ttl has room for a beat, four slacks and the skew |
| | `LossIsNoticed` | `LossNoticed` | a run whose refreshes fail is cancelled at most a beat and two slacks after its lease ended |
| | `LeasesEndRightly` | `LeaseEndsRightly` | a lease ends by its owner's release, or after its end on the taker's clock |
| | `FilesRefine` | `FilesAtomic` | the file drivers implement `AtomicFiles`, and a list names only what was there |
| ServiceProofs | `BreakerSafe` | `FlagHasTrial` | a closed breaker has room for a failure; a set trial flag has a trial that will clear it |
| | `OneTrialAtATime` | | under `Prompt`: at most one trial runs |
| | `AuditIsKept` | `AuditKept` | an accepted entry is in one place until it is written or reported; a flushed shutdown left none; spans pair |
| | `BacklogIsCleared` | `BacklogCleared` | a prune without an error left nothing past its window, and only such rows were changed |
| DatabaseProofs | `TransactionsAreWhole` | `TransactionsWhole` | an outermost transaction is kept whole or not at all, as it answered, whatever names are added, replaced or closed meanwhile |
| GuardProofs | `GuardsRefine` | `HandledOnce` | the request chain implements `OncePerKey` |
| | `GuardsSafe` | `GuardsHold` | duplicates are free and never stranded; no second budget within a window |
| AuthzProofs | `CacheStaysFresh` | `CacheFresh` | an entry is what the store amounts to, but for a pending eviction, another process's change or a snapshot left behind |
| | `DeletedRolesStayDeleted` | | no step writes a role that was deleted |
| SignInProofs | `SessionsAreSound` | `SessionsHold` | one refresh wins, grants go to active accounts, ended sessions are told |
| | `LocksAreKept` | `LockKept` | a lock ends by running out, a sign-in or an unlock |
| AccountProofs | `AccountsAreTold` | `AccountsTold` | logins and addresses stay apart, and the history explains them |
| | `AddressesChangeRightly` | `AddressChanged` | guesses cost, codes are consumed once, addresses are proven, passwords are counted |

Assumptions on constants are named in the module that declares them, and TLC evaluates them on every instance. They
say what the code guarantees: times and ids are natural numbers, a ttl or a buffer is positive, a form posts every
field, roles and subjects have their shape, the requests in flight on one account are finitely many. `Prompt` (no lane
outlives its lease; requests end within the open period) is not enforced by the code: it is a constant, the theorems
that need it have it as a hypothesis, and `event_late_finish` shows the queue without it.

The arguments:

* **Queue.** `OneOwner` is not inductive: to know that a second lane cannot lease, one must know what the first lane's
  lease has written and that it is still there. `SafeInv` says of every lane at work that its lease has not ended, that
  the rows of its events are as its claim left them, and that lanes of one consumer work on disjoint events. `Prompt`
  is used in one place, the step of time.
* **Lock.** `TimedInv` bounds, for every stage of the heartbeat, how old what it knows can be; that gives
  `LossIsNoticed`. `HeldInv` adds that a steady holder's row is its own and how much of the lease is left at least.
* **Files.** `FilesInv` ties a call's place in the code to whether it has answered, and what a walk has still to look
  at to what was there during the call. With it, each step of a driver is one abstract step or none: a rename or a
  link is the put, a temporary file is invisible, a crash is the abstract loss of every call.
* **Breaker.** `SafeInv` is its three properties together; `TrialInv` adds that a half-open breaker has no other
  request under way, which needs the requests to end in time.
* **Audit.** `QueueInv` says that the `WaitGroup` is the number of running goroutines plus the number of entries
  accepted and not done (`Counting`, with the cardinalities of both sets), that the channel and the goroutines hold
  disjoint entries, and that a flushed shutdown means both sets are empty.
* **Retention.** `PassedAreCleared`: every rule a run has passed without an error is cleared as of the time the run
  read, which later rows and other runs cannot undo because nothing is stamped ahead of the clock.
* **Transactions.** `Joined` finds, at or below each call, the one that began the transaction of its pool, and no two
  for one pool; `Holds` says that this call has exactly the writes of its scope. A commit or a rollback then disposes
  of a whole scope.
* **Guards.** `GuardsInv` follows a request through the chain: who works under a key is the one its entry names, a
  duplicate waits on a request that works or has captured. The budgets need only that a bucket never counts past its
  limit and that the time a request holds is not ahead of the clock.
* **Access.** `FreshInv` speaks of loads before they become entries: a load whose epoch is still current has read what
  the store holds now, or what it read waits for an eviction that will raise the epoch or drop the entry (`Built` of
  the bindings read so far, `Rebinding`, `Redefining`).
* **Sign-in.** `SessionsInv` says of each place in a request what it knows: whom it has seen active, which session it
  holds and that a swapped token is older than its row; and `Promised`, that each token that stopped working has a
  request under way that will tell its owner, or one that answered an error.
* **Accounts.** `AdminInv` keeps names apart and, for login and address, that the last row of the history that names
  the field is what the account has (`Explained`). The administrator's write is the case that matters: it writes
  exactly the fields it puts on the history, whatever was read.
* **E-mail change.** `ChangeInv` counts: the requests that missed a code are as many as its attempts (`Costs`), those
  that won it are one exactly when it is used (`Once`), and the checks are what the counter says. `AddressProven` is
  strengthened: a request about to write has won its code.

## 6. What is only model-checked, and why

* **Liveness**: `BreakerRecovers`, the waiting of `PoolServes`, `SignalEnds` of `StopsInOrder`, `IncidentsTold`,
  `StreamsTell`, `OwnersTold` of `KeysWatched`, `DeliveriesKept`. The provers do not reason about fairness and ENABLED.
* **What recursive definitions compute**: the comparisons of pure functions in `MCMessaging`, and `PersonalKept`,
  whose preferences merge by a recursive patch. They would need induction over data.
* **Not proved yet**: `IncidentsKept`, `AssembledRight`, `MigratesOnce`, `AccessKept` but for deleted roles,
  `TreesKept`, `PushedOnce`, `LettersHandled` as the two-consumer scene states it (its parts are in `QueueSafety` and
  `RowsAreKept` under `Prompt`). They are checked at the bounds of section 3.

## 7. What is not modelled, and why

* Text: wording of mails, log lines, SQL of query builders, generated files beyond names, imports and checks; the
  layout of PDF documents; headers and request ids.
* Wiring without a decision of its own: installation of the identity module, application settings read once, the
  embedding page, the front end's files and the proxy.
* Stores that single statements make up and nothing in the repository calls (`auth/gormstore` tokens, processed
  events); tenancy, which puts one condition on a query.
* Hashing and ciphers: a password matches only the hash made of it, a push message depends on its keys.
* Static analysis (`archtest`), test support, commands for developers and the example application.

Abstractions worth knowing: a transaction that locks its rows first is one step; `CodeStore.Issue` is taken to be
serialised per account; all instances of the queue share one clock in whole seconds while the lock has one per
holder; the lengths of retry delays and backoffs are left out and only their order against other timers varies; one key
of the lock, one account of the e-mail change and one event of the queue stand for many because they share no rows.
