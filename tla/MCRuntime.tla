------------------------------ MODULE MCRuntime ------------------------------
(***************************************************************************)
(* What a running process must go on doing: the circuit breaker of the     *)
(* HTTP client, the pool of storage connections, the application's life    *)
(* from boot to exit, the incident alerts, the live stream of              *)
(* notifications, and the service accounts with the notices of their keys. *)
(* None of them touches another's state, so a                              *)
(* behaviour is a behaviour of one of them: `scene` names it and the       *)
(* others stay in their initial state.                                     *)
(***************************************************************************)
EXTENDS CircuitBreaker, IncidentAlerts, LiveStream, ServiceAccounts, TLC

CONSTANTS c1, c2, c3, k1, k2, w1, w2, r1, r2, a1, Nothing

VARIABLES
    scene,
    conn, total, poolClosed, closing, drained, clientAt, have,
    at, failed, turn, module, stop, signal, ended, server, serverErr, draining, base, late, request,
    worker, restarts, database

poolVars == <<conn, total, poolClosed, closing, drained, clientAt, have>>
lifeVars == <<at, failed, turn, module, stop, signal, ended, server, serverErr, draining, base, late, request,
              worker, restarts, database>>
allVars == <<scene, vars, poolVars, lifeVars, alertVars, streamVars, saVars>>

\* Three clients share two places while the pool is closed under them.
Pool == INSTANCE StoragePool
    WITH Clients <- Callers, Conns <- {k1, k2}, None <- Nothing, Capacity <- 2,
         closed <- poolClosed, at <- clientAt

\* Two modules, two workers that may be restarted twice, a request.
Life == INSTANCE Lifecycle WITH M <- 2, Workers <- {w1, w2}, Requests <- {r1}, MaxRestarts <- 2

\* Two incidents of one immediate severity: the second is sent too, or waits for the digest.
MCIncidents == {1, 2}
MCSeverityOf == <<"high", "high">>
MCAlerts == [enabled |-> TRUE, immediate |-> {}, cooldown |-> 0, every |-> 0]
MCImmediate == {"critical", "high"}

\* One actor manages service accounts, the other may only revoke.
MCActors == {[id |-> 7, person |-> TRUE, manage |-> TRUE, revoke |-> TRUE, view |-> [all |-> TRUE, tenants |-> {}]],
             [id |-> 0, person |-> FALSE, manage |-> FALSE, revoke |-> TRUE, view |-> [all |-> TRUE, tenants |-> {}]]}

\* Service accounts begin with nothing, or with an account and a key of it, made earlier.
Keyed ==
    /\ saAccounts = 1 :> [tenant |-> 0, owner |-> 7, deactivated |-> {}]
    /\ saKeys = 1 :> [account |-> 1, left |-> 2, idle |-> 0, revokedBy |-> {}]
    /\ saTrail = {[entity |-> e, id |-> 1, action |-> "create"] : e \in {"service_accounts", "service_account_keys"}}
KeysBegin ==
    /\ (saAccounts = <<>> /\ saKeys = <<>> /\ saTrail = {}) \/ (scene = "keys" /\ Keyed)
    /\ SaNothingYet

ASSUME Pool!PoolAssumption /\ Life!LifecycleAssumption

RuntimeInit ==
    /\ scene \in {"breaker", "pool", "life", "alerts", "stream", "keys"}
    /\ Init /\ Pool!Init /\ Life!Init /\ AlertsInit /\ StreamInit /\ KeysBegin

\* One scene's step leaves the other scenes' variables alone.
BreakerStep == scene = "breaker" /\ Next /\ UNCHANGED <<scene, poolVars, lifeVars, alertVars, streamVars, saVars>>
PoolStep == scene = "pool" /\ Pool!Next /\ UNCHANGED <<scene, vars, lifeVars, alertVars, streamVars, saVars>>
LifeStep == scene = "life" /\ Life!Next /\ UNCHANGED <<scene, vars, poolVars, alertVars, streamVars, saVars>>
AlertStep == scene = "alerts" /\ AlertsNext /\ UNCHANGED <<scene, vars, poolVars, lifeVars, streamVars, saVars>>
StreamStep == scene = "stream" /\ StreamNext /\ UNCHANGED <<scene, vars, poolVars, lifeVars, alertVars, saVars>>
KeysStep == scene = "keys" /\ SaNext /\ UNCHANGED <<scene, vars, poolVars, lifeVars, alertVars, streamVars>>

\* Everything else may come to rest: the bounded inputs are used up.
AtRest == scene \notin {"breaker", "life"} /\ UNCHANGED allVars

RuntimeNext == BreakerStep \/ PoolStep \/ LifeStep \/ AlertStep \/ StreamStep \/ KeysStep \/ AtRest

\* Each scene's own fairness, which asks nothing of the scenes that are not played.
RuntimeFairness ==
    /\ WF_vars(scene = "breaker" /\ Tick)
    /\ \A c \in Callers : /\ WF_vars(scene = "breaker" /\ (ExecuteClosed(c) \/ ExecuteTrial(c)))
                          /\ WF_vars(scene = "breaker" /\ Ends(c))
                          /\ WF_vars(scene = "breaker" /\ ClearTrial(c))
    /\ \A c \in Callers : /\ WF_poolVars(scene = "pool" /\ Pool!GetLocked(c))
                          /\ WF_poolVars(scene = "pool" /\ (Pool!Created(c) \/ Pool!CreateFails(c)))
                          /\ WF_poolVars(scene = "pool" /\ Pool!Put(c))
                          /\ SF_poolVars(scene = "pool" /\ Pool!WaitTakes(c))
                          /\ WF_poolVars(scene = "pool" /\ Pool!WaitClosed(c))
    /\ WF_poolVars(scene = "pool" /\ Pool!Drain) /\ WF_poolVars(scene = "pool" /\ Pool!DrainEnd)
    /\ WF_lifeVars(scene = "life" /\ Life!Main) /\ WF_lifeVars(scene = "life" /\ Life!Timers)
    /\ \A i \in 1..2 : WF_lifeVars(scene = "life" /\ Life!BootModule(i)) /\ WF_alertVars(scene = "alerts" /\ Deliver(i))
    /\ WF_alertVars(scene = "alerts" /\ (\E d \in digestEvents : OnDigest(d) \/ DigestDelivered(d)))
    /\ WF_alertVars(scene = "alerts" /\ Flush) /\ WF_alertVars(scene = "alerts" /\ AlertTick)
    /\ WF_streamVars(scene = "stream" /\ Snapshot(a1)) /\ WF_streamVars(scene = "stream" /\ Heartbeat(a1))
    /\ WF_streamVars(scene = "stream" /\ Dropped(a1))
    /\ \A w \in {1, 2} : /\ WF_saVars(scene = "keys" /\ SendReads(w)) /\ SF_saVars(scene = "keys" /\ tell(w))
                         /\ WF_saVars(scene = "keys" /\ SendDone(w))

RuntimeSpec == RuntimeInit /\ [][RuntimeNext]_allVars /\ RuntimeFairness

\* The service accounts alone.
KeysSpec == scene = "keys" /\ RuntimeInit /\ [][RuntimeNext]_allVars

-----------------------------------------------------------------------------
\* A breaker is never stuck: while requests keep coming one is let through again and
\* again, and an open period ends, after any failures, panics and late outcomes
\* (CircuitBreaker.Execute, recordFailure).
BreakerRecovers == (scene = "breaker" => LetsThroughAgain) /\ OpenEnds

\* The pool's count is exact through races of Get, Put and Close, never above the
\* capacity, Close leaves nothing open, and a Get that waits ends, except where failed
\* dials left the pool without any connection, whose free places wake nobody (Pool.Get,
\* Put, Close).  The clients are alike, so one of them stands for each.
PoolServes ==
    /\ [](scene = "pool" => Pool!TotalCounts /\ Pool!WithinCapacity /\ Pool!NothingLeftOpen)
    /\ Pool!GetEnds(c1)

\* "HTTP first, then the modules and background workers drain", "the database closes
\* last", whatever failed, what had started was stopped; and a signal ends the program,
\* though handlers and workers ignore their contexts (App.RunContext, Shutdown).
StopsInOrder == [](scene = "life" => Life!StopsInOrder /\ Life!NothingLeft) /\ Life!SignalEnds

\* An incident is told of once, plus once for each delivery of its own event that was made
\* again, however often its digest was, and never not at all: at once or in a digest, or
\* nobody was there to be told (alerter.onOpened, onDigest, digestWorker.flush).  The
\* incidents are alike, so one of them stands for both.
IncidentsTold == [](scene = "alerts" => ToldOnce) /\ ComesOut(1)

\* An open stream that has caught up has learnt of every notification, whatever order
\* inserting, announcing, subscribing and counting came in, and "signing out, a password
\* change or a revoked session ends it" (Stream and its heartbeat, Hub.Publish).
StreamsTell == [](scene = "stream" => NoneMissed) /\ RevokedStreamEnds

\* Each condition of a key is announced at most once and exactly when it is recorded, one
\* that lasts is announced, and the first revocation of a key is kept (Notices.Send, tell,
\* Service.RevokeKey).
KeysWatched == [](scene = "keys" => NoticedOnce) /\ OwnersTold /\ RevokedForGood
=============================================================================
