----------------------------- MODULE Lifecycle -----------------------------
(***************************************************************************)
(* App.RunContext of gocore, from its checks to the closing of the         *)
(* database: components register and boot, the HTTP server starts and       *)
(* serves, a signal or a failing server begins the shutdown, which drains   *)
(* requests, ends the boot context, stops the components in reverse order   *)
(* and closes the database.  The last component runs the background        *)
(* workers under worker.Manager, which restarts them.                      *)
(***************************************************************************)
EXTENDS Integers, FiniteSets

CONSTANTS
    M,           \* components; the last one is featuresModule
    Workers,     \* background workers
    Requests,    \* bound: requests that may come in
    MaxRestarts  \* WithMaxRestarts; 0: no limit

LifecycleAssumption == M \in Nat \ {0} /\ MaxRestarts \in Nat

VARIABLES
    at,        \* where RunContext is
    failed,    \* it will return an error
    turn,      \* the component that is registered or stopped next
    module,    \* each component: new, booting, up, broken or down
    stop,      \* the components the shutdown stops
    signal,    \* the run context is done
    ended,     \* Boot's context is cancelled
    server,    \* the HTTP server: off, starting, serving, broken or closed
    serverErr, \* the error channel holds the server's error
    draining,  \* HealthRegistry.draining
    base,      \* the base context of requests is cancelled
    late,      \* the shutdown's timeout has passed
    request,   \* each request: none, short, long (ends with its context) or done
    worker,    \* each worker: off, running, waiting to restart or stopped
    restarts,  \* each worker's consecutive restarts
    database   \* the connections are open

main == <<at, failed, turn, stop>>
http == <<server, serverErr, base, request>>
work == <<worker, restarts>>
vars == <<main, module, signal, ended, http, draining, late, work, database>>

Modules == 1..M
InFlight == {r \in Requests : request[r] \in {"short", "long"}}
Busy == {w \in Workers : worker[w] \in {"running", "waiting"}}

Init ==
    /\ at = "check" /\ failed = FALSE /\ turn = 1 /\ stop = {}
    /\ module = [i \in Modules |-> "new"]
    /\ signal = FALSE /\ ended = FALSE
    /\ server = "off" /\ serverErr = FALSE /\ base = FALSE /\ draining = FALSE /\ late = FALSE
    /\ request = [r \in Requests |-> "none"]
    /\ worker = [w \in Workers |-> "off"] /\ restarts = [w \in Workers |-> 0]
    /\ database = TRUE

-----------------------------------------------------------------------------
(* Start                                                                    *)

(* Pending migrations, OnStart checks, Check and build come before anything is started.          *)
CheckApp ==
    /\ at = "check"
    /\ \/ at' = "register" /\ UNCHANGED failed
       \/ at' = "close" /\ failed' = TRUE
    /\ UNCHANGED <<turn, stop, module, signal, ended, http, draining, late, work, database>>

RegisterModule ==
    /\ at = "register"
    /\ \/ /\ turn < M /\ turn' = turn + 1 /\ UNCHANGED <<at, failed, module>>
       \/ /\ turn = M /\ at' = "boot" /\ module' = [i \in Modules |-> "booting"]
          /\ UNCHANGED <<turn, failed>>
       \/ /\ at' = "close" /\ failed' = TRUE /\ UNCHANGED <<turn, module>>
    /\ UNCHANGED <<stop, signal, ended, http, draining, late, work, database>>

(* Components boot concurrently; featuresModule's Boot starts the workers.  A failing Boot ends  *)
(* the context of the others.                                                                    *)
BootModule(i) ==
    /\ at = "boot" /\ module[i] = "booting"
    /\ \/ /\ module' = [module EXCEPT ![i] = "up"]
          /\ worker' = [w \in Workers |-> IF i = M THEN "running" ELSE worker[w]]
          /\ UNCHANGED ended
       \/ /\ i # M
          /\ module' = [module EXCEPT ![i] = "broken"]
          /\ ended' = TRUE /\ UNCHANGED worker
    /\ UNCHANGED <<main, signal, http, draining, late, restarts, database>>

Booted == {i \in Modules : module[i] = "up"}

StopAfterBoot == Booted

BootEnds ==
    /\ at = "boot" /\ \A i \in Modules : module[i] # "booting"
    /\ \/ /\ Booted = Modules
          /\ at' = "start" /\ server' = "starting" /\ UNCHANGED <<failed, stop>>
       \/ /\ Booted # Modules
          /\ at' = "shutdown" /\ failed' = TRUE /\ stop' = StopAfterBoot /\ UNCHANGED server
    /\ UNCHANGED <<turn, module, signal, ended, serverErr, base, request, draining, late, work, database>>

(* The goroutine that runs the server: it listens, cannot, or stops by itself.  A server that    *)
(* was shut down reports nothing.                                                                *)
Listen ==
    /\ server = "starting"
    /\ \/ server' = "serving" /\ UNCHANGED serverErr
       \/ server' = "broken" /\ serverErr' = TRUE
    /\ UNCHANGED <<main, module, signal, ended, base, request, draining, late, work, database>>

ServerStops ==
    /\ server = "serving"
    /\ server' = "broken" /\ serverErr' = TRUE
    /\ UNCHANGED <<main, module, signal, ended, base, request, draining, late, work, database>>

(* startHTTP waits a short window for the server to fail, and RunContext then waits for the end. *)
StartHTTP ==
    /\ at = "start"
    /\ \/ /\ serverErr /\ serverErr' = FALSE
          /\ at' = "shutdown" /\ failed' = TRUE /\ stop' = Modules
       \/ at' = "run" /\ UNCHANGED <<serverErr, failed, stop>>
    /\ UNCHANGED <<turn, module, signal, ended, server, base, request, draining, late, work, database>>

Signal ==
    /\ ~signal /\ signal' = TRUE
    /\ UNCHANGED <<main, module, ended, http, draining, late, work, database>>

RunEnds ==
    /\ at = "run" /\ at' = "shutdown" /\ stop' = Modules
    /\ \/ signal /\ UNCHANGED <<failed, serverErr>>
       \/ serverErr /\ serverErr' = FALSE /\ failed' = TRUE
    /\ UNCHANGED <<turn, module, signal, ended, server, base, request, draining, late, work, database>>

-----------------------------------------------------------------------------
(* Requests                                                                 *)

Arrive(r) ==
    /\ server = "serving" /\ request[r] = "none"
    /\ \E kind \in {"short", "long"} : request' = [request EXCEPT ![r] = kind]
    /\ UNCHANGED <<main, module, signal, ended, server, serverErr, base, draining, late, work, database>>

(* A handler returns: a long one (a stream) when its context ends, or when its client leaves.    *)
Respond(r) ==
    /\ r \in InFlight
    /\ request' = [request EXCEPT ![r] = "done"]
    /\ UNCHANGED <<main, module, signal, ended, server, serverErr, base, draining, late, work, database>>

-----------------------------------------------------------------------------
(* Shutdown                                                                 *)

(* The readiness probe fails from here on; the server stops accepting.                           *)
BeginShutdown ==
    /\ at = "shutdown" /\ at' = "drain" /\ draining' = TRUE
    /\ server' = "closed"
    /\ UNCHANGED <<failed, turn, stop, module, signal, ended, serverErr, base, request, late, work, database>>

(* Requests still running after the grace period, which is no longer than the timeout, have      *)
(* their contexts cancelled.                                                                     *)
GracePasses ==
    /\ at = "drain" /\ ~base /\ InFlight # {} /\ base' = TRUE
    /\ UNCHANGED <<main, module, signal, ended, server, serverErr, request, draining, late, work, database>>

TimeoutPasses ==
    /\ at \in {"drain", "cancel", "stop"} /\ ~late
    /\ at = "drain" => base
    /\ late' = TRUE
    /\ UNCHANGED <<main, module, signal, ended, http, draining, work, database>>

AtOnceMutant == TRUE
Drained == InFlight = {} \/ late

ServerDown ==
    /\ at = "drain" /\ Drained
    /\ at' = "cancel" /\ base' = TRUE
    /\ UNCHANGED <<failed, turn, stop, module, signal, ended, server, serverErr, request, draining, late, work, database>>

CancelBoot ==
    /\ at = "cancel" /\ at' = "stop" /\ turn' = M /\ ended' = TRUE
    /\ UNCHANGED <<failed, stop, module, signal, http, draining, late, work, database>>

WorkersStopped == Busy = {} \/ late

(* Components stop in reverse order; featuresModule, the first to stop, waits for its workers.   *)
StopModule ==
    /\ at = "stop" /\ turn > 0
    /\ (turn = M /\ turn \in stop) => WorkersStopped
    /\ module' = IF turn \in stop THEN [module EXCEPT ![turn] = "down"] ELSE module
    /\ turn' = turn - 1
    /\ UNCHANGED <<at, failed, stop, signal, ended, http, draining, late, work, database>>

StopEnds ==
    /\ at = "stop" /\ turn = 0 /\ at' = "close"
    /\ UNCHANGED <<failed, turn, stop, module, signal, ended, http, draining, late, work, database>>

CloseDatabase ==
    /\ at = "close" /\ at' = "returned" /\ database' = FALSE
    /\ UNCHANGED <<failed, turn, stop, module, signal, ended, http, draining, late, work>>

-----------------------------------------------------------------------------
(* worker.Manager                                                           *)

GivesUp(n) == MaxRestarts > 0 /\ n >= MaxRestarts

(* A worker's Run returns or panics.  A run longer than successAfter forgets earlier restarts;   *)
(* only a limit on restarts needs them counted.                                                  *)
RunReturns(w) ==
    /\ worker[w] = "running"
    /\ \/ /\ ended
          /\ worker' = [worker EXCEPT ![w] = "stopped"] /\ UNCHANGED restarts
       \/ /\ ~ended
          /\ \E before \in {0, restarts[w]} :
                LET n == IF MaxRestarts > 0 THEN before + 1 ELSE 0
                IN  /\ restarts' = [restarts EXCEPT ![w] = n]
                    /\ worker' = [worker EXCEPT ![w] = IF GivesUp(n) THEN "stopped" ELSE "waiting"]
    /\ UNCHANGED <<main, module, signal, ended, http, draining, late, database>>

(* The backoff's timer and the context race.                                                     *)
BackoffEnds(w) ==
    /\ worker[w] = "waiting"
    /\ \/ worker' = [worker EXCEPT ![w] = "running"]
       \/ ended /\ worker' = [worker EXCEPT ![w] = "stopped"]
    /\ UNCHANGED <<main, module, signal, ended, http, draining, late, restarts, database>>

-----------------------------------------------------------------------------
Main ==
    \/ CheckApp \/ RegisterModule \/ BootEnds \/ StartHTTP \/ RunEnds \/ BeginShutdown
    \/ ServerDown \/ CancelBoot \/ StopModule \/ StopEnds \/ CloseDatabase

Timers == GracePasses \/ TimeoutPasses

Environment ==
    \/ Listen \/ ServerStops \/ Signal
    \/ \E r \in Requests : Arrive(r) \/ Respond(r)
    \/ \E w \in Workers : RunReturns(w) \/ BackoffEnds(w)

(* The program may stop for good once RunContext has returned.                                   *)
Returned == at = "returned" /\ UNCHANGED vars

Next == Main \/ Timers \/ Environment \/ (\E i \in Modules : BootModule(i)) \/ Returned

Spec == Init /\ [][Next]_vars

(* RunContext goes on when it can, timers fire and every Boot returns.  Nothing is assumed of    *)
(* handlers and workers: they may ignore their context for ever.                                 *)
FairSpec ==
    Spec /\ WF_vars(Main) /\ WF_vars(Timers) /\ \A i \in Modules : WF_vars(BootModule(i))

-----------------------------------------------------------------------------
(* Each part has one of its states, and a worker is never restarted more than it may be.         *)
TypeOK ==
    /\ at \in {"check", "register", "boot", "start", "run", "shutdown", "drain", "cancel", "stop",
               "close", "returned"}
    /\ turn \in 0..M /\ stop \subseteq Modules
    /\ module \in [Modules -> {"new", "booting", "up", "broken", "down"}]
    /\ server \in {"off", "starting", "serving", "broken", "closed"}
    /\ {failed, signal, ended, serverErr, draining, base, late, database} \subseteq BOOLEAN
    /\ request \in [Requests -> {"none", "short", "long", "done"}]
    /\ worker \in [Workers -> {"off", "running", "waiting", "stopped"}]
    /\ restarts \in [Workers -> 0..MaxRestarts]

(* "HTTP first, then the modules and background workers drain": until the timeout passes, every  *)
(* component is up and no worker was told to stop while a request is handled.                    *)
StopsInOrder == ~late /\ InFlight # {} => Booted = Modules /\ ~ended

(* "The database closes last" and "a failing check or boot returns an error with nothing left    *)
(* running": when the database has closed every component whose Boot succeeded was shut down,    *)
(* whatever failed, the server is shut or was never started, and a request or a worker still     *)
(* runs only when the timeout passed.                                                            *)
NothingLeft ==
    ~database => /\ Booted = {} /\ server \in {"off", "closed"}
                 /\ InFlight # {} \/ Busy # {} => late

(* A signal ends the program, though handlers and workers ignore their contexts.                 *)
SignalEnds == signal ~> at = "returned"
=============================================================================
