---------------------------- MODULE RequestGuards ----------------------------
(***************************************************************************)
(* A request on its way through the engine gocore builds: panic recovery   *)
(* and the error handler around everything, then the idempotency store,    *)
(* the shared and the per-address limiter, and on a route that needs a     *)
(* person the authentication with the per-person limiter.  Requests run    *)
(* concurrently; the store and each limiter are shared and guarded by a    *)
(* mutex each.  The clock moves between any two steps, so the time a       *)
(* limiter reads before it takes its mutex may be old when it is used.     *)
(***************************************************************************)
EXTENDS Integers

CONSTANTS Reqs,        \* the requests
          IdKeys,      \* Idempotency-Key values of acceptable length
          Asks,        \* [key, user, path, does]: the requests' headers, who
                       \* calls what ("nobody"; "api" or "page") and what the
                       \* handler does: "ok", "panic" or an error code
          Budget,      \* Budget[l]: the limit of limiter l, 0 when not installed
          Window,      \* the length of a limiter's window
          KeepFor,     \* the ttl of the idempotency store
          LastInstant  \* bound: the last value of the clock

ASSUME GuardsAssumption == /\ Window \in Nat \ {0}
                           /\ KeepFor \in Nat \ {0}
                           /\ LastInstant \in Nat
                           /\ Budget \in [{"global", "ip", "user"} -> Nat]
                           /\ Asks # {} /\ {"no key", "too long"} \cap IdKeys = {}

VARIABLES instant,   \* the wall clock
          counters,  \* counters[l][key]: the limiter's map, {} when absent
          store,     \* store[k]: the entry under k, named by its creator
          captured,  \* captured[r]: the response stored in r's entry
          due,       \* due[r]: when the eviction timer of r's entry fires
          greq        \* req[r]: where request r is and what it carries

guardVars == <<instant, counters, store, captured, due, greq>>

Limiters == DOMAIN Budget
NoKey == "no key"
LongKey == "too long"
EmptyOK == 0  \* status 200 and no body: what a response is until written

\* apperr: the HTTP status of an error code; a code the table lacks is a 500.
GetHTTPStatus(code) ==
  CASE code = "unauthenticated" -> 401
    [] code = "permission_denied" -> 403
    [] code = "not_found" -> 404
    [] code = "bad_request" -> 400
    [] code = "already_exists" -> 409
    [] code = "payload_too_large" -> 413
    [] code \in {"invalid_argument", "validation_error"} -> 422
    [] OTHER -> 500

RateKeys == {"global", "ip"} \cup {a.user : a \in Asks}

\* The bucket a request is counted in.
rateLimitKey(l, a) == IF l = "user" THEN a.user ELSE l

Idle == [at |-> "new", asks |-> CHOOSE a \in Asks : TRUE, now |-> 0, on |-> {},
         written |-> {}, failed |-> {}, got |-> {}, counted |-> {}]

GuardsInit == /\ instant = 0
              /\ counters = [l \in Limiters |-> [k \in RateKeys |-> {}]]
              /\ store = [k \in IdKeys |-> {}]
              /\ captured = [r \in Reqs |-> {}]
              /\ due = [r \in Reqs |-> 0]
              /\ greq = [r \in Reqs |-> Idle]

Stands(r, s) == greq[r].at = s
Goes(r, change) == greq' = [greq EXCEPT ![r] = change]

Arrive(r) == /\ Stands(r, "new")
             /\ \E a \in Asks : Goes(r, [greq[r] EXCEPT !.at = "keyed", !.asks = a])
             /\ UNCHANGED <<instant, counters, store, captured, due>>

\* What stands between the store and the handler's return, and where in it a
\* request stops: at the limiters that are installed, at the per-address one
\* only on paths of the API, and on a route that is not public at the
\* authentication.
Chain == <<"global", "ip", "auth", "user", "handler">>
Meets(a) == {i \in 1..5 : /\ Chain[i] \in Limiters => Budget[Chain[i]] > 0
                          /\ Chain[i] \in {"ip", "auth", "user"} => a.path = "api"}

\* The element of the chain a request meets after s.
After(s, a) == LET later == {i \in Meets(a) : s = "start" \/ \E j \in 1..(i - 1) : Chain[j] = s}
               IN Chain[CHOOSE i \in later : \A j \in later : i <= j]

\* The store is asked and the entry made in two steps instead of one.
AskThenMakeMutant(r) ==
  LET k == greq[r].asks.key
      first == After("start", greq[r].asks)
  IN /\ greq[r].at \in {"keyed", "absent"}
     /\ \/ /\ Stands(r, "keyed")
           /\ k \in IdKeys
           /\ IF store[k] = {} THEN Goes(r, [greq[r] EXCEPT !.at = "absent"])
              ELSE Goes(r, [greq[r] EXCEPT !.at = "wait", !.on = store[k]])
           /\ UNCHANGED store
        \/ /\ Stands(r, "absent")
           /\ store' = [store EXCEPT ![k] = {r}]
           /\ Goes(r, [greq[r] EXCEPT !.at = first])
     /\ UNCHANGED <<instant, counters, captured, due>>

\* Idempotency: without a key the request goes on; the first of a key makes
\* the entry (getOrCreate, under the mutex) and goes on with a capturing
\* writer; any other waits on the entry it found.
Idempotency(r) ==
  LET k == greq[r].asks.key
      first == After("start", greq[r].asks)
  IN /\ Stands(r, "keyed")
     /\ \/ /\ k = NoKey
           /\ Goes(r, [greq[r] EXCEPT !.at = first])
           /\ UNCHANGED store
        \/ /\ k = LongKey
           /\ Goes(r, [greq[r] EXCEPT !.at = "leaving", !.written = {400}])
           /\ UNCHANGED store
        \/ /\ k \in IdKeys /\ store[k] = {}
           /\ store' = [store EXCEPT ![k] = {r}]
           /\ Goes(r, [greq[r] EXCEPT !.at = first])
        \/ /\ k \in IdKeys /\ store[k] # {}
           /\ Goes(r, [greq[r] EXCEPT !.at = "wait", !.on = store[k]])
           /\ UNCHANGED store
     /\ UNCHANGED <<instant, counters, captured, due>>


\* waitResponse: the entry is done, and its response is written again.
waitResponse(r) ==
  /\ Stands(r, "wait")
  /\ \E e \in greq[r].on : captured[e] # {}
                          /\ Goes(r, [greq[r] EXCEPT !.at = "done", !.got = captured[e]])
  /\ UNCHANGED <<instant, counters, store, captured, due>>

\* The client of a waiting request gives up: its context is cancelled.
GivenUp(r) == /\ Stands(r, "wait")
                /\ Goes(r, [greq[r] EXCEPT !.at = "done", !.got = {408}])
                /\ UNCHANGED <<instant, counters, store, captured, due>>

\* Allow, first half: the time is read before the mutex is taken.
ReadsTime(r) == /\ greq[r].at \in Limiters
                /\ greq[r].now = 0
                /\ Goes(r, [greq[r] EXCEPT !.now = instant + 1])
                /\ UNCHANGED <<instant, counters, store, captured, due>>

\* now.After(c.expiry)
passed(now, c) == now > c.expiry

\* The counter of key after one more request: a new window when there is none
\* or the last has passed, otherwise one more in it.
Counted(l, key, now) ==
  LET have == counters[l][key]
  IN IF \A c \in have : passed(now, c)
     THEN {[count |-> 1, expiry |-> now + Window]}
     ELSE {[c EXCEPT !.count = IF @ < Budget[l] THEN @ + 1 ELSE @] : c \in have}

\* Whether Allow lets the request through.
Allowed(l, key, now) ==
  \A c \in counters[l][key] : passed(now, c) \/ c.count < Budget[l]

\* Allow, second half, and the middleware around it: a refused request is
\* answered 429 and goes no further.
Allow(r) ==
  LET l == greq[r].at
      key == rateLimitKey(l, greq[r].asks)
      now == greq[r].now - 1
  IN /\ l \in Limiters
     /\ greq[r].now > 0
     /\ counters' = [counters EXCEPT ![l][key] = Counted(l, key, now)]
     /\ Goes(r, [greq[r] EXCEPT
                   !.now = 0,
                   !.counted = @ \cup {l},
                   !.at = IF Allowed(l, key, now) THEN After(l, greq[r].asks) ELSE "leaving",
                   !.written = IF Allowed(l, key, now) THEN @ ELSE {429}])
     /\ UNCHANGED <<instant, store, captured, due>>

\* Authenticated: without a valid token the error is recorded and the chain
\* aborted; otherwise the person is known and their limiter is next.
Authenticated(r) ==
  /\ Stands(r, "auth")
  /\ IF greq[r].asks.user = "nobody"
     THEN Goes(r, [greq[r] EXCEPT !.at = "leaving", !.failed = {"unauthenticated"}])
     ELSE Goes(r, [greq[r] EXCEPT !.at = After("auth", greq[r].asks)])
  /\ UNCHANGED <<instant, counters, store, captured, due>>

\* The route's handler: it answers, records an error (web.Fail) or panics.
Handle(r) ==
  LET d == greq[r].asks.does
  IN /\ Stands(r, "handler")
     /\ Goes(r, [greq[r] EXCEPT !.at = "leaving",
                               !.written = IF d = "ok" THEN {200} ELSE {},
                               !.failed = IF d = "ok" THEN {} ELSE {d}])
     /\ UNCHANGED <<instant, counters, store, captured, due>>

\* The request whose entry the store will complete.
Creator(r) == greq[r].asks.key \in IdKeys /\ greq[r].on = {}

\* The deferred setResponse, on a return and on a panic alike: what was
\* written so far is stored, the waiting are woken and the eviction timer
\* starts.  The error handler and the recovery write later.
setResponse(r) ==
  /\ Stands(r, "leaving")
  /\ Goes(r, [greq[r] EXCEPT !.at = "answering"])
  /\ IF Creator(r)
     THEN /\ captured' = [captured EXCEPT ![r] = IF greq[r].written = {} THEN {EmptyOK} ELSE greq[r].written]
          /\ due' = [due EXCEPT ![r] = instant + KeepFor]
     ELSE UNCHANGED <<captured, due>>
  /\ UNCHANGED <<instant, counters, store>>

\* ErrorHandler and PanicRecovery: a response already written stays; an error
\* becomes its status, a panic a 500.
ErrorHandler(r) ==
  /\ Stands(r, "answering")
  /\ Goes(r, [greq[r] EXCEPT !.at = "done",
                            !.got = IF greq[r].written # {} THEN greq[r].written
                                      ELSE IF greq[r].failed # {} THEN {GetHTTPStatus(c) : c \in greq[r].failed}
                                      ELSE {EmptyOK}])
  /\ UNCHANGED <<instant, counters, store, captured, due>>

\* The eviction timer of the entry under k.
Evict(k) == /\ \E e \in store[k] : captured[e] # {} /\ instant >= due[e]
            /\ store' = [store EXCEPT ![k] = {}]
            /\ UNCHANGED <<instant, counters, captured, due, greq>>

SweepsAllMutant(l) == /\ counters[l] # [k \in RateKeys |-> {}]
                      /\ counters' = [counters EXCEPT ![l] = [k \in RateKeys |-> {}]]
                      /\ UNCHANGED <<instant, store, captured, due, greq>>

\* The limiter's janitor; its time too is read before the mutex.
sweep(l) == /\ \E now \in 0..instant :
                 counters' = [counters EXCEPT ![l] = [k \in RateKeys |->
                                {c \in counters[l][k] : ~passed(now, c)}]]
            /\ counters' # counters
            /\ UNCHANGED <<instant, store, captured, due, greq>>

Instant == /\ instant < LastInstant
           /\ instant' = instant + 1
           /\ UNCHANGED <<counters, store, captured, due, greq>>

\* What the goroutine of request r does next.
Proceeds(r) == \/ Idempotency(r) \/ waitResponse(r) \/ ReadsTime(r) \/ Allow(r)
               \/ Authenticated(r) \/ Handle(r) \/ setResponse(r) \/ ErrorHandler(r)

GuardsNext == \/ \E r \in Reqs : Arrive(r) \/ Proceeds(r) \/ GivenUp(r)
              \/ \E k \in IdKeys : Evict(k)
              \/ \E l \in Limiters : sweep(l)
              \/ Instant

GuardsSpec == GuardsInit /\ [][GuardsNext]_guardVars

-----------------------------------------------------------------------------
\* The requests with an idempotency key whose chain runs: past the store, the
\* response not yet captured.
Inside == Limiters \cup {"auth", "handler", "leaving"}

WorkingOn == [k \in IdKeys |-> {r \in Reqs : greq[r].asks.key = k /\ greq[r].at \in Inside}]
KeptFor == [k \in IdKeys |-> \E e \in store[k] : captured[e] # {}]
ProducedFor == [k \in IdKeys |-> UNION {captured[r] : r \in {q \in Reqs : greq[q].asks.key = k}}]
GivenTo == [r \in Reqs |-> {a \in greq[r].got : greq[r].on # {} /\ a # 408}]
CarriedBy == [r \in Reqs |-> {k \in IdKeys : k = greq[r].asks.key /\ ~Stands(r, "new")}]

Replies == {EmptyOK, 200, 400, 401, 403, 404, 409, 413, 422, 429, 500}

Once == INSTANCE OncePerKey WITH
  Keys <- IdKeys, Answers <- Replies,
  working <- WorkingOn, kept <- KeptFor, produced <- ProducedFor, given <- GivenTo,
  carries <- CarriedBy

\* The chain of handlers runs for at most one request of an idempotency key
\* at a time, never while an answer of the key is kept, and a duplicate is
\* given an answer a run of its own key captured: the engine implements
\* OncePerKey, a step that leaves the engine alone being no step of it.
HandledOnce ==
  /\ Once!OnceInit
  /\ [][UNCHANGED guardVars \/ Once!OnceNext]_(Once!onceVars)

\* A limiter forgets or restarts a bucket only once its window has passed:
\* neither the janitor, with a time read before it had the mutex, nor a
\* request delayed between reading the time and counting itself, hands out
\* a second budget early.
WindowsKept ==
  [][\A l \in Limiters, k \in RateKeys : \A c \in counters[l][k] :
       \/ instant > c.expiry
       \/ \E d \in counters'[l][k] : d.expiry = c.expiry /\ d.count \in c.count..Budget[l]]_guardVars

\* A duplicate costs nothing: a request answered from the store, or waiting
\* for it, is counted by no limiter and meets none.  The builder installs the store ahead of
\* the limiters for this.
ReplaysAreFree == \A r \in Reqs : greq[r].on # {} => greq[r].counted = {} /\ greq[r].at \notin Limiters

\* A duplicate that waits is never left waiting: the request that made its
\* entry still runs and will store its answer, or the answer is there, also
\* when the handler panicked or the entry was evicted meanwhile.
NoneStranded ==
  \A r \in Reqs : Stands(r, "wait") => \E e \in greq[r].on : captured[e] # {} \/ greq[e].at \in Inside

\* A duplicate is answered as the request it repeats was: "the full HTTP
\* response is captured and stored. Any subsequent request with the same key
\* receives the stored response".
AnsweredAlike ==
  \A r, e \in Reqs : (Stands(r, "done") /\ Stands(e, "done") /\ e \in greq[r].on)
                      => greq[r].got \ {408} \subseteq greq[e].got

\* A duplicate is counted by no limiter and never left waiting, and a limiter
\* hands out no second budget within a window, however requests, the janitor
\* and the evictions of entries interleave (Idempotency, waitResponse,
\* InMemoryLimiter.Allow, sweep).
GuardsHold == [](ReplaysAreFree /\ NoneStranded) /\ WindowsKept
=============================================================================
