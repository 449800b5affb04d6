----------------------------- MODULE GuardProofs -----------------------------
(***************************************************************************)
(* Proofs about RequestGuards: it implements OncePerKey and keeps its       *)
(* limiters' windows, for any requests, keys, budgets and windows.          *)
(***************************************************************************)
EXTENDS RequestGuards, TLAPS

-----------------------------------------------------------------------------
(* The inductive invariant.                                                 *)

Stages == {"new", "keyed", "wait", "answering", "done"} \cup Inside
Read == 0..(LastInstant + 1)
Written == {200, 400, 429}
Failures == {"unauthenticated"} \cup {a.does : a \in Asks}
Requests == [at : Stages, asks : Asks, now : Read, on : SUBSET Reqs, written : SUBSET Written, failed : SUBSET Failures,
             got : SUBSET Int, counted : SUBSET Limiters]

GuardsType ==
  /\ instant \in 0..LastInstant
  /\ store \in [IdKeys -> SUBSET Reqs] /\ captured \in [Reqs -> SUBSET {EmptyOK, 200, 400, 429}]
  /\ due \in [Reqs -> Nat] /\ greq \in [Reqs -> Requests]
\* Until it is past the store a request carries nothing.
Fresh(r) == greq[r].at \in {"new", "keyed"} => greq[r].on = {} /\ greq[r].got = {} /\ greq[r].counted = {} /\ captured[r] = {}
\* Whoever works under a key is the one its entry names, and has captured nothing yet.
Works(r) == greq[r].at \in Inside /\ greq[r].asks.key \in IdKeys =>
              store[greq[r].asks.key] = {r} /\ captured[r] = {} /\ greq[r].on = {}
\* A response is written once, and only a creator's is captured.
Writes(r) ==
  /\ greq[r].written = {} \/ \E w \in {200, 400, 429} : greq[r].written = {w}
  /\ captured[r] # {} => \E a \in {EmptyOK, 200, 400, 429} : captured[r] = {a}
  /\ captured[r] # {} => greq[r].at \in {"answering", "done"} /\ greq[r].asks.key \in IdKeys
\* A duplicate only waits, on a request of its own key that works or has captured.
Repeats(r) ==
  greq[r].on # {} =>
    /\ greq[r].at \in {"wait", "done"} /\ greq[r].counted = {}
    /\ \E e \in Reqs : /\ greq[r].on = {e} /\ greq[e].asks.key \in IdKeys /\ greq[e].asks.key = greq[r].asks.key
                       /\ captured[e] # {} \/ greq[e].at \in Inside
Waits(r) == greq[r].at = "wait" => greq[r].on # {} /\ greq[r].got = {}
\* The entry of a key is one request of it, that works or has captured.
Entry(k) ==
  store[k] = {} \/ \E e \in Reqs : /\ store[k] = {e} /\ greq[e].asks.key = k /\ greq[e].at \notin {"new", "keyed"}
                                   /\ captured[e] # {} \/ greq[e].at \in Inside
\* A limiter met is installed, and the time a request holds has been.
Counts(r) == (greq[r].at \in Limiters => Budget[greq[r].at] > 0) /\ greq[r].now <= instant + 1
GuardsInv ==
  /\ GuardsType
  /\ \A r \in Reqs : Fresh(r) /\ Works(r) /\ Writes(r) /\ Repeats(r) /\ Waits(r) /\ Counts(r)
  /\ \A k \in IdKeys : Entry(k)

LEMMA LimitersAre == Limiters = {"global", "ip", "user"}
BY GuardsAssumption, Zenon DEF Limiters

LEMMA AfterIsInside ==
    ASSUME NEW s \in {"start", "global", "ip", "auth", "user"}, NEW a
    PROVE  /\ After(s, a) \in {"global", "ip", "auth", "user", "handler"}
           /\ After(s, a) \in Limiters => Budget[After(s, a)] > 0
<1> DEFINE later == {i \in Meets(a) : s = "start" \/ \E j \in 1..(i - 1) : Chain[j] = s}
<1>1. later \subseteq 1..5 /\ 5 \in Meets(a)
    BY LimitersAre DEF Meets, Chain
<1>2. 5 \in later
    <2>1. CASE s = "start"
        BY <1>1, <2>1, Zenon
    <2>2. CASE s = "global"
        <3>1. Chain[1] = s /\ 1 \in 1..(5 - 1)
            BY <2>2 DEF Chain
        <3>2. QED
            BY <1>1, <3>1, Zenon
    <2>3. CASE s = "ip"
        <3>1. Chain[2] = s /\ 2 \in 1..(5 - 1)
            BY <2>3 DEF Chain
        <3>2. QED
            BY <1>1, <3>1, Zenon
    <2>4. CASE s = "auth"
        <3>1. Chain[3] = s /\ 3 \in 1..(5 - 1)
            BY <2>4 DEF Chain
        <3>2. QED
            BY <1>1, <3>1, Zenon
    <2>5. CASE s = "user"
        <3>1. Chain[4] = s /\ 4 \in 1..(5 - 1)
            BY <2>5 DEF Chain
        <3>2. QED
            BY <1>1, <3>1, Zenon
    <2>6. QED
        BY <2>1, <2>2, <2>3, <2>4, <2>5, Zenon
<1> DEFINE first == CHOOSE i \in later : \A j \in later : i <= j
<1>3. first \in later
    <2> HIDE DEF later
    <2>1. \E i \in later : \A j \in later : i <= j
        <3>1. CASE 1 \in later
            BY <1>1, <3>1
        <3>2. CASE 1 \notin later /\ 2 \in later
            BY <1>1, <3>2
        <3>3. CASE 1 \notin later /\ 2 \notin later /\ 3 \in later
            BY <1>1, <3>3
        <3>4. CASE 1 \notin later /\ 2 \notin later /\ 3 \notin later /\ 4 \in later
            BY <1>1, <3>4
        <3>5. CASE 1 \notin later /\ 2 \notin later /\ 3 \notin later /\ 4 \notin later
            BY <1>1, <1>2, <3>5
        <3>6. QED
            BY <3>1, <3>2, <3>3, <3>4, <3>5, Zenon
    <2>2. QED
        BY <2>1, Zenon
<1>4. first \in Meets(a) /\ first \in 1..5
    BY <1>1, <1>3, Zenon
<1>5. After(s, a) = Chain[first]
    BY Zenon DEF After
<1> HIDE DEF first
<1>6. Chain[first] \in {"global", "ip", "auth", "user", "handler"}
    BY <1>4 DEF Chain
<1>7. Chain[first] \in Limiters => Budget[Chain[first]] > 0
    BY <1>4, Zenon DEF Meets
<1>8. QED
    BY <1>5, <1>6, <1>7, Zenon

LEMMA Times == /\ Window \in Nat \ {0} /\ KeepFor \in Nat \ {0} /\ LastInstant \in Nat /\ \A l \in Limiters : Budget[l] \in Nat
               /\ NoKey \notin IdKeys /\ LongKey \notin IdKeys /\ Asks # {}
BY GuardsAssumption, Zenon DEF Limiters, NoKey, LongKey

LEMMA IdleIsARequest == Idle \in Requests /\ Idle.at = "new" /\ Idle.on = {} /\ Idle.got = {} /\ Idle.counted = {}
                        /\ Idle.written = {} /\ Idle.now = 0
<1>1. (CHOOSE a \in Asks : TRUE) \in Asks
    BY Times, Zenon
<1>2. 0 \in Read
    BY Times DEF Read
<1>3. QED
    BY <1>1, <1>2, Zenon DEF Idle, Requests, Stages

LEMMA GuardsInvInit == GuardsInit => GuardsInv
<1> SUFFICES ASSUME GuardsInit PROVE GuardsInv
    BY Zenon
<1>1. GuardsType
    BY Times, IdleIsARequest DEF GuardsInit, GuardsType
<1>2. ASSUME NEW r \in Reqs PROVE Fresh(r) /\ Works(r) /\ Writes(r) /\ Repeats(r) /\ Waits(r) /\ Counts(r)
    <2>1. greq[r] = Idle /\ captured[r] = {} /\ instant = 0
        BY Zenon DEF GuardsInit
    <2>2. "new" \notin Inside /\ "new" \notin Limiters
        BY LimitersAre, Zenon DEF Inside
    <2>3. QED
        BY <2>1, <2>2, IdleIsARequest DEF Fresh, Works, Writes, Repeats, Waits, Counts
<1>3. ASSUME NEW k \in IdKeys PROVE Entry(k)
    BY Zenon DEF GuardsInit, Entry
<1>4. QED
    BY <1>1, <1>2, <1>3, Zenon DEF GuardsInv

-----------------------------------------------------------------------------
(* What the steps of a request leave alone.                                 *)

\* r alone moves, and neither the store nor what is captured changes.
Alone(r, req) ==
  greq' = [greq EXCEPT ![r] = req] /\ UNCHANGED <<instant, store, captured, due>>

\* A step of r that keeps what others rely on, and leaves it in order.
LEMMA AloneKeeps ==
    ASSUME GuardsInv, NEW r \in Reqs, NEW req \in Requests, Alone(r, req),
           greq[r].at \notin {"new", "keyed"} => req.asks = greq[r].asks,
           greq[r].at \in {"new", "keyed"} => captured[r] = {},
           greq[r].at \in Inside => req.at \in Inside,
           captured[r] # {} => req.at \in {"answering", "done"},
           req.at \notin {"new", "keyed"} \/ greq[r].at \in {"new", "keyed"},
           Fresh(r)', Works(r)', Writes(r)', Repeats(r)', Waits(r)', Counts(r)'
    PROVE  GuardsInv'
<1>1. GuardsType'
    BY Zenon DEF Alone, GuardsInv, GuardsType
<1>2. greq'[r] = req /\ \A q \in Reqs \ {r} : greq'[q] = greq[q]
    BY DEF Alone, GuardsInv, GuardsType
<1>3. captured' = captured /\ store' = store /\ instant' = instant
    BY Zenon DEF Alone
<1>4. ASSUME NEW q \in Reqs, q # r PROVE (Fresh(q) /\ Works(q) /\ Writes(q) /\ Waits(q) /\ Counts(q))'
    BY <1>2, <1>3, <1>4 DEF GuardsInv, Fresh, Works, Writes, Waits, Counts
<1>5. ASSUME NEW q \in Reqs, q # r PROVE Repeats(q)'
    <2>1. SUFFICES ASSUME greq[q].on # {} PROVE Repeats(q)'
        BY <1>2, <1>5, Zenon DEF Repeats
    <2>2. PICK e \in Reqs : /\ greq[q].on = {e} /\ greq[e].asks.key \in IdKeys /\ greq[e].asks.key = greq[q].asks.key
                            /\ captured[e] # {} \/ greq[e].at \in Inside
        BY <2>1, Zenon DEF GuardsInv, Repeats
    <2>3. greq[e].at \notin {"new", "keyed"}
        BY <2>2, LimitersAre, Zenon DEF GuardsInv, Fresh, Inside
    <2>4. greq'[e].asks = greq[e].asks /\ (captured'[e] # {} \/ greq'[e].at \in Inside)
        BY <1>2, <1>3, <2>2, <2>3, Zenon
    <2>5. QED
        BY <1>2, <1>5, <2>2, <2>4 DEF GuardsInv, Repeats
<1>6. ASSUME NEW k \in IdKeys PROVE Entry(k)'
    <2>1. CASE store[k] = {}
        BY <1>3, <2>1, Zenon DEF Entry
    <2>2. CASE store[k] # {}
        <3>1. PICK e \in Reqs : /\ store[k] = {e} /\ greq[e].asks.key = k /\ greq[e].at \notin {"new", "keyed"}
                                /\ captured[e] # {} \/ greq[e].at \in Inside
            BY <2>2, Zenon DEF GuardsInv, Entry
        <3>2. greq'[e].asks = greq[e].asks /\ (captured'[e] # {} \/ greq'[e].at \in Inside) /\ greq'[e].at \notin {"new", "keyed"}
            BY <1>2, <1>3, <3>1, Zenon
        <3>3. QED
            BY <1>3, <3>1, <3>2, Zenon DEF Entry
    <2>3. QED
        BY <2>1, <2>2, Zenon
<1>7. QED
    BY <1>1, <1>4, <1>5, <1>6, Zenon DEF GuardsInv

LEMMA InsideIs == Inside = {"global", "ip", "user", "auth", "handler", "leaving"}
BY LimitersAre, Zenon DEF Inside

LEMMA StagesAre == /\ \A s \in Inside : s \in Stages
                   /\ "new" \in Stages /\ "keyed" \in Stages /\ "wait" \in Stages /\ "answering" \in Stages /\ "done" \in Stages
BY Zenon DEF Stages

\* A request as it arrives, is answered and is sent on.
LEMMA AsksOf == ASSUME NEW q \in Requests, NEW s \in Stages, NEW a \in Asks PROVE [q EXCEPT !.at = s, !.asks = a] \in Requests
BY Zenon DEF Requests
LEMMA GotOf == ASSUME NEW q \in Requests, NEW s \in Stages, NEW g \in SUBSET Int PROVE [q EXCEPT !.at = s, !.got = g] \in Requests
BY Zenon DEF Requests
LEMMA OnOf == ASSUME NEW q \in Requests, NEW s \in Stages, NEW o \in SUBSET Reqs PROVE [q EXCEPT !.at = s, !.on = o] \in Requests
BY Zenon DEF Requests
LEMMA AtOf == ASSUME NEW q \in Requests, NEW s \in Stages PROVE [q EXCEPT !.at = s] \in Requests
BY Zenon DEF Requests
LEMMA WrittenOf ==
    ASSUME NEW q \in Requests, NEW s \in Stages, NEW w \in SUBSET Written
    PROVE  [q EXCEPT !.at = s, !.written = w] \in Requests
BY Zenon DEF Requests
LEMMA FailedOf ==
    ASSUME NEW q \in Requests, NEW s \in Stages, NEW f \in SUBSET Failures
    PROVE  [q EXCEPT !.at = s, !.failed = f] \in Requests
BY Zenon DEF Requests
LEMMA HandledOf ==
    ASSUME NEW q \in Requests, NEW s \in Stages, NEW w \in SUBSET Written, NEW f \in SUBSET Failures
    PROVE  [q EXCEPT !.at = s, !.written = w, !.failed = f] \in Requests
BY Zenon DEF Requests
LEMMA CountedOf ==
    ASSUME NEW q \in Requests, NEW s \in Stages, NEW n \in Read, NEW c \in SUBSET Limiters, NEW w \in SUBSET Written
    PROVE  [q EXCEPT !.now = n, !.counted = c, !.at = s, !.written = w] \in Requests
BY Zenon DEF Requests

\* The steps a request takes by itself.
LEMMA RequestKeeps ==
    ASSUME GuardsInv, NEW r \in Reqs,
           \/ Arrive(r) \/ waitResponse(r) \/ GivenUp(r) \/ ReadsTime(r) \/ Allow(r)
           \/ Authenticated(r) \/ Handle(r) \/ ErrorHandler(r)
    PROVE  GuardsInv'
<1> USE DEF Stands, Goes
<1>0. /\ greq \in [Reqs -> Requests] /\ greq[r] \in Requests
      /\ Fresh(r) /\ Works(r) /\ Writes(r) /\ Repeats(r) /\ Waits(r) /\ Counts(r)
      /\ captured[r] \in SUBSET {EmptyOK, 200, 400, 429}
    BY DEF GuardsInv, GuardsType
<1>1. CASE Arrive(r)
    <2>1. PICK a \in Asks : greq' = [greq EXCEPT ![r] = [greq[r] EXCEPT !.at = "keyed", !.asks = a]]
        BY <1>1, Zenon DEF Arrive
    <2> DEFINE req == [greq[r] EXCEPT !.at = "keyed", !.asks = a]
    <2>6. req \in Requests
        BY <1>0, StagesAre, AsksOf, Zenon
    <2>2. /\ req.at = "keyed" /\ req.on = greq[r].on /\ req.got = greq[r].got /\ req.counted = greq[r].counted
          /\ req.written = greq[r].written /\ req.now = greq[r].now
        BY <1>0 DEF Requests
    <2>3. Alone(r, req) /\ greq'[r] = req /\ captured' = captured /\ instant' = instant /\ greq[r].at = "new"
        BY <1>0, <1>1, <2>1, Zenon DEF Alone, Arrive
    <2> HIDE DEF req
    <2>4. Fresh(r)' /\ Works(r)' /\ Writes(r)' /\ Repeats(r)' /\ Waits(r)' /\ Counts(r)'
        BY <1>0, <2>2, <2>3, InsideIs, LimitersAre DEF Fresh, Works, Writes, Repeats, Waits, Counts
    <2>5. QED
        BY <1>0, <2>2, <2>3, <2>4, <2>6, InsideIs, AloneKeeps DEF Fresh
<1>2. CASE waitResponse(r) \/ GivenUp(r)
    <2>1. PICK got \in SUBSET Int : greq' = [greq EXCEPT ![r] = [greq[r] EXCEPT !.at = "done", !.got = got]]
        <3>1. CASE GivenUp(r)
            <4>1. {408} \in SUBSET Int
                OBVIOUS
            <4>2. QED
                BY <3>1, <4>1, Zenon DEF GivenUp
        <3>2. CASE waitResponse(r)
            <4>1. PICK e \in greq[r].on : greq' = [greq EXCEPT ![r] = [greq[r] EXCEPT !.at = "done", !.got = captured[e]]]
                BY <3>2, Zenon DEF waitResponse
            <4>2. captured[e] \in SUBSET Int
                BY <1>0, <4>1 DEF GuardsInv, GuardsType, Requests, EmptyOK
            <4>3. QED
                BY <4>1, <4>2, Zenon
        <3>3. QED
            BY <1>2, <3>1, <3>2, Zenon
    <2> DEFINE req == [greq[r] EXCEPT !.at = "done", !.got = got]
    <2>9. req \in Requests
        BY <1>0, StagesAre, GotOf, Zenon
    <2>2. /\ req.at = "done" /\ req.on = greq[r].on /\ req.counted = greq[r].counted
          /\ req.written = greq[r].written /\ req.now = greq[r].now /\ req.asks = greq[r].asks
        BY <1>0 DEF Requests
    <2>3. Alone(r, req) /\ greq'[r] = req /\ captured' = captured /\ instant' = instant /\ greq[r].at = "wait"
        BY <1>0, <1>2, <2>1, ZenonT(30) DEF Alone, waitResponse, GivenUp
    <2>4. \A q \in Reqs \ {r} : greq'[q] = greq[q]
        BY <1>0, <2>3 DEF Alone
    <2> HIDE DEF req
    <2>5. Fresh(r)' /\ Works(r)' /\ Writes(r)' /\ Waits(r)' /\ Counts(r)'
        BY <1>0, <2>2, <2>3, InsideIs, LimitersAre DEF Fresh, Works, Writes, Waits, Counts
    <2>6. Repeats(r)'
        <3>1. PICK e \in Reqs : /\ greq[r].on = {e} /\ greq[e].asks.key \in IdKeys /\ greq[e].asks.key = greq[r].asks.key
                                /\ captured[e] # {} \/ greq[e].at \in Inside
            BY <1>0, <2>3 DEF Repeats, Waits
        <3>2. captured[r] = {} /\ e # r
            BY <1>0, <2>3, <3>1, InsideIs DEF Writes
        <3>3. QED
            BY <1>0, <2>2, <2>3, <2>4, <3>1, <3>2 DEF Repeats
    <2>8. greq[r].at \notin Inside /\ captured[r] = {}
        BY <1>0, <2>3, InsideIs DEF Writes
    <2>7. QED
        BY <1>0, <2>2, <2>3, <2>5, <2>6, <2>8, <2>9, AloneKeeps
<1>3. CASE ReadsTime(r)
    <2> DEFINE req == [greq[r] EXCEPT !.now = instant + 1]
    <2>0. instant + 1 \in Read /\ instant \in Nat
        BY Times DEF GuardsInv, GuardsType, Read
    <2>1. /\ req \in Requests /\ req.at = greq[r].at /\ req.on = greq[r].on /\ req.got = greq[r].got /\ req.counted = greq[r].counted
          /\ req.written = greq[r].written /\ req.now = instant + 1 /\ req.asks = greq[r].asks
        BY <1>0, <2>0 DEF Requests
    <2>2. Alone(r, req) /\ greq'[r] = req /\ captured' = captured /\ instant' = instant /\ store' = store /\ greq[r].at \in Limiters
        BY <1>0, <1>3, SMTT(20) DEF Alone, ReadsTime
    <2> HIDE DEF req
    <2>3. Fresh(r)' /\ Works(r)' /\ Writes(r)' /\ Repeats(r)' /\ Waits(r)' /\ Counts(r)'
        BY <1>0, <2>0, <2>1, <2>2, InsideIs, LimitersAre, SMTT(20) DEF Fresh, Works, Writes, Repeats, Waits, Counts
    <2>4. QED
        BY <1>0, <2>1, <2>2, <2>3, LimitersAre, AloneKeeps DEF Writes
\* The rest of the steps are taken inside the store, or after it.
<1>4. ASSUME NEW req \in Requests, Alone(r, req), greq[r].at \in Inside, req.at \in Inside, req.asks = greq[r].asks, req.on = greq[r].on,
             req.written = greq[r].written \/ req.written = {} \/ \E w \in Written : req.written = {w},
             req.now = greq[r].now \/ req.now = 0, req.at \in Limiters => Budget[req.at] > 0
      PROVE  GuardsInv'
    <2>1. greq'[r] = req /\ captured' = captured /\ store' = store /\ instant' = instant
        BY <1>0, <1>4 DEF Alone
    <2>2. greq[r].on = {} /\ captured[r] = {} /\ instant \in Nat
        <3>1. greq[r].on = {}
            BY <1>0, <1>4, InsideIs DEF Repeats
        <3>2. captured[r] = {}
            BY <1>0, <1>4, InsideIs DEF Writes
        <3>3. instant \in Nat
            BY Times DEF GuardsInv, GuardsType
        <3>4. QED
            BY <3>1, <3>2, <3>3, Zenon
    <2>3. Fresh(r)' /\ Works(r)' /\ Repeats(r)' /\ Waits(r)'
        BY <1>0, <1>4, <2>1, <2>2, InsideIs DEF Fresh, Works, Repeats, Waits
    <2>4. Writes(r)'
        BY <1>0, <1>4, <2>1, <2>2, SMTT(20) DEF Writes, Written
    <2>5. Counts(r)'
        BY <1>0, <1>4, <2>1, <2>2 DEF Counts
    <2>6. greq[r].at \notin {"new", "keyed"} /\ req.at \notin {"new", "keyed"}
        BY <1>4, InsideIs, Zenon
    <2>7. QED
        BY <1>4, <2>2, <2>3, <2>4, <2>5, <2>6, AloneKeeps, Zenon
<1>5. CASE Allow(r)
    <2> DEFINE l == greq[r].at
               yes == Allowed(l, rateLimitKey(l, greq[r].asks), greq[r].now - 1)
               to == IF yes THEN After(l, greq[r].asks) ELSE "leaving"
               what == IF yes THEN greq[r].written ELSE {429}
               req == [greq[r] EXCEPT !.now = 0, !.counted = greq[r].counted \cup {l}, !.at = to, !.written = what]
    <2>1. l \in Limiters /\ Alone(r, req)
        BY <1>5, Zenon DEF Allow, Alone
    <2> HIDE DEF yes
    <2>2. to \in Inside /\ (to \in Limiters => Budget[to] > 0)
        <3>1. l \in {"start", "global", "ip", "auth", "user"}
            BY <2>1, LimitersAre, Zenon
        <3>2. CASE yes
            BY <3>1, <3>2, AfterIsInside, InsideIs, Zenon
        <3>3. CASE ~yes
            BY <3>3, InsideIs, LimitersAre, Zenon
        <3>4. QED
            BY <3>2, <3>3, Zenon
    <2>3. 0 \in Read /\ what \in SUBSET Written /\ (what = greq[r].written \/ \E w \in Written : what = {w})
        BY <1>0, Times DEF Read, Requests, Written
    <2>4. greq[r].counted \cup {l} \in SUBSET Limiters
        BY <1>0, <2>1 DEF Requests
    <2> HIDE DEF to, what
    <2>5. req \in Requests
        BY <1>0, <2>2, <2>3, <2>4, StagesAre, CountedOf, Zenon
    <2>6. req.at = to /\ req.asks = greq[r].asks /\ req.on = greq[r].on /\ req.written = what /\ req.now = 0
        BY <1>0 DEF Requests
    <2> HIDE DEF req
    <2>7. l \in Inside
        BY <2>1, Zenon DEF Inside
    <2>8. QED
        BY <1>4, <2>1, <2>2, <2>3, <2>5, <2>6, <2>7, Zenon
<1>6. CASE Authenticated(r)
    <2>1. CASE greq[r].asks.user = "nobody"
        <3> DEFINE req == [greq[r] EXCEPT !.at = "leaving", !.failed = {"unauthenticated"}]
        <3>1. Alone(r, req) /\ greq[r].at = "auth"
            BY <1>6, <2>1, Zenon DEF Authenticated, Alone
        <3>2. {"unauthenticated"} \in SUBSET Failures /\ "leaving" \in Inside /\ "auth" \in Inside /\ "leaving" \notin Limiters
            BY LimitersAre, Zenon DEF Failures, Inside
        <3>3. req \in Requests
            BY <1>0, <3>2, StagesAre, FailedOf, Zenon
        <3>4. req.at = "leaving" /\ req.asks = greq[r].asks /\ req.on = greq[r].on /\ req.written = greq[r].written /\ req.now = greq[r].now
            BY <1>0 DEF Requests
        <3> HIDE DEF req
        <3>5. QED
            BY <1>4, <3>1, <3>2, <3>3, <3>4, Zenon
    <2>2. CASE greq[r].asks.user # "nobody"
        <3> DEFINE to == After("auth", greq[r].asks)
                   req == [greq[r] EXCEPT !.at = to]
        <3>1. Alone(r, req) /\ greq[r].at = "auth"
            BY <1>6, <2>2, Zenon DEF Authenticated, Alone
        <3>2. to \in Inside /\ (to \in Limiters => Budget[to] > 0) /\ "auth" \in Inside
            BY AfterIsInside, InsideIs, Zenon
        <3> HIDE DEF to
        <3>3. req \in Requests
            BY <1>0, <3>2, StagesAre, AtOf
        <3>4. req.at = to /\ req.asks = greq[r].asks /\ req.on = greq[r].on /\ req.written = greq[r].written /\ req.now = greq[r].now
            BY <1>0 DEF Requests
        <3> HIDE DEF req
        <3>5. QED
            BY <1>4, <3>1, <3>2, <3>3, <3>4, Zenon
    <2>3. QED
        BY <2>1, <2>2, Zenon
<1>7. CASE Handle(r)
    <2> DEFINE d == greq[r].asks.does
               w == IF d = "ok" THEN {200} ELSE {}
               f == IF d = "ok" THEN {} ELSE {d}
               req == [greq[r] EXCEPT !.at = "leaving", !.written = w, !.failed = f]
    <2>1. Alone(r, req) /\ greq[r].at = "handler"
        BY <1>7, Zenon DEF Handle, Alone
    <2>2. w \in SUBSET Written /\ f \in SUBSET Failures /\ (w = {} \/ \E x \in Written : w = {x})
        BY <1>0 DEF Written, Failures, Requests
    <2>3. "leaving" \in Inside /\ "handler" \in Inside /\ "leaving" \notin Limiters
        BY InsideIs, LimitersAre, Zenon
    <2> HIDE DEF w, f
    <2>4. req \in Requests
        BY <1>0, <2>2, <2>3, StagesAre, HandledOf, ZenonT(30)
    <2>5. req.at = "leaving" /\ req.asks = greq[r].asks /\ req.on = greq[r].on /\ req.written = w /\ req.now = greq[r].now
        BY <1>0 DEF Requests
    <2> HIDE DEF req
    <2>6. QED
        BY <1>4, <2>1, <2>2, <2>3, <2>4, <2>5, Zenon
<1>8. CASE ErrorHandler(r)
    <2> DEFINE g == IF greq[r].written # {} THEN greq[r].written
                    ELSE IF greq[r].failed # {} THEN {GetHTTPStatus(c) : c \in greq[r].failed} ELSE {EmptyOK}
               req == [greq[r] EXCEPT !.at = "done", !.got = g]
    <2>1. Alone(r, req) /\ greq[r].at = "answering"
        BY <1>8, Zenon DEF ErrorHandler, Alone
    <2>2. g \in SUBSET Int
        <3>1. \A c : GetHTTPStatus(c) \in Int
            BY DEF GetHTTPStatus
        <3>2. QED
            BY <1>0, <3>1 DEF Requests, Written, EmptyOK
    <2> HIDE DEF g
    <2>3. req \in Requests
        BY <1>0, <2>2, StagesAre, GotOf, Zenon
    <2>4. /\ req.at = "done" /\ req.asks = greq[r].asks /\ req.on = greq[r].on /\ req.written = greq[r].written
          /\ req.now = greq[r].now /\ req.counted = greq[r].counted
        BY <1>0 DEF Requests
    <2> HIDE DEF req
    <2>5. greq'[r] = req /\ captured' = captured /\ instant' = instant /\ greq[r].on = {} /\ greq[r].at \notin Inside
        BY <1>0, <2>1, InsideIs DEF Alone, Repeats
    <2>6. (Fresh(r) /\ Works(r) /\ Writes(r) /\ Repeats(r) /\ Waits(r) /\ Counts(r))'
        BY <1>0, <2>4, <2>5, InsideIs, LimitersAre DEF Fresh, Works, Writes, Repeats, Waits, Counts
    <2>7. QED
        BY <2>1, <2>3, <2>4, <2>5, <2>6, AloneKeeps, Zenon
<1>9. QED
    BY <1>1, <1>2, <1>3, <1>5, <1>6, <1>7, <1>8, Zenon

LEMMA IdempotencyKeeps == ASSUME GuardsInv, NEW r \in Reqs, Idempotency(r) PROVE GuardsInv'
<1> DEFINE k == greq[r].asks.key
           first == After("start", greq[r].asks)
<1>0. /\ greq \in [Reqs -> Requests] /\ greq[r] \in Requests /\ greq[r].at = "keyed" /\ captured[r] = {} /\ greq[r].on = {}
      /\ Fresh(r) /\ Works(r) /\ Writes(r) /\ Repeats(r) /\ Waits(r) /\ Counts(r) /\ greq[r].counted = {} /\ greq[r].got = {}
      /\ "keyed" \notin Inside /\ "leaving" \in Inside /\ "leaving" \notin Limiters /\ "wait" \notin Inside /\ "wait" \notin Limiters
    BY InsideIs, LimitersAre DEF GuardsInv, GuardsType, Idempotency, Stands, Fresh
<1>1. first \in Inside /\ first \notin {"new", "keyed", "wait"} /\ (first \in Limiters => Budget[first] > 0)
    BY AfterIsInside, InsideIs, Zenon
<1> HIDE DEF first
\* Past the store without an entry.
<1>2. ASSUME NEW req \in Requests, Alone(r, req), k \notin IdKeys, req.asks = greq[r].asks, req.at \in Inside, req.on = {},
             req.written = greq[r].written \/ req.written = {400}, req.now = greq[r].now, req.at \in Limiters => Budget[req.at] > 0
      PROVE  GuardsInv'
    <2>1. greq'[r] = req /\ captured' = captured /\ instant' = instant
        BY <1>0, <1>2 DEF Alone
    <2>2. (Fresh(r) /\ Works(r) /\ Writes(r) /\ Repeats(r) /\ Waits(r) /\ Counts(r))'
        BY <1>0, <1>2, <2>1, InsideIs DEF Fresh, Works, Writes, Repeats, Waits, Counts
    <2>3. QED
        BY <1>0, <1>2, <2>2, AloneKeeps
<1>3. CASE k = NoKey /\ Goes(r, [greq[r] EXCEPT !.at = first]) /\ UNCHANGED store
    <2> DEFINE req == [greq[r] EXCEPT !.at = first]
    <2>1. Alone(r, req) /\ k \notin IdKeys
        BY <1>3, Times, Zenon DEF Idempotency, Goes, Alone
    <2>2. req \in Requests
        BY <1>0, <1>1, StagesAre, AtOf, Zenon
    <2>3. req.at = first /\ req.asks = greq[r].asks /\ req.on = greq[r].on /\ req.written = greq[r].written /\ req.now = greq[r].now
        BY <1>0, Zenon DEF Requests
    <2> HIDE DEF req
    <2>4. QED
        BY <1>0, <1>1, <1>2, <2>1, <2>2, <2>3, Zenon
<1>4. CASE k = LongKey /\ Goes(r, [greq[r] EXCEPT !.at = "leaving", !.written = {400}]) /\ UNCHANGED store
    <2>1. PICK w \in SUBSET Written : w = {400}
        BY ZenonT(30) DEF Written
    <2> DEFINE req == [greq[r] EXCEPT !.at = "leaving", !.written = w]
    <2>2. Alone(r, req) /\ k \notin IdKeys
        BY <1>4, <2>1, Times DEF Idempotency, Goes, Alone
    <2>3. req \in Requests
        BY <1>0, StagesAre, WrittenOf, Zenon
    <2>4. req.at = "leaving" /\ req.asks = greq[r].asks /\ req.on = greq[r].on /\ req.written = w /\ req.now = greq[r].now
        BY <1>0, Zenon DEF Requests
    <2> HIDE DEF req
    <2>5. QED
        BY <1>0, <1>2, <2>1, <2>2, <2>3, <2>4
\* A duplicate waits on the entry it found.
<1>5. CASE k \in IdKeys /\ store[k] # {} /\ Goes(r, [greq[r] EXCEPT !.at = "wait", !.on = store[k]]) /\ UNCHANGED store
    <2> DEFINE req == [greq[r] EXCEPT !.at = "wait", !.on = store[k]]
    <2>1. Alone(r, req)
        BY <1>5, Zenon DEF Idempotency, Goes, Alone
    <2>2. PICK e \in Reqs : /\ store[k] = {e} /\ greq[e].asks.key = k /\ greq[e].at \notin {"new", "keyed"}
                            /\ captured[e] # {} \/ greq[e].at \in Inside
        BY <1>5, Zenon DEF GuardsInv, Entry
    <2>3. req \in Requests
        <3>1. store[k] \in SUBSET Reqs /\ "wait" \in Stages
            BY <2>2, StagesAre, Zenon
        <3>2. QED
            BY <1>0, <3>1, OnOf, Zenon
    <2>4. /\ req.at = "wait" /\ req.asks = greq[r].asks /\ req.on = {e} /\ req.written = greq[r].written /\ req.now = greq[r].now
          /\ req.counted = {} /\ req.got = {}
        BY <1>0, <2>2, Zenon DEF Requests
    <2>5. greq'[r] = req /\ captured' = captured /\ instant' = instant /\ greq'[e] = greq[e] /\ e # r
        BY <1>0, <2>1, <2>2, Zenon DEF Alone
    <2> HIDE DEF req
    <2>6. (Fresh(r) /\ Works(r) /\ Writes(r) /\ Waits(r) /\ Counts(r))'
        BY <1>0, <2>4, <2>5 DEF Fresh, Works, Writes, Waits, Counts
    <2>7. Repeats(r)'
        BY <1>5, <2>2, <2>4, <2>5, Zenon DEF Repeats
    <2>8. QED
        BY <1>0, <2>1, <2>3, <2>4, <2>6, <2>7, AloneKeeps, Zenon
\* The first of a key makes its entry.
<1>6. CASE k \in IdKeys /\ store[k] = {} /\ store' = [store EXCEPT ![k] = {r}] /\ Goes(r, [greq[r] EXCEPT !.at = first])
    <2> DEFINE req == [greq[r] EXCEPT !.at = first]
    <2>1. req \in Requests
        BY <1>0, <1>1, StagesAre, AtOf, Zenon
    <2>2. /\ req.at = first /\ req.asks = greq[r].asks /\ req.on = greq[r].on /\ req.written = greq[r].written /\ req.now = greq[r].now
          /\ req.counted = {} /\ req.got = {}
        BY <1>0, Zenon DEF Requests
    <2>3. greq' = [greq EXCEPT ![r] = req] /\ UNCHANGED <<instant, captured, due>>
        BY <1>6, Zenon DEF Idempotency, Goes
    <2> HIDE DEF req
    <2>4. GuardsType'
        BY <1>0, <1>6, <2>1, <2>3 DEF GuardsInv, GuardsType
    <2>5. greq'[r] = req /\ \A q \in Reqs \ {r} : greq'[q] = greq[q]
        BY <1>0, <2>3, Zenon
    <2>6. store'[k] = {r} /\ \A x \in IdKeys \ {k} : store'[x] = store[x]
        BY <1>6 DEF GuardsInv, GuardsType
    <2>7. (Fresh(r) /\ Works(r) /\ Writes(r) /\ Repeats(r) /\ Waits(r) /\ Counts(r))'
        BY <1>0, <1>1, <1>6, <2>2, <2>3, <2>5, <2>6 DEF Fresh, Works, Writes, Repeats, Waits, Counts
    <2>8. ASSUME NEW q \in Reqs, q # r PROVE (Fresh(q) /\ Works(q) /\ Writes(q) /\ Waits(q) /\ Counts(q))'
        <3>1. Fresh(q) /\ Works(q) /\ Writes(q) /\ Waits(q) /\ Counts(q) /\ greq'[q] = greq[q]
            BY <2>5, <2>8, Zenon DEF GuardsInv
        <3>2. greq[q].at \in Inside /\ greq[q].asks.key \in IdKeys => greq[q].asks.key # k
            BY <1>6, <3>1, Zenon DEF Works
        <3>3. QED
            BY <2>3, <2>6, <3>1, <3>2 DEF Fresh, Works, Writes, Waits, Counts
    <2>9. ASSUME NEW q \in Reqs, q # r PROVE Repeats(q)'
        <3>1. SUFFICES ASSUME greq[q].on # {} PROVE Repeats(q)'
            BY <2>5, <2>9, Zenon DEF Repeats
        <3>2. PICK e \in Reqs : /\ greq[q].on = {e} /\ greq[e].asks.key \in IdKeys /\ greq[e].asks.key = greq[q].asks.key
                                /\ captured[e] # {} \/ greq[e].at \in Inside
            BY <3>1, Zenon DEF GuardsInv, Repeats
        <3>3. e # r
            BY <1>0, <3>2, Zenon
        <3>4. QED
            BY <2>3, <2>5, <2>9, <3>1, <3>2, <3>3 DEF GuardsInv, Repeats
    <2>10. ASSUME NEW x \in IdKeys PROVE Entry(x)'
        <3>1. CASE x = k
            BY <1>1, <2>2, <2>5, <2>6, <3>1, Zenon DEF Entry
        <3>2. CASE x # k
            <4>1. store'[x] = store[x] /\ Entry(x)
                BY <2>6, <3>2, Zenon DEF GuardsInv
            <4>2. CASE store[x] = {}
                BY <4>1, <4>2, Zenon DEF Entry
            <4>3. CASE store[x] # {}
                <5>1. PICK e \in Reqs : /\ store[x] = {e} /\ greq[e].asks.key = x /\ greq[e].at \notin {"new", "keyed"}
                                        /\ captured[e] # {} \/ greq[e].at \in Inside
                    BY <4>1, <4>3, Zenon DEF Entry
                <5>2. e # r
                    BY <1>0, <5>1, Zenon
                <5>3. QED
                    BY <2>3, <2>5, <4>1, <5>1, <5>2, Zenon DEF Entry
            <4>4. QED
                BY <4>2, <4>3, Zenon
        <3>3. QED
            BY <3>1, <3>2, Zenon
    <2>11. QED
        BY <2>4, <2>7, <2>8, <2>9, <2>10, Zenon DEF GuardsInv
<1>7. QED
    BY <1>3, <1>4, <1>5, <1>6, Zenon DEF Idempotency, first

LEMMA SetResponseKeeps == ASSUME GuardsInv, NEW r \in Reqs, setResponse(r) PROVE GuardsInv'
<1> DEFINE req == [greq[r] EXCEPT !.at = "answering"]
           k == greq[r].asks.key
<1>0. /\ greq \in [Reqs -> Requests] /\ greq[r] \in Requests /\ greq[r].at = "leaving" /\ captured[r] = {} /\ greq[r].on = {}
      /\ Fresh(r) /\ Works(r) /\ Writes(r) /\ Repeats(r) /\ Waits(r) /\ Counts(r)
      /\ "leaving" \in Inside /\ "answering" \notin Inside /\ "answering" \notin Limiters
    BY InsideIs, LimitersAre DEF GuardsInv, GuardsType, setResponse, Stands, Writes, Repeats
<1>1. req \in Requests
    BY <1>0, StagesAre, AtOf, Zenon
<1>2. /\ req.at = "answering" /\ req.asks = greq[r].asks /\ req.on = {} /\ req.written = greq[r].written /\ req.now = greq[r].now
    BY <1>0, Zenon DEF Requests
<1>3. greq' = [greq EXCEPT ![r] = req] /\ store' = store /\ instant' = instant
    BY Zenon DEF setResponse, Goes
<1> HIDE DEF req
<1>4. greq'[r] = req /\ \A q \in Reqs \ {r} : greq'[q] = greq[q]
    BY <1>0, <1>3, Zenon
<1>5. /\ captured' \in [Reqs -> SUBSET {EmptyOK, 200, 400, 429}] /\ due' \in [Reqs -> Nat]
      /\ \A q \in Reqs \ {r} : captured'[q] = captured[q]
      /\ IF k \in IdKeys THEN \E a \in {EmptyOK, 200, 400, 429} : captured'[r] = {a} ELSE captured'[r] = {}
    <2>0. /\ instant + KeepFor \in Nat /\ captured \in [Reqs -> SUBSET {EmptyOK, 200, 400, 429}] /\ due \in [Reqs -> Nat]
          /\ Creator(r) <=> k \in IdKeys
        BY <1>0, Times DEF GuardsInv, GuardsType, Creator
    <2>1. CASE k \in IdKeys
        <3> DEFINE what == IF greq[r].written = {} THEN {EmptyOK} ELSE greq[r].written
        <3>1. \E a \in {EmptyOK, 200, 400, 429} : what = {a}
            BY <1>0 DEF Writes
        <3>2. captured' = [captured EXCEPT ![r] = what] /\ due' = [due EXCEPT ![r] = instant + KeepFor]
            BY <2>0, <2>1, Zenon DEF setResponse
        <3> HIDE DEF what
        <3>3. QED
            BY <2>0, <2>1, <3>1, <3>2
    <2>2. CASE k \notin IdKeys
        <3>1. captured' = captured /\ due' = due
            BY <2>0, <2>2 DEF setResponse
        <3>2. QED
            BY <1>0, <2>0, <2>2, <3>1
    <2>3. QED
        BY <2>1, <2>2, Zenon
<1>6. GuardsType'
    BY <1>0, <1>1, <1>3, <1>5, Zenon DEF GuardsInv, GuardsType
<1>7. (Fresh(r) /\ Works(r) /\ Writes(r) /\ Repeats(r) /\ Waits(r) /\ Counts(r))'
    BY <1>0, <1>2, <1>3, <1>4, <1>5 DEF Fresh, Works, Writes, Repeats, Waits, Counts
<1>8. ASSUME NEW q \in Reqs, q # r PROVE (Fresh(q) /\ Works(q) /\ Writes(q) /\ Waits(q) /\ Counts(q))'
    <2>1. greq'[q] = greq[q] /\ captured'[q] = captured[q] /\ store' = store /\ instant' = instant
        BY <1>3, <1>4, <1>5, <1>8, Zenon
    <2>2. Fresh(q) /\ Works(q) /\ Writes(q) /\ Waits(q) /\ Counts(q)
        BY Zenon DEF GuardsInv
    <2>3. QED
        BY <2>1, <2>2 DEF Fresh, Works, Writes, Waits, Counts
<1>9. ASSUME NEW e \in Reqs, captured[e] # {} \/ greq[e].at \in Inside, greq[e].asks.key \in IdKeys
      PROVE  /\ captured'[e] # {} \/ greq'[e].at \in Inside
             /\ greq'[e].asks = greq[e].asks
    BY <1>2, <1>4, <1>5, <1>9, SMTT(20)
<1>10. ASSUME NEW q \in Reqs, q # r PROVE Repeats(q)'
    <2>1. SUFFICES ASSUME greq[q].on # {} PROVE Repeats(q)'
        BY <1>4, <1>10, Zenon DEF Repeats
    <2>2. PICK e \in Reqs : /\ greq[q].on = {e} /\ greq[e].asks.key \in IdKeys /\ greq[e].asks.key = greq[q].asks.key
                            /\ captured[e] # {} \/ greq[e].at \in Inside
        BY <2>1, Zenon DEF GuardsInv, Repeats
    <2>3. QED
        BY <1>4, <1>9, <1>10, <2>1, <2>2 DEF GuardsInv, Repeats
<1>11. ASSUME NEW x \in IdKeys PROVE Entry(x)'
    <2>1. CASE store[x] = {}
        BY <1>3, <2>1, Zenon DEF Entry
    <2>2. CASE store[x] # {}
        <3>1. PICK e \in Reqs : /\ store[x] = {e} /\ greq[e].asks.key = x /\ greq[e].at \notin {"new", "keyed"}
                                /\ captured[e] # {} \/ greq[e].at \in Inside
            BY <2>2, Zenon DEF GuardsInv, Entry
        <3>2. greq'[e].at \notin {"new", "keyed"}
            BY <1>2, <1>4, <3>1, Zenon
        <3>3. QED
            BY <1>3, <1>9, <3>1, <3>2, Zenon DEF Entry
    <2>3. QED
        BY <2>1, <2>2, Zenon
<1>12. QED
    BY <1>6, <1>7, <1>8, <1>10, <1>11, Zenon DEF GuardsInv

\* Nothing of the requests and the store changes, and time does not go back.
LEMMA StillKeeps ==
    ASSUME GuardsInv, UNCHANGED <<store, captured, due, greq>>, instant' \in 0..LastInstant, instant <= instant'
    PROVE  GuardsInv'
<1>1. GuardsType'
    BY DEF GuardsInv, GuardsType
<1>2. ASSUME NEW r \in Reqs PROVE (Fresh(r) /\ Works(r) /\ Writes(r) /\ Repeats(r) /\ Waits(r))'
    <2>1. Fresh(r) /\ Works(r) /\ Writes(r) /\ Repeats(r) /\ Waits(r)
        BY Zenon DEF GuardsInv
    <2>2. QED
        BY <2>1 DEF Fresh, Works, Writes, Repeats, Waits
<1>3. ASSUME NEW r \in Reqs PROVE Counts(r)'
    <2>1. Counts(r) /\ greq[r] \in Requests /\ instant \in Nat /\ instant' \in Nat
        BY Times, SMTT(20) DEF GuardsInv, GuardsType
    <2>2. greq[r].now \in Nat
        BY <2>1, Times DEF Requests, Read
    <2>3. QED
        BY <2>1, <2>2 DEF Counts
<1>4. ASSUME NEW k \in IdKeys PROVE Entry(k)'
    <2>1. Entry(k)
        BY Zenon DEF GuardsInv
    <2>2. QED
        BY <2>1, Zenon DEF Entry
<1>5. QED
    BY <1>1, <1>2, <1>3, <1>4, Zenon DEF GuardsInv

LEMMA EvictKeeps == ASSUME GuardsInv, NEW k \in IdKeys, Evict(k) PROVE GuardsInv'
<1>1. UNCHANGED <<instant, captured, due, greq>> /\ store' = [store EXCEPT ![k] = {}] /\ \E e \in store[k] : captured[e] # {}
    BY Zenon DEF Evict
<1>2. GuardsType'
    BY <1>1, Zenon DEF GuardsInv, GuardsType
<1>3. store'[k] = {} /\ \A x \in IdKeys \ {k} : store'[x] = store[x]
    BY <1>1 DEF GuardsInv, GuardsType
<1>4. ASSUME NEW r \in Reqs PROVE (Fresh(r) /\ Works(r) /\ Writes(r) /\ Repeats(r) /\ Waits(r) /\ Counts(r))'
    <2>1. Fresh(r) /\ Works(r) /\ Writes(r) /\ Repeats(r) /\ Waits(r) /\ Counts(r)
        BY Zenon DEF GuardsInv
    <2>2. Works(r)'
        BY <1>1, <1>3, <2>1, Zenon DEF Works
    <2>3. (Fresh(r) /\ Writes(r) /\ Repeats(r) /\ Waits(r) /\ Counts(r))'
        BY <1>1, <2>1 DEF Fresh, Writes, Repeats, Waits, Counts
    <2>4. QED
        BY <2>2, <2>3, Zenon
<1>5. ASSUME NEW x \in IdKeys PROVE Entry(x)'
    <2>1. Entry(x)
        BY Zenon DEF GuardsInv
    <2>2. QED
        BY <1>1, <1>3, <2>1, Zenon DEF Entry
<1>6. QED
    BY <1>2, <1>4, <1>5, Zenon DEF GuardsInv

LEMMA GuardsInvStep == GuardsInv /\ [GuardsNext]_guardVars => GuardsInv'
<1> SUFFICES ASSUME GuardsInv, [GuardsNext]_guardVars PROVE GuardsInv'
    BY Zenon
<1>0. instant \in 0..LastInstant /\ instant \in Nat /\ instant <= instant
    BY Times DEF GuardsInv, GuardsType
<1>1. ASSUME NEW r \in Reqs, Arrive(r) \/ Proceeds(r) \/ GivenUp(r) PROVE GuardsInv'
    BY <1>1, RequestKeeps, IdempotencyKeeps, SetResponseKeeps, Zenon DEF Proceeds
<1>2. ASSUME NEW k \in IdKeys, Evict(k) PROVE GuardsInv'
    BY <1>2, EvictKeeps, Zenon
<1>3. ASSUME NEW l \in Limiters, sweep(l) PROVE GuardsInv'
    <2>1. UNCHANGED <<instant, store, captured, due, greq>>
        BY <1>3, Zenon DEF sweep
    <2>2. QED
        BY <1>0, <2>1, StillKeeps, Zenon
<1>4. CASE Instant
    <2>1. instant' \in 0..LastInstant /\ instant <= instant' /\ UNCHANGED <<store, captured, due, greq>>
        BY <1>0, <1>4, Times DEF Instant
    <2>2. QED
        BY <2>1, StillKeeps, Zenon
<1>5. CASE UNCHANGED guardVars
    <2>1. UNCHANGED <<instant, store, captured, due, greq>>
        BY <1>5, Zenon DEF guardVars
    <2>2. QED
        BY <1>0, <2>1, StillKeeps, Zenon
<1>6. QED
    BY <1>1, <1>2, <1>3, <1>4, <1>5, Zenon DEF GuardsNext

-----------------------------------------------------------------------------
(* A duplicate meets no limiter and is never stranded.                      *)
LEMMA InvHolds == GuardsInv => ReplaysAreFree /\ NoneStranded
<1> SUFFICES ASSUME GuardsInv PROVE ReplaysAreFree /\ NoneStranded
    BY Zenon
<1>1. ASSUME NEW r \in Reqs, greq[r].on # {} PROVE greq[r].counted = {} /\ greq[r].at \notin Limiters
    BY <1>1, LimitersAre, Zenon DEF GuardsInv, Repeats
<1>2. ASSUME NEW r \in Reqs, greq[r].at = "wait" PROVE \E e \in greq[r].on : captured[e] # {} \/ greq[e].at \in Inside
    BY <1>2, Zenon DEF GuardsInv, Repeats, Waits
<1>3. QED
    BY <1>1, <1>2, Zenon DEF ReplaysAreFree, NoneStranded, Stands

-----------------------------------------------------------------------------
(* What the abstract state of a key is made of.                             *)
LEMMA SameWork ==
    ASSUME GuardsInv, NEW r \in Reqs, NEW req \in Requests, greq' = [greq EXCEPT ![r] = req],
           \/ greq[r].asks.key \notin IdKeys /\ req.asks = greq[r].asks
           \/ (greq[r].at \in Inside <=> req.at \in Inside) /\ (req.asks = greq[r].asks \/ greq[r].at \notin Inside)
    PROVE  WorkingOn' = WorkingOn
<1>1. greq'[r] = req /\ \A q \in Reqs \ {r} : greq'[q] = greq[q]
    BY DEF GuardsInv, GuardsType
<1>2. \A q \in Reqs, k \in IdKeys :
         (greq'[q].asks.key = k /\ greq'[q].at \in Inside) <=> (greq[q].asks.key = k /\ greq[q].at \in Inside)
    BY <1>1, Zenon
<1>3. \A k \in IdKeys : {q \in Reqs : greq'[q].asks.key = k /\ greq'[q].at \in Inside}
                          = {q \in Reqs : greq[q].asks.key = k /\ greq[q].at \in Inside}
    BY <1>2
<1>4. QED
    BY <1>3, Zenon DEF WorkingOn, Inside

LEMMA SameProduce ==
    ASSUME GuardsInv, NEW r \in Reqs, NEW req \in Requests, greq' = [greq EXCEPT ![r] = req], captured' = captured,
           req.asks = greq[r].asks \/ captured[r] = {}
    PROVE  ProducedFor' = ProducedFor
<1>1. greq'[r] = req /\ \A q \in Reqs \ {r} : greq'[q] = greq[q]
    BY DEF GuardsInv, GuardsType
<1>2. \A k \in IdKeys : UNION {captured'[q] : q \in {p \in Reqs : greq'[p].asks.key = k}}
                          = UNION {captured[q] : q \in {p \in Reqs : greq[p].asks.key = k}}
    <2> TAKE k \in IdKeys
    <2>1. ASSUME NEW a PROVE a \in UNION {captured'[q] : q \in {p \in Reqs : greq'[p].asks.key = k}}
                             <=> \E q \in Reqs : greq'[q].asks.key = k /\ a \in captured[q]
        BY Zenon
    <2>2. ASSUME NEW a PROVE a \in UNION {captured[q] : q \in {p \in Reqs : greq[p].asks.key = k}}
                             <=> \E q \in Reqs : greq[q].asks.key = k /\ a \in captured[q]
        BY Zenon
    <2>3. ASSUME NEW a PROVE (\E q \in Reqs : greq'[q].asks.key = k /\ a \in captured[q])
                             <=> \E q \in Reqs : greq[q].asks.key = k /\ a \in captured[q]
        BY <1>1
    <2>4. QED
        BY <2>1, <2>2, <2>3, Zenon
<1>3. QED
    BY <1>2, Zenon DEF ProducedFor

LEMMA SameGive ==
    ASSUME GuardsInv, NEW r \in Reqs, NEW req \in Requests, greq' = [greq EXCEPT ![r] = req],
           \/ greq[r].on = {} /\ req.on = {}
           \/ \A a \in greq[r].got \cup req.got : a = 408
           \/ req.on = greq[r].on /\ req.got = greq[r].got
    PROVE  GivenTo' = GivenTo
<1>1. greq'[r] = req /\ \A q \in Reqs \ {r} : greq'[q] = greq[q]
    BY DEF GuardsInv, GuardsType
<1>2. ASSUME NEW q \in Reqs PROVE {a \in greq'[q].got : greq'[q].on # {} /\ a # 408} = {a \in greq[q].got : greq[q].on # {} /\ a # 408}
    BY <1>1
<1>3. QED
    BY <1>2 DEF GivenTo

LEMMA SameCarried ==
    ASSUME GuardsInv, NEW r \in Reqs, NEW req \in Requests, greq' = [greq EXCEPT ![r] = req],
           greq[r].at # "new" /\ req.at # "new" /\ req.asks = greq[r].asks
    PROVE  CarriedBy' = CarriedBy
<1>1. greq'[r] = req /\ \A q \in Reqs \ {r} : greq'[q] = greq[q]
    BY DEF GuardsInv, GuardsType
<1>2. ASSUME NEW q \in Reqs PROVE {k \in IdKeys : k = greq'[q].asks.key /\ ~(greq'[q].at = "new")} = {k \in IdKeys : k = greq[q].asks.key /\ ~(greq[q].at = "new")}
    BY <1>1
<1>3. QED
    BY <1>2, Zenon DEF CarriedBy, Stands

LEMMA SameKept == ASSUME UNCHANGED <<store, captured>> PROVE KeptFor' = KeptFor
BY Zenon DEF KeptFor

\* The steps that are none of OncePerKey's.
LEMMA HiddenSteps ==
    ASSUME GuardsInv, NEW r \in Reqs,
           GivenUp(r) \/ ReadsTime(r) \/ Allow(r) \/ Authenticated(r) \/ Handle(r) \/ ErrorHandler(r)
    PROVE  UNCHANGED Once!onceVars
<1> USE DEF Stands, Goes
<1>0. /\ greq \in [Reqs -> Requests] /\ greq[r] \in Requests /\ Fresh(r) /\ Works(r) /\ Writes(r) /\ Repeats(r) /\ Waits(r)
      /\ "new" \notin Inside /\ "keyed" \notin Inside /\ "wait" \notin Inside /\ "done" \notin Inside /\ "answering" \notin Inside
    BY InsideIs, Zenon DEF GuardsInv, GuardsType
<1>1. ASSUME NEW req \in Requests, Alone(r, req),
             greq[r].at \in Inside <=> req.at \in Inside,
             greq[r].at # "new" /\ req.at # "new" /\ req.asks = greq[r].asks,
             \/ greq[r].on = {} /\ req.on = {}
             \/ \A a \in greq[r].got \cup req.got : a = 408
             \/ req.on = greq[r].on /\ req.got = greq[r].got
      PROVE  UNCHANGED Once!onceVars
    <2>1. greq' = [greq EXCEPT ![r] = req] /\ UNCHANGED <<store, captured>>
        BY <1>1, Zenon DEF Alone
    <2>2. WorkingOn' = WorkingOn
        BY <1>1, <2>1, SameWork, Zenon
    <2>3. ProducedFor' = ProducedFor
        BY <1>1, <2>1, SameProduce, Zenon
    <2>4. GivenTo' = GivenTo
        BY <1>1, <2>1, SameGive, Zenon
    <2>5. CarriedBy' = CarriedBy
        BY <1>1, <2>1, SameCarried, Zenon
    <2>6. QED
        BY <2>1, <2>2, <2>3, <2>4, <2>5, SameKept, Zenon DEF Once!onceVars
\* A request the step leaves inside the store, or outside it.
<1>2. ASSUME NEW req \in Requests, Alone(r, req), greq[r].at \in Inside, req.at \in Inside, req.asks = greq[r].asks, req.on = greq[r].on
      PROVE  UNCHANGED Once!onceVars
    <2>1. greq[r].on = {}
        BY <1>0, <1>2, InsideIs, Zenon DEF Repeats
    <2>2. QED
        BY <1>0, <1>1, <1>2, <2>1
<1>3. GuardsInv' /\ greq' \in [Reqs -> Requests]
    BY RequestKeeps DEF GuardsInv, GuardsType
<1>4. CASE GivenUp(r)
    <2>0. {408} \in SUBSET Int
        OBVIOUS
    <2>1. PICK g \in SUBSET Int : g = {408}
        BY <2>0, Zenon
    <2> DEFINE req == [greq[r] EXCEPT !.at = "done", !.got = g]
    <2>2. req \in Requests
        BY <1>0, StagesAre, GotOf, Zenon
    <2>3. req.at = "done" /\ req.asks = greq[r].asks /\ req.got = g
        BY <1>0, Zenon DEF Requests
    <2>4. Alone(r, req) /\ greq[r].at = "wait"
        BY <1>4, <2>1, Zenon DEF GivenUp, Alone
    <2>5. \A a \in greq[r].got \cup req.got : a = 408
        BY <1>0, <2>1, <2>3, <2>4 DEF Waits
    <2> HIDE DEF req
    <2>6. QED
        BY <1>0, <1>1, <2>2, <2>3, <2>4, <2>5, Zenon
<1>5. ASSUME NEW req, Alone(r, req) PROVE req \in Requests /\ greq'[r] = req
    BY <1>0, <1>3, <1>5, Zenon DEF Alone
<1>6. CASE ReadsTime(r)
    <2> DEFINE req == [greq[r] EXCEPT !.now = instant + 1]
    <2>1. Alone(r, req) /\ greq[r].at \in Inside
        BY <1>6, Zenon DEF ReadsTime, Alone, Inside
    <2>2. req.at = greq[r].at /\ req.asks = greq[r].asks /\ req.on = greq[r].on
        BY <1>0, Zenon DEF Requests
    <2> HIDE DEF req
    <2>3. QED
        BY <1>2, <1>5, <2>1, <2>2, Zenon
<1>7. CASE Allow(r)
    <2> DEFINE l == greq[r].at
               yes == Allowed(l, rateLimitKey(l, greq[r].asks), greq[r].now - 1)
               to == IF yes THEN After(l, greq[r].asks) ELSE "leaving"
               what == IF yes THEN greq[r].written ELSE {429}
               req == [greq[r] EXCEPT !.now = 0, !.counted = greq[r].counted \cup {l}, !.at = to, !.written = what]
    <2>1. l \in Limiters /\ Alone(r, req)
        BY <1>7, Zenon DEF Allow, Alone
    <2> HIDE DEF yes
    <2>2. to \in Inside /\ l \in Inside
        <3>1. l \in {"start", "global", "ip", "auth", "user"}
            BY <2>1, LimitersAre, Zenon
        <3>2. QED
            BY <2>1, <3>1, AfterIsInside, InsideIs, LimitersAre, Zenon
    <2> HIDE DEF to, what
    <2>3. req.at = to /\ req.asks = greq[r].asks /\ req.on = greq[r].on
        BY <1>0, Zenon DEF Requests
    <2> HIDE DEF req
    <2>4. QED
        BY <1>2, <1>5, <2>1, <2>2, <2>3, Zenon
<1>8. CASE Authenticated(r)
    <2>1. CASE greq[r].asks.user = "nobody"
        <3> DEFINE req == [greq[r] EXCEPT !.at = "leaving", !.failed = {"unauthenticated"}]
        <3>1. Alone(r, req) /\ greq[r].at \in Inside /\ "leaving" \in Inside
            BY <1>8, <2>1, InsideIs, Zenon DEF Authenticated, Alone
        <3>2. req.at = "leaving" /\ req.asks = greq[r].asks /\ req.on = greq[r].on
            BY <1>0, Zenon DEF Requests
        <3> HIDE DEF req
        <3>3. QED
            BY <1>2, <1>5, <3>1, <3>2, Zenon
    <2>2. CASE greq[r].asks.user # "nobody"
        <3> DEFINE to == After("auth", greq[r].asks)
                   req == [greq[r] EXCEPT !.at = to]
        <3>1. Alone(r, req) /\ greq[r].at \in Inside /\ to \in Inside
            BY <1>8, <2>2, AfterIsInside, InsideIs, Zenon DEF Authenticated, Alone
        <3> HIDE DEF to
        <3>2. req.at = to /\ req.asks = greq[r].asks /\ req.on = greq[r].on
            BY <1>0, Zenon DEF Requests
        <3> HIDE DEF req
        <3>3. QED
            BY <1>2, <1>5, <3>1, <3>2, Zenon
    <2>3. QED
        BY <2>1, <2>2, Zenon
<1>9. CASE Handle(r)
    <2> DEFINE d == greq[r].asks.does
               w == IF d = "ok" THEN {200} ELSE {}
               f == IF d = "ok" THEN {} ELSE {d}
               req == [greq[r] EXCEPT !.at = "leaving", !.written = w, !.failed = f]
    <2>1. Alone(r, req) /\ greq[r].at \in Inside /\ "leaving" \in Inside
        BY <1>9, InsideIs, Zenon DEF Handle, Alone
    <2> HIDE DEF w, f
    <2>2. req.at = "leaving" /\ req.asks = greq[r].asks /\ req.on = greq[r].on
        BY <1>0, Zenon DEF Requests
    <2> HIDE DEF req
    <2>3. QED
        BY <1>2, <1>5, <2>1, <2>2, Zenon
<1>10. CASE ErrorHandler(r)
    <2> DEFINE g == IF greq[r].written # {} THEN greq[r].written
                    ELSE IF greq[r].failed # {} THEN {GetHTTPStatus(c) : c \in greq[r].failed} ELSE {EmptyOK}
               req == [greq[r] EXCEPT !.at = "done", !.got = g]
    <2>1. Alone(r, req) /\ greq[r].at = "answering"
        BY <1>10, Zenon DEF ErrorHandler, Alone
    <2> HIDE DEF g
    <2>2. req.at = "done" /\ req.asks = greq[r].asks /\ req.on = greq[r].on /\ greq[r].on = {}
        BY <1>0, <2>1, Zenon DEF Requests, Repeats
    <2> HIDE DEF req
    <2>3. QED
        BY <1>0, <1>1, <1>5, <2>1, <2>2
<1>11. QED
    BY <1>4, <1>6, <1>7, <1>8, <1>9, <1>10, Zenon

\* A request that arrives brings its key.
LEMMA ArriveBrings ==
    ASSUME GuardsInv, NEW r \in Reqs, Arrive(r)
    PROVE  UNCHANGED Once!onceVars \/ Once!Bring(r)
<1>1. PICK a \in Asks : greq[r].at = "new" /\ greq' = [greq EXCEPT ![r] = [greq[r] EXCEPT !.at = "keyed", !.asks = a]]
    BY Zenon DEF Arrive, Stands, Goes
<1> DEFINE req == [greq[r] EXCEPT !.at = "keyed", !.asks = a]
<1>2. greq \in [Reqs -> Requests] /\ greq[r] \in Requests /\ Fresh(r)
    BY Zenon DEF GuardsInv, GuardsType
<1>3. req \in Requests /\ req.at = "keyed" /\ req.asks = a /\ req.on = greq[r].on /\ req.got = greq[r].got
    <2>1. req \in Requests
        BY <1>2, StagesAre, AsksOf, Zenon
    <2>2. QED
        BY <1>2, <2>1, Zenon DEF Requests
<1>4. greq' = [greq EXCEPT ![r] = req] /\ UNCHANGED <<store, captured>>
    BY <1>1, Zenon DEF Arrive
<1> HIDE DEF req
<1>5. WorkingOn' = WorkingOn
    BY <1>1, <1>3, <1>4, SameWork, InsideIs, Zenon
<1>6. ProducedFor' = ProducedFor
    BY <1>1, <1>2, <1>3, <1>4, SameProduce, Zenon DEF Fresh
<1>7. GivenTo' = GivenTo
    BY <1>3, <1>4, SameGive, Zenon
<1>8. KeptFor' = KeptFor
    BY <1>4, SameKept, Zenon
<1>9. CarriedBy' = [CarriedBy EXCEPT ![r] = {k \in IdKeys : k = a.key}] /\ CarriedBy[r] = {}
    <2>1. greq'[r] = req /\ \A q \in Reqs \ {r} : greq'[q] = greq[q]
        BY <1>2, <1>4, Zenon
    <2>2. QED
        BY <1>1, <1>3, <2>1, ZenonT(30) DEF CarriedBy, Stands
<1>10. CASE a.key \in IdKeys
    <2>1. {k \in IdKeys : k = a.key} = {a.key}
        BY <1>10, Zenon
    <2>2. QED
        BY <1>5, <1>6, <1>7, <1>8, <1>9, <1>10, <2>1, Zenon DEF Once!Bring
<1>11. CASE a.key \notin IdKeys
    <2>1. {k \in IdKeys : k = a.key} = {}
        BY <1>11, Zenon
    <2>2. CarriedBy' = CarriedBy
        BY <1>9, <2>1, Zenon DEF CarriedBy
    <2>3. QED
        BY <1>5, <1>6, <1>7, <1>8, <2>2, Zenon DEF Once!onceVars
<1>12. QED
    BY <1>10, <1>11, Zenon

\* A duplicate that waited is given what the work on its key produced.
LEMMA WaitGives ==
    ASSUME GuardsInv, NEW r \in Reqs, waitResponse(r)
    PROVE  Once!Give(r)
<1>0. greq \in [Reqs -> Requests] /\ greq[r] \in Requests /\ Repeats(r) /\ Waits(r) /\ captured \in [Reqs -> SUBSET {EmptyOK, 200, 400, 429}]
    BY DEF GuardsInv, GuardsType
<1>1. PICK e \in greq[r].on : greq[r].at = "wait" /\ captured[e] # {} /\ greq' = [greq EXCEPT ![r] = [greq[r] EXCEPT !.at = "done", !.got = captured[e]]]
    BY Zenon DEF waitResponse, Stands, Goes
<1>2. e \in Reqs /\ greq[e].asks.key \in IdKeys /\ greq[e].asks.key = greq[r].asks.key /\ greq[r].got = {} /\ greq[r].on # {} /\ Writes(e)
    BY <1>0, <1>1 DEF Repeats, Waits, GuardsInv
<1>3. PICK a \in Int : captured[e] = {a} /\ a # 408
    BY <1>1, <1>2 DEF Writes, EmptyOK
<1>4. /\ a \in Int /\ a # 408 /\ captured[e] \in SUBSET Int
      /\ "wait" \notin Inside /\ "done" \notin Inside
    BY <1>3, InsideIs, Zenon
<1>41. PICK g \in SUBSET Int : g = captured[e]
    BY <1>4, Zenon
<1> DEFINE req == [greq[r] EXCEPT !.at = "done", !.got = g]
<1>5. req \in Requests /\ req.at = "done" /\ req.asks = greq[r].asks /\ req.on = greq[r].on /\ req.got = g
    <2>1. req \in Requests
        BY <1>0, StagesAre, GotOf, Zenon
    <2>2. QED
        BY <1>0, <2>1 DEF Requests
<1>6. greq' = [greq EXCEPT ![r] = req] /\ UNCHANGED <<store, captured>>
    BY <1>1, <1>41, Zenon DEF waitResponse
<1> HIDE DEF req
<1>7. WorkingOn' = WorkingOn
    <2>1. greq[r].at \in Inside <=> req.at \in Inside
        BY <1>1, <1>4, <1>5
    <2>2. QED
        BY <2>1, <1>5, <1>6, SameWork, Zenon
<1>8. ProducedFor' = ProducedFor
    BY <1>5, <1>6, SameProduce, Zenon
<1>9. KeptFor' = KeptFor
    BY <1>6, SameKept, Zenon
<1>10. CarriedBy' = CarriedBy
    BY <1>1, <1>5, <1>6, SameCarried, Zenon
<1>11. GivenTo' = [GivenTo EXCEPT ![r] = {a}] /\ GivenTo[r] = {}
    <2>1. greq'[r] = req /\ \A q \in Reqs \ {r} : greq'[q] = greq[q]
        BY <1>0, <1>6
    <2>2. {x \in req.got : req.on # {} /\ x # 408} = {a}
        BY <1>2, <1>3, <1>4, <1>41, <1>5
    <2>3. {x \in greq[r].got : greq[r].on # {} /\ x # 408} = {}
        BY <1>2, Zenon
    <2>4. GivenTo'[r] = {a} /\ GivenTo[r] = {}
        BY <2>1, <2>2, <2>3 DEF GivenTo
    <2>5. \A q \in Reqs \ {r} : GivenTo'[q] = GivenTo[q]
        BY <2>1 DEF GivenTo
    <2>6. GivenTo = [q \in Reqs |-> GivenTo[q]] /\ GivenTo' = [q \in Reqs |-> GivenTo'[q]]
        BY Zenon DEF GivenTo
    <2>7. QED
        BY <2>4, <2>5, <2>6, Zenon
<1>12. greq[r].asks.key \in CarriedBy[r]
    BY <1>1, <1>2, Zenon DEF CarriedBy, Stands
<1>13. a \in ProducedFor[greq[r].asks.key]
    <2>1. a \in captured[e] /\ e \in {q \in Reqs : greq[q].asks.key = greq[r].asks.key}
        BY <1>2, <1>3, Zenon
    <2>2. QED
        BY <1>2, <2>1, Zenon DEF ProducedFor
<1>14. \E k \in CarriedBy[r] : \E x \in ProducedFor[k] : GivenTo' = [GivenTo EXCEPT ![r] = {x}]
    BY <1>11, <1>12, <1>13, Zenon
<1>15. QED
    BY <1>7, <1>8, <1>9, <1>10, <1>11, <1>14, Zenon DEF Once!Give

\* The first of a key begins the work on it; without a key, or as a
\* duplicate, a request passes the store without a trace.
LEMMA IdempotencyBegins ==
    ASSUME GuardsInv, NEW r \in Reqs, Idempotency(r)
    PROVE  UNCHANGED Once!onceVars \/ \E k \in IdKeys : Once!Begin(k)
<1> DEFINE k == greq[r].asks.key
           first == After("start", greq[r].asks)
<1>0. /\ greq \in [Reqs -> Requests] /\ greq[r] \in Requests /\ greq[r].at = "keyed" /\ captured[r] = {} /\ greq[r].on = {}
      /\ greq[r].got = {} /\ captured' = captured
      /\ "keyed" \notin Inside /\ "leaving" \in Inside /\ "wait" \notin Inside /\ "new" \notin Inside
    BY InsideIs DEF GuardsInv, GuardsType, Idempotency, Stands, Fresh
<1>1. first \in Inside
    BY AfterIsInside, InsideIs, Zenon
<1> HIDE DEF first
<1>2. ASSUME NEW req \in Requests, greq' = [greq EXCEPT ![r] = req], store' = store, req.asks = greq[r].asks, req.at # "new",
             req.got = {}, k \notin IdKeys \/ req.at = "wait"
      PROVE  UNCHANGED Once!onceVars
    <2>1. WorkingOn' = WorkingOn
        BY <1>0, <1>2, SameWork, Zenon
    <2>2. ProducedFor' = ProducedFor
        BY <1>0, <1>2, SameProduce, Zenon
    <2>3. \A a \in greq[r].got \cup req.got : a = 408
        BY <1>0, <1>2, Zenon
    <2>4. GivenTo' = GivenTo
        BY <1>2, <2>3, SameGive, Zenon
    <2>5. CarriedBy' = CarriedBy
        BY <1>0, <1>2, SameCarried, Zenon
    <2>6. KeptFor' = KeptFor
        BY <1>0, <1>2, SameKept, Zenon
    <2>7. QED
        BY <2>1, <2>2, <2>4, <2>5, <2>6, Zenon DEF Once!onceVars
<1>3. CASE k = NoKey /\ Goes(r, [greq[r] EXCEPT !.at = first]) /\ UNCHANGED store
    <2> DEFINE req == [greq[r] EXCEPT !.at = first]
    <2>1. greq' = [greq EXCEPT ![r] = req] /\ k \notin IdKeys
        BY <1>3, Times, Zenon DEF Goes
    <2>2. req \in Requests
        BY <1>0, <1>1, StagesAre, AtOf, Zenon
    <2>3. req.at = first /\ req.asks = greq[r].asks /\ req.got = greq[r].got
        BY <1>0, Zenon DEF Requests
    <2> HIDE DEF req
    <2>4. QED
        BY <1>0, <1>1, <1>2, <1>3, <2>1, <2>2, <2>3, Zenon
<1>4. CASE k = LongKey /\ Goes(r, [greq[r] EXCEPT !.at = "leaving", !.written = {400}]) /\ UNCHANGED store
    <2>1. PICK w \in SUBSET Written : w = {400}
        BY Zenon DEF Written
    <2> DEFINE req == [greq[r] EXCEPT !.at = "leaving", !.written = w]
    <2>2. greq' = [greq EXCEPT ![r] = req] /\ k \notin IdKeys
        BY <1>4, <2>1, Times, Zenon DEF Goes
    <2>3. req \in Requests
        BY <1>0, StagesAre, WrittenOf, Zenon
    <2>4. req.at = "leaving" /\ req.asks = greq[r].asks /\ req.got = greq[r].got
        BY <1>0, Zenon DEF Requests
    <2> HIDE DEF req
    <2>5. QED
        BY <1>0, <1>2, <1>4, <2>2, <2>3, <2>4, Zenon
<1>5. CASE k \in IdKeys /\ store[k] # {} /\ Goes(r, [greq[r] EXCEPT !.at = "wait", !.on = store[k]]) /\ UNCHANGED store
    <2> DEFINE req == [greq[r] EXCEPT !.at = "wait", !.on = store[k]]
    <2>1. greq' = [greq EXCEPT ![r] = req]
        BY <1>5, Zenon DEF Goes
    <2>2. req \in Requests
        <3>1. store[k] \in SUBSET Reqs /\ "wait" \in Stages
            BY <1>5, StagesAre DEF GuardsInv, GuardsType
        <3>2. QED
            BY <1>0, <3>1, OnOf, Zenon
    <2>3. req.at = "wait" /\ req.asks = greq[r].asks /\ req.got = greq[r].got
        BY <1>0, Zenon DEF Requests
    <2> HIDE DEF req
    <2>4. QED
        BY <1>0, <1>2, <1>5, <2>1, <2>2, <2>3, Zenon
<1>6. CASE k \in IdKeys /\ store[k] = {} /\ store' = [store EXCEPT ![k] = {r}] /\ Goes(r, [greq[r] EXCEPT !.at = first])
    <2> DEFINE req == [greq[r] EXCEPT !.at = first]
    <2>1. greq' = [greq EXCEPT ![r] = req]
        BY <1>6, Zenon DEF Goes
    <2>2. req \in Requests
        BY <1>0, <1>1, StagesAre, AtOf, Zenon
    <2>3. req.at = first /\ req.asks = greq[r].asks /\ req.got = greq[r].got /\ req.on = greq[r].on
        BY <1>0, Zenon DEF Requests
    <2> HIDE DEF req
    <2>4. greq'[r] = req /\ \A q \in Reqs \ {r} : greq'[q] = greq[q]
        BY <1>0, <2>1, Zenon
    <2>5. ProducedFor' = ProducedFor
        BY <1>0, <2>1, <2>2, <2>3, SameProduce, Zenon
    <2>6. GivenTo' = GivenTo
        BY <1>0, <2>1, <2>2, <2>3, SameGive, Zenon
    <2>7. CarriedBy' = CarriedBy
        BY <1>0, <1>1, <2>1, <2>2, <2>3, SameCarried, Zenon
    <2>8. \A x \in IdKeys : KeptFor'[x] = KeptFor[x] /\ ~KeptFor[k]
        BY <1>0, <1>6 DEF KeptFor, GuardsInv, GuardsType
    <2>9. KeptFor' = KeptFor
        BY <2>8, Zenon DEF KeptFor
    <2>10. \A q \in Reqs : ~(greq[q].asks.key = k /\ greq[q].at \in Inside)
        BY <1>6, Zenon DEF GuardsInv, Works
    <2>11. WorkingOn[k] = {}
        BY <1>6, <2>10, Zenon DEF WorkingOn
    <2>12. WorkingOn'[k] = {r}
        <3>1. \A q \in Reqs : greq'[q].asks.key = k /\ greq'[q].at \in Inside <=> q = r
            BY <1>1, <2>3, <2>4, <2>10, Zenon
        <3>2. {q \in Reqs : greq'[q].asks.key = k /\ greq'[q].at \in Inside} = {r}
            BY <3>1, Zenon
        <3>3. QED
            BY <1>6, <3>2, Zenon DEF WorkingOn, Inside
    <2>13. \A x \in IdKeys \ {k} : WorkingOn'[x] = WorkingOn[x]
        <3> TAKE x \in IdKeys \ {k}
        <3>1. \A q \in Reqs : greq'[q].asks.key = x /\ greq'[q].at \in Inside <=> greq[q].asks.key = x /\ greq[q].at \in Inside
            BY <1>0, <2>3, <2>4, Zenon
        <3>2. QED
            BY <3>1, Zenon DEF WorkingOn, Inside
    <2>14. WorkingOn = [x \in IdKeys |-> WorkingOn[x]] /\ WorkingOn' = [x \in IdKeys |-> WorkingOn'[x]]
        BY Zenon DEF WorkingOn
    <2>15. WorkingOn' = [WorkingOn EXCEPT ![k] = {r}]
        BY <2>12, <2>13, <2>14, Zenon
    <2>16. CarriedBy[r] = {k}
        <3>1. {x \in IdKeys : x = greq[r].asks.key /\ ~(greq[r].at = "new")} = {k}
            BY <1>0, <1>6, Zenon
        <3>2. QED
            BY <3>1, Zenon DEF CarriedBy, Stands
    <2>17. \E q \in Reqs : CarriedBy[q] = {k} /\ WorkingOn' = [WorkingOn EXCEPT ![k] = {q}]
        BY <2>15, <2>16, Zenon
    <2>18. Once!Begin(k)
        BY <1>6, <2>5, <2>6, <2>7, <2>8, <2>9, <2>11, <2>17, Zenon DEF Once!Begin
    <2>19. QED
        BY <1>6, <2>18, Zenon
<1>7. QED
    BY <1>3, <1>4, <1>5, <1>6, Zenon DEF Idempotency, first

\* The response of a key's creator ends the work on it and is kept.
LEMMA SetResponseEnds ==
    ASSUME GuardsInv, NEW r \in Reqs, setResponse(r)
    PROVE  UNCHANGED Once!onceVars \/ \E k \in IdKeys : Once!End(k)
<1> DEFINE req == [greq[r] EXCEPT !.at = "answering"]
           k == greq[r].asks.key
<1>0. /\ greq \in [Reqs -> Requests] /\ greq[r] \in Requests /\ greq[r].at = "leaving" /\ captured[r] = {} /\ greq[r].on = {}
      /\ Works(r) /\ Writes(r) /\ "leaving" \in Inside /\ "answering" \notin Inside
    BY InsideIs DEF GuardsInv, GuardsType, setResponse, Stands, Writes, Repeats
<1>1. req \in Requests
    BY <1>0, StagesAre, AtOf, Zenon
<1>2. req.at = "answering" /\ req.asks = greq[r].asks /\ req.on = greq[r].on /\ req.got = greq[r].got
    BY <1>0, Zenon DEF Requests
<1>3. greq' = [greq EXCEPT ![r] = req] /\ store' = store
    BY Zenon DEF setResponse, Goes
<1> HIDE DEF req
<1>4. greq'[r] = req /\ \A q \in Reqs \ {r} : greq'[q] = greq[q]
    BY <1>0, <1>3, Zenon
<1>5. GivenTo' = GivenTo
    BY <1>1, <1>2, <1>3, SameGive, Zenon
<1>6. CarriedBy' = CarriedBy
    BY <1>0, <1>1, <1>2, <1>3, SameCarried, Zenon
<1>7. CASE k \notin IdKeys
    <2>1. captured' = captured
        BY <1>7, Zenon DEF setResponse, Creator
    <2>2. WorkingOn' = WorkingOn
        BY <1>1, <1>2, <1>3, <1>7, SameWork, Zenon
    <2>3. ProducedFor' = ProducedFor
        BY <1>1, <1>2, <1>3, <2>1, SameProduce, Zenon
    <2>4. QED
        BY <1>3, <1>5, <1>6, <2>1, <2>2, <2>3, SameKept, Zenon DEF Once!onceVars
<1>8. CASE k \in IdKeys
    <2> DEFINE what == IF greq[r].written = {} THEN {EmptyOK} ELSE greq[r].written
    <2>1. \E a \in Replies : what = {a}
        BY <1>0 DEF Writes, Replies
    <2>2. captured' = [captured EXCEPT ![r] = what]
        BY <1>0, <1>8, Zenon DEF setResponse, Creator
    <2> HIDE DEF what
    <2>3. captured'[r] = what /\ what # {} /\ \A q \in Reqs \ {r} : captured'[q] = captured[q]
        BY <2>1, <2>2 DEF GuardsInv, GuardsType
    <2>4. store[k] = {r}
        BY <1>0, <1>8, Zenon DEF Works
    <2>5. \A x \in IdKeys \ {k} : KeptFor'[x] = KeptFor[x]
        <3> TAKE x \in IdKeys \ {k}
        <3>1. r \notin store[x] /\ store[x] \subseteq Reqs
            BY DEF GuardsInv, GuardsType, Entry
        <3>2. (\E e \in store[x] : captured'[e] # {}) <=> (\E e \in store[x] : captured[e] # {})
            BY <2>3, <3>1, Zenon
        <3>3. QED
            BY <1>3, <3>2, Zenon DEF KeptFor
    <2>6. KeptFor'[k] = TRUE
        BY <1>3, <1>8, <2>3, <2>4, Zenon DEF KeptFor
    <2>7. KeptFor = [x \in IdKeys |-> KeptFor[x]] /\ KeptFor' = [x \in IdKeys |-> KeptFor'[x]]
        BY Zenon DEF KeptFor
    <2>8. KeptFor' = [KeptFor EXCEPT ![k] = TRUE]
        BY <2>5, <2>6, <2>7, ZenonT(30)
    <2>9. \A q \in Reqs : greq[q].asks.key = k /\ greq[q].at \in Inside <=> q = r
        BY <1>0, <1>8, <2>4 DEF GuardsInv, Works
    <2>10. WorkingOn[k] # {}
        BY <1>8, <2>9, Zenon DEF WorkingOn, Inside
    <2>11. WorkingOn'[k] = {}
        <3>1. \A q \in Reqs : ~(greq'[q].asks.key = k /\ greq'[q].at \in Inside)
            BY <1>0, <1>2, <1>4, <2>9, Zenon
        <3>2. {q \in Reqs : greq'[q].asks.key = k /\ greq'[q].at \in Inside} = {}
            BY <3>1, Zenon
        <3>3. QED
            BY <1>8, <3>2, Zenon DEF WorkingOn, Inside
    <2>12. \A x \in IdKeys \ {k} : WorkingOn'[x] = WorkingOn[x]
        <3> TAKE x \in IdKeys \ {k}
        <3>1. \A q \in Reqs : greq'[q].asks.key = x /\ greq'[q].at \in Inside <=> greq[q].asks.key = x /\ greq[q].at \in Inside
            BY <1>2, <1>4, Zenon
        <3>2. QED
            BY <3>1, Zenon DEF WorkingOn, Inside
    <2>13. WorkingOn = [x \in IdKeys |-> WorkingOn[x]] /\ WorkingOn' = [x \in IdKeys |-> WorkingOn'[x]]
        BY Zenon DEF WorkingOn
    <2>14. WorkingOn' = [WorkingOn EXCEPT ![k] = {}]
        BY <2>11, <2>12, <2>13, Zenon
    <2>15. \A x \in IdKeys \ {k} : ProducedFor'[x] = ProducedFor[x]
        <3> TAKE x \in IdKeys \ {k}
        <3>1. ASSUME NEW a PROVE a \in ProducedFor[x] <=> \E q \in Reqs : greq[q].asks.key = x /\ a \in captured[q]
            BY Zenon DEF ProducedFor
        <3>2. ASSUME NEW a PROVE a \in ProducedFor'[x] <=> \E q \in Reqs : greq'[q].asks.key = x /\ a \in captured'[q]
            BY Zenon DEF ProducedFor
        <3>3. ASSUME NEW a PROVE (\E q \in Reqs : greq'[q].asks.key = x /\ a \in captured'[q])
                                 <=> \E q \in Reqs : greq[q].asks.key = x /\ a \in captured[q]
            BY <1>2, <1>4, <2>3, Zenon
        <3>4. QED
            BY <3>1, <3>2, <3>3, Zenon
    <2>16. ProducedFor'[k] = ProducedFor[k] \cup what
        <3>1. ASSUME NEW a PROVE a \in ProducedFor[k] <=> \E q \in Reqs : greq[q].asks.key = k /\ a \in captured[q]
            BY <1>8, Zenon DEF ProducedFor
        <3>2. ASSUME NEW a PROVE a \in ProducedFor'[k] <=> \E q \in Reqs : greq'[q].asks.key = k /\ a \in captured'[q]
            BY <1>8, Zenon DEF ProducedFor
        <3>3. ASSUME NEW a PROVE (\E q \in Reqs : greq'[q].asks.key = k /\ a \in captured'[q])
                                 <=> (\E q \in Reqs : greq[q].asks.key = k /\ a \in captured[q]) \/ a \in what
            BY <1>0, <1>2, <1>4, <2>3, Zenon
        <3>4. QED
            BY <3>1, <3>2, <3>3, Zenon
    <2>17. ProducedFor = [x \in IdKeys |-> ProducedFor[x]] /\ ProducedFor' = [x \in IdKeys |-> ProducedFor'[x]]
        BY Zenon DEF ProducedFor
    <2>18. ProducedFor' = [ProducedFor EXCEPT ![k] = ProducedFor[k] \cup what]
        BY <2>15, <2>16, <2>17, Zenon
    <2>19. \E a \in Replies : ProducedFor' = [ProducedFor EXCEPT ![k] = @ \cup {a}]
        BY <2>1, <2>18, Zenon
    <2>20. Once!End(k)
        BY <1>5, <1>6, <2>8, <2>10, <2>14, <2>19, Zenon DEF Once!End
    <2>21. QED
        BY <1>8, <2>20, Zenon
<1>9. QED
    BY <1>7, <1>8, Zenon

\* The eviction timer drops what is kept.
LEMMA EvictDrops ==
    ASSUME GuardsInv, NEW k \in IdKeys, Evict(k)
    PROVE  Once!Drop(k)
<1>1. store' = [store EXCEPT ![k] = {}] /\ greq' = greq /\ captured' = captured /\ \E e \in store[k] : captured[e] # {}
    BY Zenon DEF Evict
<1>2. store'[k] = {} /\ \A x \in IdKeys \ {k} : store'[x] = store[x]
    BY <1>1 DEF GuardsInv, GuardsType
<1>3. KeptFor'[k] = FALSE /\ KeptFor[k] /\ \A x \in IdKeys \ {k} : KeptFor'[x] = KeptFor[x]
    BY <1>1, <1>2, Zenon DEF KeptFor
<1>4. KeptFor = [x \in IdKeys |-> KeptFor[x]] /\ KeptFor' = [x \in IdKeys |-> KeptFor'[x]]
    BY Zenon DEF KeptFor
<1>5. KeptFor' = [KeptFor EXCEPT ![k] = FALSE]
    BY <1>3, <1>4, Zenon
<1>6. WorkingOn' = WorkingOn /\ ProducedFor' = ProducedFor /\ GivenTo' = GivenTo /\ CarriedBy' = CarriedBy
    BY <1>1 DEF WorkingOn, ProducedFor, GivenTo, CarriedBy, Stands
<1>7. QED
    BY <1>3, <1>5, <1>6, Zenon DEF Once!Drop

LEMMA OnceStarts == GuardsInit => Once!OnceInit
<1> SUFFICES ASSUME GuardsInit PROVE Once!OnceInit
    BY Zenon
<1>1. \A r \in Reqs : greq[r] = Idle /\ captured[r] = {} /\ greq[r].at = "new" /\ greq[r].on = {} /\ greq[r].got = {}
    BY IdleIsARequest, Zenon DEF GuardsInit
<1>2. \A k \in IdKeys : store[k] = {}
    BY Zenon DEF GuardsInit
<1>3. WorkingOn = [k \in IdKeys |-> {}]
    <2>1. \A r \in Reqs : greq[r].at \notin Inside
        BY <1>1, InsideIs, Zenon
    <2>2. QED
        BY <2>1, Zenon DEF WorkingOn
<1>4. KeptFor = [k \in IdKeys |-> FALSE]
    BY <1>2, Zenon DEF KeptFor
<1>5. ProducedFor = [k \in IdKeys |-> {}]
    BY <1>1, Zenon DEF ProducedFor
<1>6. GivenTo = [r \in Reqs |-> {}] /\ CarriedBy = [r \in Reqs |-> {}]
    BY <1>1 DEF GivenTo, CarriedBy, Stands
<1>7. QED
    BY <1>3, <1>4, <1>5, <1>6, Zenon DEF Once!OnceInit

LEMMA OnceSteps ==
    GuardsInv /\ [GuardsNext]_guardVars => [UNCHANGED guardVars \/ Once!OnceNext]_(Once!onceVars)
<1> SUFFICES ASSUME GuardsInv, [GuardsNext]_guardVars PROVE UNCHANGED guardVars \/ Once!OnceNext \/ UNCHANGED Once!onceVars
    BY Zenon
<1>1. ASSUME NEW r \in Reqs, Arrive(r) \/ Proceeds(r) \/ GivenUp(r) PROVE Once!OnceNext \/ UNCHANGED Once!onceVars
    BY <1>1, ArriveBrings, HiddenSteps, WaitGives, IdempotencyBegins, SetResponseEnds, Zenon DEF Proceeds, Once!OnceNext
<1>2. ASSUME NEW k \in IdKeys, Evict(k) PROVE Once!OnceNext
    BY <1>2, EvictDrops, Zenon DEF Once!OnceNext
<1>3. ASSUME UNCHANGED <<store, captured, greq>> PROVE UNCHANGED Once!onceVars
    BY <1>3 DEF WorkingOn, KeptFor, ProducedFor, GivenTo, CarriedBy, Stands, Once!onceVars
<1>4. ASSUME NEW l \in Limiters, sweep(l) PROVE UNCHANGED Once!onceVars
    BY <1>3, <1>4, Zenon DEF sweep
<1>5. CASE Instant
    BY <1>3, <1>5, Zenon DEF Instant
<1>6. QED
    BY <1>1, <1>2, <1>4, <1>5, Zenon DEF GuardsNext

\* However requests, evictions and the clock interleave, the chain of
\* handlers runs for at most one request of an idempotency key at a time,
\* never while an answer of the key is kept, and a duplicate is given an
\* answer captured for its own key (Idempotency, getOrCreate, setResponse,
\* waitResponse), for any number of requests and keys.
THEOREM GuardsRefine == GuardsSpec => HandledOnce
<1>1. GuardsInit => Once!OnceInit
    BY OnceStarts, Zenon
<1>2. GuardsInit => GuardsInv
    BY GuardsInvInit, Zenon
<1>3. GuardsInv /\ [GuardsNext]_guardVars => GuardsInv'
    BY GuardsInvStep, Zenon
<1>4. GuardsInv /\ [GuardsNext]_guardVars => [UNCHANGED guardVars \/ Once!OnceNext]_(Once!onceVars)
    BY OnceSteps, Zenon
<1>5. QED
    BY <1>1, <1>2, <1>3, <1>4, PTL DEF GuardsSpec, HandledOnce

-----------------------------------------------------------------------------
(* No second budget within a window.                                        *)

Buckets == [count : Nat, expiry : Nat]
\* A bucket never counts past its limiter's budget.
CountersInv ==
  /\ counters \in [Limiters -> [RateKeys -> SUBSET Buckets]]
  /\ \A l \in Limiters, k \in RateKeys : \A c \in counters[l][k] : c.count <= Budget[l]

\* What becomes of the bucket c of limiter l under key k.
Lasts(l, k, c) == \/ instant > c.expiry
                  \/ \E d \in counters'[l][k] : d.expiry = c.expiry /\ d.count \in c.count..Budget[l]

LEMMA CountedKeeps ==
    ASSUME CountersInv, NEW l \in Limiters, NEW k \in RateKeys, NEW now \in Nat, now <= instant, instant \in Nat, Budget[l] > 0
    PROVE  /\ Counted(l, k, now) \in SUBSET Buckets
           /\ \A d \in Counted(l, k, now) : d.count <= Budget[l]
           /\ \A c \in counters[l][k] : \/ instant > c.expiry
                                         \/ \E d \in Counted(l, k, now) : d.expiry = c.expiry /\ d.count \in c.count..Budget[l]
<1> DEFINE have == counters[l][k]
           more(c) == [c EXCEPT !.count = IF @ < Budget[l] THEN @ + 1 ELSE @]
<1>0. have \in SUBSET Buckets /\ Budget[l] \in Nat /\ Window \in Nat /\ \A c \in have : c.count <= Budget[l]
    BY Times, Zenon DEF CountersInv
<1>1. CASE \A c \in have : passed(now, c)
    <2>1. Counted(l, k, now) = {[count |-> 1, expiry |-> now + Window]}
        BY <1>1, Zenon DEF Counted
    <2>2. [count |-> 1, expiry |-> now + Window] \in Buckets
        BY <1>0 DEF Buckets
    <2>3. \A c \in have : instant > c.expiry
        BY <1>0, <1>1 DEF passed, Buckets
    <2>4. QED
        BY <1>0, <2>1, <2>2, <2>3
<1>2. CASE ~ \A c \in have : passed(now, c)
    <2>1. Counted(l, k, now) = {more(c) : c \in have}
        BY <1>2, Zenon DEF Counted
    <2>2. ASSUME NEW c \in have
          PROVE  more(c) \in Buckets /\ more(c).count <= Budget[l] /\ more(c).expiry = c.expiry /\ more(c).count \in c.count..Budget[l]
        <3>1. c \in Buckets /\ c.count \in Nat /\ c.count <= Budget[l]
            BY <1>0, Zenon DEF Buckets
        <3>2. more(c) = [count |-> IF c.count < Budget[l] THEN c.count + 1 ELSE c.count, expiry |-> c.expiry]
            BY <3>1 DEF Buckets
        <3>3. QED
            BY <1>0, <3>1, <3>2 DEF Buckets
    <2> HIDE DEF more
    <2>3. QED
        BY <2>1, <2>2, Zenon
<1>3. QED
    BY <1>1, <1>2, Zenon

LEMMA CountersStep ==
    ASSUME GuardsInv, CountersInv, [GuardsNext]_guardVars
    PROVE  CountersInv' /\ \A l \in Limiters, k \in RateKeys : \A c \in counters[l][k] : Lasts(l, k, c)
<1>0. instant \in Nat /\ counters \in [Limiters -> [RateKeys -> SUBSET Buckets]]
    BY Times DEF GuardsInv, GuardsType, CountersInv
<1>1. ASSUME counters' = counters
      PROVE  CountersInv' /\ \A l \in Limiters, k \in RateKeys : \A c \in counters[l][k] : Lasts(l, k, c)
    <2>1. ASSUME NEW l \in Limiters, NEW k \in RateKeys, NEW c \in counters[l][k] PROVE c.count \in c.count..Budget[l]
        BY <1>0, Times DEF CountersInv, Buckets
    <2>2. QED
        BY <1>1, <2>1, Zenon DEF CountersInv, Lasts
\* One bucket of one limiter changes.
<1>2. ASSUME NEW r \in Reqs, Allow(r)
      PROVE  CountersInv' /\ \A l \in Limiters, k \in RateKeys : \A c \in counters[l][k] : Lasts(l, k, c)
    <2> DEFINE m == greq[r].at
               key == rateLimitKey(m, greq[r].asks)
               now == greq[r].now - 1
               made == Counted(m, key, now)
    <2>1. m \in Limiters /\ greq[r].now > 0 /\ counters' = [counters EXCEPT ![m][key] = made] /\ instant' = instant
        BY <1>2, Zenon DEF Allow
    <2>2. greq[r] \in Requests /\ Counts(r)
        BY Zenon DEF GuardsInv, GuardsType
    <2>3. key \in RateKeys
        BY <2>1, <2>2, LimitersAre, Zenon DEF rateLimitKey, RateKeys, Requests
    <2>4. greq[r].now \in Nat
        BY <2>2, Times DEF Requests, Read
    <2>5. now \in Nat /\ now <= instant /\ Budget[m] > 0
        BY <1>0, <2>1, <2>2, <2>4 DEF Counts
    <2> HIDE DEF key, now, m
    <2>6. /\ made \in SUBSET Buckets /\ \A d \in made : d.count <= Budget[m]
          /\ \A c \in counters[m][key] : \/ instant > c.expiry
                                         \/ \E d \in made : d.expiry = c.expiry /\ d.count \in c.count..Budget[m]
        BY <1>0, <2>1, <2>3, <2>5, CountedKeeps, Zenon
    <2> HIDE DEF made
    <2>7. counters'[m][key] = made /\ \A l \in Limiters, k \in RateKeys : l # m \/ k # key => counters'[l][k] = counters[l][k]
        BY <1>0, <2>1, <2>3, Zenon
    <2>8. counters' \in [Limiters -> [RateKeys -> SUBSET Buckets]]
        BY <1>0, <2>1, <2>3, <2>6, Zenon
    <2>9. ASSUME NEW l \in Limiters, NEW k \in RateKeys
          PROVE  (\A c \in counters'[l][k] : c.count <= Budget[l]) /\ \A c \in counters[l][k] : Lasts(l, k, c)
        <3>1. CASE l = m /\ k = key
            BY <2>6, <2>7, <3>1, Zenon DEF Lasts
        <3>2. CASE l # m \/ k # key
            <4>1. counters'[l][k] = counters[l][k] /\ \A c \in counters[l][k] : c.count <= Budget[l]
                BY <2>7, <3>2, Zenon DEF CountersInv
            <4>2. ASSUME NEW c \in counters[l][k] PROVE c.count \in c.count..Budget[l]
                BY <1>0, <4>1, Times DEF Buckets
            <4>3. QED
                BY <4>1, <4>2, Zenon DEF Lasts
        <3>3. QED
            BY <3>1, <3>2, Zenon
    <2>10. QED
        BY <2>8, <2>9, Zenon DEF CountersInv
<1>3. ASSUME NEW m \in Limiters, sweep(m)
      PROVE  CountersInv' /\ \A l \in Limiters, k \in RateKeys : \A c \in counters[l][k] : Lasts(l, k, c)
    <2>1. PICK now \in 0..instant : counters' = [counters EXCEPT ![m] = [k \in RateKeys |-> {c \in counters[m][k] : ~passed(now, c)}]]
        BY <1>3, Zenon DEF sweep
    <2>2. ASSUME NEW l \in Limiters, NEW k \in RateKeys
          PROVE  /\ counters'[l][k] \subseteq counters[l][k]
                 /\ \A c \in counters[l][k] : c \in counters'[l][k] \/ now > c.expiry
        BY <1>0, <2>1, Zenon DEF passed
    <2>3. counters' \in [Limiters -> [RateKeys -> SUBSET Buckets]]
        BY <1>0, <2>1, Zenon
    <2>4. ASSUME NEW l \in Limiters, NEW k \in RateKeys, NEW c \in counters[l][k] PROVE Lasts(l, k, c)
        <3>1. c.count \in c.count..Budget[l] /\ c.expiry \in Nat /\ now \in Nat /\ now <= instant
            BY <1>0, Times DEF CountersInv, Buckets
        <3>2. QED
            BY <1>0, <2>2, <3>1 DEF Lasts
    <2>5. QED
        BY <2>2, <2>3, <2>4, Zenon DEF CountersInv
<1>4. ASSUME NEW r \in Reqs, Arrive(r) \/ Proceeds(r) \/ GivenUp(r) PROVE Allow(r) \/ counters' = counters
    BY <1>4, Zenon DEF Proceeds, Arrive, GivenUp, Idempotency, waitResponse, ReadsTime, Authenticated, Handle, setResponse, ErrorHandler
<1>5. ASSUME NEW k \in IdKeys, Evict(k) PROVE counters' = counters
    BY <1>5, Zenon DEF Evict
<1>6. CASE Instant \/ UNCHANGED guardVars
    BY <1>1, <1>6, Zenon DEF Instant, guardVars
<1>7. QED
    BY <1>1, <1>2, <1>3, <1>4, <1>5, <1>6, Zenon DEF GuardsNext

\* A duplicate is counted by no limiter and never left waiting, and no
\* limiter hands out a second budget within a window, whatever the budgets
\* and windows and however long a request is delayed between reading the
\* time and being counted (Idempotency, InMemoryLimiter.Allow, sweep).
THEOREM GuardsSafe == GuardsSpec => GuardsHold
<1>1. GuardsInit => GuardsInv /\ CountersInv
    BY GuardsInvInit DEF GuardsInit, CountersInv
<1>2. GuardsInv /\ CountersInv /\ [GuardsNext]_guardVars => (GuardsInv /\ CountersInv)'
    BY GuardsInvStep, CountersStep, Zenon
<1>3. GuardsInv => ReplaysAreFree /\ NoneStranded
    BY InvHolds, Zenon
<1>4. GuardsInv /\ CountersInv /\ [GuardsNext]_guardVars =>
        [\A l \in Limiters, k \in RateKeys : \A c \in counters[l][k] :
            \/ instant > c.expiry
            \/ \E d \in counters'[l][k] : d.expiry = c.expiry /\ d.count \in c.count..Budget[l]]_guardVars
    BY CountersStep, Zenon DEF Lasts
<1>5. QED
    BY <1>1, <1>2, <1>3, <1>4, PTL DEF GuardsSpec, GuardsHold, WindowsKept
=============================================================================
