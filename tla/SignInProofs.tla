---------------------------- MODULE SignInProofs ----------------------------
(***************************************************************************)
(* Proofs about SignIn: for any number of people, passwords, requests and  *)
(* sessions, any lock, limit and lifetime, and any number of failures.     *)
(***************************************************************************)
EXTENDS SignIn, TLAPS

Ops == {"none", "login", "embed", "login_as", "return", "refresh", "authenticate", "logout", "password",
        "activate", "deactivate", "unlock", "revoke", "revoke_all"}
Places == {"idle", "account", "lock", "compare", "record", "open", "target", "end", "rotate", "check", "actor",
           "tx", "log", "own", "opened", "tell", "done"}
Answers == {"none", "refused", "granted", "failed"}
Actors == People \cup {Nobody}

Session == [of : People, actor : Actors, gen : Nat, left : Nat, revoked : BOOLEAN, refresh : BOOLEAN]
Request == [op : Ops, at : Places, of : Actors, by : Actors, password : Passwords \cup {Nobody}, sess : Nat,
            gen : Nat, up : BOOLEAN, hash : Passwords \cup {Nobody}, tell : SUBSET People, swapped : BOOLEAN,
            seen : SUBSET People, answer : Answers]

StoreType ==
    /\ active \in [People -> BOOLEAN] /\ password \in [People -> Passwords]
    /\ session \in Seq(Session) /\ req \in [Requests -> Request]

\* What is known of a request at each of its places.
InFlight(x) == x.at \notin {"idle", "done"}
Fresh(x) == x.at = "idle" => ~x.swapped /\ x.answer = "none"
Unanswered(x) == InFlight(x) => x.answer = "none" /\ Active \subseteq x.seen
Names(x) ==
    /\ x.at \in {"account", "lock", "compare"} => x.of \in People /\ x.by = Nobody
    /\ x.at \in {"target", "open"} => x.of \in People
    /\ x.at \in {"check", "actor", "tx", "own", "opened"} => x.of \in People
    /\ x.at = "tell" /\ x.op = "refresh" => x.of \in People
    /\ x.at = "end" => x.op \in {"return", "logout"}
    /\ x.at = "tx" /\ x.op = "password" => x.password \in Passwords
Seen(x) ==
    /\ x.answer = "granted" => x.of \in x.seen /\ x.by \in x.seen \cup {Nobody}
    /\ x.at \in {"lock", "compare"} /\ x.up => x.of \in x.seen
    /\ x.at = "target" => x.by \in x.seen
    /\ x.at \in {"record", "open"} => x.of \in x.seen /\ x.by \in x.seen \cup {Nobody}
    /\ x.op = "return" => x.of \in x.seen /\ x.by = Nobody
    /\ x.at = "actor" => x.of \in x.seen
Holds(x) ==
    /\ x.at \in {"rotate", "end"} \/ x.op = "return" => x.sess \in DOMAIN session
    /\ x.swapped => x.at \in {"tell", "check", "actor", "done"}
    /\ x.swapped => x.sess \in DOMAIN session /\ x.gen < session[x.sess].gen
Good(x) == x \in Request /\ Fresh(x) /\ Unanswered(x) /\ Names(x) /\ Seen(x) /\ Holds(x)

\* Who will tell an owner that a token of theirs stopped working, unless an
\* error was answered.
Tells(x, p) == x.answer = "failed" \/ (x.at \in {"log", "opened", "tell"} /\ p \in x.tell)
Promised == \A t \in untold : t[1] \in DOMAIN session /\ \E r \in Requests : Tells(req[r], session[t[1]].of)

SessionsInv == StoreType /\ (\A r \in Requests : Good(req[r])) /\ RotatedOnce /\ Promised

-----------------------------------------------------------------------------
(* What every step of a request has in common.                               *)

\* Sessions are only added, keep their owners and never go back a generation.
Grown ==
    /\ session' \in Seq(Session) /\ Len(session) <= Len(session')
    /\ \A s \in 1..Len(session) : session'[s].of = session[s].of /\ session[s].gen <= session'[s].gen

Apart(r, y) ==
    y.swapped => \A q \in Requests \ {r} : req[q].swapped /\ req[q].sess = y.sess => req[q].gen # y.gen

\* Every token not told of is told of by the request, or by another as before.
Passed(r, y) ==
    \A t \in untold' : \/ t[1] \in 1..Len(session') /\ Tells(y, session'[t[1]].of)
                       \/ t \in untold /\ ~Tells(req[r], session[t[1]].of)

LEMMA SessionFacts ==
    ASSUME session \in Seq(Session)
    PROVE  DOMAIN session = 1..Len(session) /\ Len(session) \in Nat /\ \A s \in 1..Len(session) : session[s] \in Session
OBVIOUS

LEMMA GenNat ==
    ASSUME SessionsInv, Grown
    PROVE  \A s \in 1..Len(session) : session[s].gen \in Nat /\ session'[s].gen \in Nat
<1>1. session \in Seq(Session) /\ session' \in Seq(Session) /\ Len(session) <= Len(session')
    BY Zenon DEF SessionsInv, StoreType, Grown
<1>2. \A s \in 1..Len(session) : session[s] \in Session /\ session'[s] \in Session
    BY <1>1
<1>3. QED
    BY <1>2, Zenon DEF Session

LEMMA RequestStep ==
    ASSUME SessionsInv, NEW r \in Requests, NEW y, req' = [req EXCEPT ![r] = y],
           active' \in [People -> BOOLEAN], password' \in [People -> Passwords], Active' \subseteq Active,
           Grown, Good(y)', Apart(r, y), Passed(r, y)
    PROVE  SessionsInv'
<1>1. /\ session \in Seq(Session) /\ session' \in Seq(Session)
      /\ req \in [Requests -> Request] /\ y \in Request
    BY Zenon DEF SessionsInv, StoreType, Grown, Good
<1>2. /\ req'[r] = y /\ req' \in [Requests -> Request]
      /\ \A q \in Requests \ {r} : req'[q] = req[q]
    BY <1>1, Zenon
<1>3. StoreType'
    BY <1>1, <1>2, Zenon DEF StoreType
<1>4. /\ DOMAIN session = 1..Len(session) /\ DOMAIN session' = 1..Len(session')
      /\ Len(session) \in Nat /\ Len(session') \in Nat
      /\ \A s \in 1..Len(session) : session[s] \in Session /\ session'[s] \in Session
    BY <1>1 DEF Grown
<1>5. ASSUME NEW q \in Requests PROVE Good(req[q])'
    <2>1. CASE q = r
        BY <1>2, <2>1, Zenon
    <2>2. CASE q # r
        <3>1. PICK x : x = req[q] /\ x = req'[q]
            BY <1>2, <2>2, Zenon
        <3>2. Good(x)
            BY <3>1, Zenon DEF SessionsInv
        <3>3. Unanswered(x)'
            BY <3>2, Zenon DEF Good, Unanswered
        <3>4. Holds(x)'
            <4>1. ASSUME x.swapped PROVE x.gen < session'[x.sess].gen
                <5>1. x.sess \in 1..Len(session) /\ x.gen < session[x.sess].gen /\ x.gen \in Nat
                    BY <3>2, <4>1, <1>4, Zenon DEF Good, Holds, Request
                <5>2. session[x.sess].gen <= session'[x.sess].gen
                    BY <5>1, Zenon DEF Grown
                <5>3. session[x.sess].gen \in Nat /\ session'[x.sess].gen \in Nat
                    BY <5>1, <1>4, Zenon DEF Session
                <5>4. QED
                    BY <5>1, <5>2, <5>3
            <4>2. x.sess \in DOMAIN session => x.sess \in DOMAIN session'
                BY <1>4 DEF Grown
            <4>3. QED
                BY <3>2, <4>1, <4>2, Zenon DEF Good, Holds
        <3>5. Good(x)'
            BY <3>2, <3>3, <3>4, Zenon DEF Good, Fresh, Names, Seen
        <3>6. QED
            BY <3>1, <3>5, Zenon
    <2>3. QED
        BY <2>1, <2>2, Zenon
<1>6. RotatedOnce'
    <2> SUFFICES ASSUME NEW p \in Requests, NEW q \in Requests, req'[p].swapped, req'[q].swapped,
                        req'[p].sess = req'[q].sess, req'[p].gen = req'[q].gen
                 PROVE  p = q
        BY Zenon DEF RotatedOnce
    <2>1. CASE p # r /\ q # r
        BY <1>2, <2>1, Zenon DEF SessionsInv, RotatedOnce
    <2>2. CASE p = r /\ q # r
        BY <1>2, <2>2, Zenon DEF Apart
    <2>3. CASE p # r /\ q = r
        BY <1>2, <2>3, Zenon DEF Apart
    <2>4. QED
        BY <2>1, <2>2, <2>3, Zenon
<1>7. Promised'
    <2> SUFFICES ASSUME NEW t \in untold'
                 PROVE  t[1] \in DOMAIN session' /\ \E q \in Requests : Tells(req'[q], session'[t[1]].of)
        BY Zenon DEF Promised, Tells
    <2>1. CASE t[1] \in 1..Len(session') /\ Tells(y, session'[t[1]].of)
        BY <1>2, <1>4, <2>1, Zenon
    <2>2. CASE t \in untold /\ ~Tells(req[r], session[t[1]].of)
        <3>1. t[1] \in 1..Len(session) /\ \E q \in Requests : Tells(req[q], session[t[1]].of)
            BY <2>2, <1>4, Zenon DEF SessionsInv, Promised
        <3>2. PICK q \in Requests : Tells(req[q], session[t[1]].of)
            BY <3>1, Zenon
        <3>3. q # r /\ req'[q] = req[q]
            BY <2>2, <3>2, <1>2, Zenon
        <3>4. session'[t[1]].of = session[t[1]].of /\ t[1] \in DOMAIN session'
            BY <3>1, <1>4 DEF Grown
        <3>5. Tells(req'[q], session'[t[1]].of)
            BY <3>2, <3>3, <3>4, Zenon
        <3>6. QED
            BY <3>4, <3>5, Zenon
    <2>3. QED
        BY <2>1, <2>2, Zenon DEF Passed
<1>8. QED
    BY <1>3, <1>5, <1>6, <1>7, Zenon DEF SessionsInv
-----------------------------------------------------------------------------
(* Answers.                                                                  *)

\* The accounts and sessions a step leaves alone.
Steady == active' = active /\ password' = password /\ session' = session

LEMMA SteadyGrown ==
    ASSUME SessionsInv, Steady
    PROVE  /\ active' \in [People -> BOOLEAN] /\ password' \in [People -> Passwords] /\ Active' \subseteq Active /\ Grown
           /\ Active' = Active
<1>1. active' \in [People -> BOOLEAN] /\ password' \in [People -> Passwords] /\ Active' = Active
    BY Zenon DEF SessionsInv, StoreType, Steady, Active
<1>2. session \in Seq(Session) /\ \A s \in 1..Len(session) : session[s].gen \in Nat
    BY SessionFacts, Zenon DEF SessionsInv, StoreType, Session
<1>3. Grown
    BY <1>2 DEF Grown, Steady
<1>4. QED
    BY <1>1, <1>3, Zenon

LEMMA RequestNow ==
    ASSUME SessionsInv, NEW r \in Requests
    PROVE  req[r] \in Request /\ Good(req[r]) /\ req \in [Requests -> Request]
BY Zenon DEF SessionsInv, StoreType

LEMMA WaitingFields ==
    /\ Waiting \in Request /\ Waiting.op = "none" /\ Waiting.at = "idle" /\ Waiting.of = Nobody /\ Waiting.by = Nobody
    /\ Waiting.sess = 0 /\ Waiting.gen = 0 /\ Waiting.tell = {} /\ ~Waiting.swapped /\ Waiting.answer = "none"
<1>1. 0 \in Nat /\ Nobody \in Actors /\ Nobody \in Passwords \cup {Nobody} /\ {} \in SUBSET People
    BY Zenon DEF Actors
<1>2. "none" \in Ops /\ "idle" \in Places /\ "none" \in Answers
    BY Zenon DEF Ops, Places, Answers
<1>3. Waiting \in Request
    BY <1>1, <1>2, Zenon DEF Waiting, Request
<1>4. QED
    BY <1>3, Zenon DEF Waiting

LEMMA EndedFields ==
    ASSUME NEW x \in Request, NEW answer \in Answers, NEW y, y = Ended(x, answer)
    PROVE  /\ y \in Request /\ y.at = "done" /\ y.op = "none" /\ y.answer = answer /\ y.swapped = x.swapped
           /\ x.swapped => y.sess = x.sess /\ y.gen = x.gen
           /\ answer = "granted" => y.of = x.of /\ y.by = x.by /\ y.seen = x.seen
<1> DEFINE kept == IF answer = "granted" THEN [Waiting EXCEPT !.of = x.of, !.by = x.by, !.seen = x.seen] ELSE Waiting
<1>1. PICK k : k = kept
    BY Zenon
<1>2. /\ k \in Request /\ k.op = "none"
      /\ answer = "granted" => k.of = x.of /\ k.by = x.by /\ k.seen = x.seen
    <2>1. CASE answer # "granted"
        BY <1>1, <2>1, WaitingFields, Zenon
    <2>2. CASE answer = "granted"
        BY <1>1, <2>2, WaitingFields, Zenon DEF Request
    <2>3. QED
        BY <2>1, <2>2, Zenon
<1>3. y = [k EXCEPT !.at = "done", !.answer = answer, !.swapped = x.swapped,
                    !.sess = IF x.swapped THEN x.sess ELSE 0, !.gen = IF x.swapped THEN x.gen ELSE 0]
    BY <1>1, Zenon DEF Ended
<1> HIDE DEF kept
<1>4. y \in Request
    <2>1. PICK s, g : s = (IF x.swapped THEN x.sess ELSE 0) /\ g = (IF x.swapped THEN x.gen ELSE 0)
        BY Zenon
    <2>2. s \in Nat /\ g \in Nat /\ x.swapped \in BOOLEAN /\ "done" \in Places
        BY <2>1, Zenon DEF Request, Places
    <2>3. y = [k EXCEPT !.at = "done", !.answer = answer, !.swapped = x.swapped, !.sess = s, !.gen = g]
        BY <1>3, <2>1, Zenon
    <2>4. QED
        BY <1>2, <2>2, <2>3, Zenon DEF Request
<1>5. QED
    BY <1>2, <1>3, <1>4 DEF Request

LEMMA SameApart ==
    ASSUME SessionsInv, NEW r \in Requests, NEW y,
           y.swapped => req[r].swapped /\ y.sess = req[r].sess /\ y.gen = req[r].gen
    PROVE  Apart(r, y)
BY Zenon DEF Apart, SessionsInv, RotatedOnce

\* What is known of a request that was answered.
LEMMA EndedGood ==
    ASSUME SessionsInv, Grown, NEW r \in Requests, NEW answer \in Answers, NEW y, y = Ended(req[r], answer),
           answer = "granted" => req[r].of \in req[r].seen /\ req[r].by \in req[r].seen \cup {Nobody}
    PROVE  Good(y)' /\ Apart(r, y) /\ y.answer = answer
<1>1. PICK x : x = req[r]
    BY Zenon
<1>2. x \in Request /\ Good(x) /\ y = Ended(x, answer)
    BY <1>1, RequestNow, Zenon
<1>3. /\ y \in Request /\ y.at = "done" /\ y.op = "none" /\ y.answer = answer /\ y.swapped = x.swapped
      /\ x.swapped => y.sess = x.sess /\ y.gen = x.gen
      /\ answer = "granted" => y.of = x.of /\ y.by = x.by /\ y.seen = x.seen
    BY <1>2, EndedFields
<1>4. Fresh(y)' /\ Unanswered(y)' /\ Names(y)' /\ Seen(y)'
    BY <1>1, <1>3, Zenon DEF Fresh, Unanswered, InFlight, Names, Seen
<1>5. Holds(y)'
    <2>1. ASSUME y.swapped PROVE y.sess \in DOMAIN session' /\ y.gen < session'[y.sess].gen
        <3>1. y.sess \in 1..Len(session) /\ y.gen < session[y.sess].gen /\ y.gen \in Nat
            BY <2>1, <1>2, <1>3, SessionFacts, Zenon DEF Good, Holds, Request, SessionsInv, StoreType
        <3>2. session[y.sess].gen <= session'[y.sess].gen /\ y.sess \in DOMAIN session'
            BY <3>1, SessionFacts DEF Grown, SessionsInv, StoreType
        <3>3. session[y.sess].gen \in Nat /\ session'[y.sess].gen \in Nat
            BY <3>1, GenNat, Zenon
        <3>4. QED
            BY <3>1, <3>2, <3>3
    <2>2. QED
        BY <2>1, <1>3, Zenon DEF Holds
<1>6. Apart(r, y)
    BY <1>1, <1>3, SameApart, Zenon
<1>7. QED
    BY <1>3, <1>4, <1>5, <1>6, Zenon DEF Good

\* A request that is answered, the accounts and sessions as they were.
LEMMA AnswerStep ==
    ASSUME SessionsInv, Steady, NEW r \in Requests, NEW answer \in Answers, Answer(r, answer),
           answer = "granted" => req[r].of \in req[r].seen /\ req[r].by \in req[r].seen \cup {Nobody},
           \A t \in untold' : t \in untold /\ (answer = "failed" \/ ~Tells(req[r], session[t[1]].of))
    PROVE  SessionsInv'
<1>1. PICK y : y = Ended(req[r], answer)
    BY Zenon
<1>2. req' = [req EXCEPT ![r] = y]
    BY <1>1, Zenon DEF Answer
<1>3. active' \in [People -> BOOLEAN] /\ password' \in [People -> Passwords] /\ Active' \subseteq Active /\ Grown
    BY SteadyGrown, Zenon
<1>4. Good(y)' /\ Apart(r, y) /\ y.answer = answer
    BY <1>1, <1>3, EndedGood, Zenon
<1>5. Passed(r, y)
    <2> SUFFICES ASSUME NEW t \in untold', answer = "failed"
                 PROVE  t[1] \in 1..Len(session') /\ Tells(y, session'[t[1]].of)
        BY Zenon DEF Passed
    <2>1. t[1] \in 1..Len(session')
        BY SessionFacts, Zenon DEF SessionsInv, StoreType, Promised, Steady
    <2>2. QED
        BY <2>1, <1>4, Zenon DEF Tells
<1>6. QED
    BY <1>2, <1>3, <1>4, <1>5, RequestStep, Zenon

\* A request that only ends, at a place where nobody relies on it to tell.
LEMMA SilentAnswer ==
    ASSUME SessionsInv, Steady, untold' = untold, NEW r \in Requests, NEW answer \in Answers, Answer(r, answer),
           req[r].at \notin {"log", "opened", "tell", "done"},
           answer = "granted" => req[r].of \in req[r].seen /\ req[r].by \in req[r].seen \cup {Nobody}
    PROVE  SessionsInv'
<1>1. req[r].answer = "none"
    BY RequestNow, Zenon DEF Good, Fresh, Unanswered, InFlight
<1>2. \A t \in untold' : t \in untold /\ ~Tells(req[r], session[t[1]].of)
    BY <1>1, Zenon DEF Tells
<1>3. QED
    BY <1>2, AnswerStep, Zenon

-----------------------------------------------------------------------------
(* Requests that come.                                                       *)

MayBegin(op, c, at) ==
    /\ op \in Ops /\ at \in {"account", "open", "target", "rotate", "check", "end", "tx", "own"}
    /\ at = "account" => c.by = Nobody
    /\ at \in {"account", "open", "target", "check", "tx", "own"} => c.of \in People
    /\ at \in {"rotate", "end"} => c.sess \in 1..Len(session)
    /\ at = "end" => op = "logout"
    /\ op = "password" => c.password \in Passwords
    /\ op = "return" => c.sess \in 1..Len(session)
    /\ at = "target" => c.by \in Active
    /\ at = "open" => c.of \in Active /\ c.by \in Active \cup {Nobody}
    /\ op = "return" => c.of \in Active /\ c.by = Nobody

LEMMA BeginStep ==
    ASSUME SessionsInv, Steady, untold' = untold, NEW r \in Requests, NEW op, NEW c \in Request, NEW at,
           req[r].at = "idle", req' = [req EXCEPT ![r] = [c EXCEPT !.at = at, !.op = op, !.seen = Active]],
           ~c.swapped, c.answer = "none", MayBegin(op, c, at)
    PROVE  SessionsInv'
<1>1. PICK y : y = [c EXCEPT !.at = at, !.op = op, !.seen = Active]
    BY Zenon
<1>2. at \in Places /\ op \in Ops /\ Active \in SUBSET People
    BY Zenon DEF MayBegin, Places, Active
<1>3. /\ y \in Request /\ y.at = at /\ y.op = op /\ y.seen = Active /\ y.of = c.of /\ y.by = c.by /\ y.password = c.password
      /\ y.sess = c.sess /\ ~y.swapped /\ y.answer = "none"
    BY <1>1, <1>2, Zenon DEF Request
<1>4. /\ active' \in [People -> BOOLEAN] /\ password' \in [People -> Passwords] /\ Active' \subseteq Active /\ Grown
      /\ Active' = Active
    BY SteadyGrown, Zenon
<1>5. DOMAIN session' = 1..Len(session)
    BY SessionFacts, Zenon DEF SessionsInv, StoreType, Steady
<1>6. Good(y)'
    BY <1>3, <1>4, <1>5, Zenon DEF Good, Fresh, Unanswered, InFlight, Names, Seen, Holds, MayBegin
<1>7. Apart(r, y)
    BY <1>3, Zenon DEF Apart
<1>8. req[r].answer = "none"
    BY RequestNow, Zenon DEF Good, Fresh
<1>9. Passed(r, y)
    BY <1>8, Zenon DEF Passed, Tells
<1>10. QED
    BY <1>1, <1>4, <1>6, <1>7, <1>9, RequestStep, Zenon

LEMMA BeginOrRefuseStep ==
    ASSUME SessionsInv, Steady, untold' = untold, NEW r \in Requests, NEW op, NEW c \in Request, NEW ok, NEW at,
           BeginOrRefuse(r, op, c, ok, at), ~c.swapped, c.answer = "none", ok => MayBegin(op, c, at)
    PROVE  SessionsInv'
<1>1. CASE ok
    <2>1. PICK d : d = [c EXCEPT !.at = at]
        BY Zenon
    <2>2. req[r].at = "idle" /\ req' = [req EXCEPT ![r] = [d EXCEPT !.op = op, !.seen = Active]]
        BY <1>1, <2>1, Zenon DEF BeginOrRefuse, Begin
    <2>3. [d EXCEPT !.op = op, !.seen = Active] = [c EXCEPT !.at = at, !.op = op, !.seen = Active]
        BY <2>1, Zenon DEF Request
    <2>4. QED
        BY <1>1, <2>2, <2>3, BeginStep, Zenon
<1>2. CASE ~ok
    <2>1. req[r].at = "idle" /\ Answer(r, "refused")
        BY <1>2, Zenon DEF BeginOrRefuse
    <2>2. "refused" \in Answers
        BY Zenon DEF Answers
    <2>3. QED
        BY <2>1, <2>2, SilentAnswer, Zenon
<1>3. QED
    BY <1>1, <1>2, Zenon

LEMMA LoginStep == ASSUME SessionsInv, NEW r \in Requests, NEW p \in People, NEW pw \in Passwords, Login(r, p, pw) PROVE SessionsInv'
<1>1. PICK c, ok : /\ c = [Waiting EXCEPT !.of = p, !.password = pw]
                   /\ BeginOrRefuse(r, "login", c, ok, "account")
    BY Zenon DEF Login
<1>2. c \in Request /\ c.of = p /\ c.by = Nobody /\ ~c.swapped /\ c.answer = "none"
    BY <1>1, WaitingFields, Zenon DEF Request, Actors
<1>3. MayBegin("login", c, "account")
    BY <1>2, Zenon DEF MayBegin, Ops
<1>4. Steady /\ untold' = untold
    BY Zenon DEF Login, Steady, accountVars
<1>5. QED
    BY <1>1, <1>2, <1>3, <1>4, BeginOrRefuseStep, Zenon

LEMMA EmbedStep == ASSUME SessionsInv, NEW r \in Requests, NEW p \in People, Embed(r, p) PROVE SessionsInv'
<1>1. PICK c, ok : c = [Waiting EXCEPT !.of = p] /\ (ok => active[p]) /\ BeginOrRefuse(r, "embed", c, ok, "open")
    BY Zenon DEF Embed
<1>2. c \in Request /\ c.of = p /\ c.by = Nobody /\ ~c.swapped /\ c.answer = "none"
    BY <1>1, WaitingFields, Zenon DEF Request, Actors
<1>3. ok => MayBegin("embed", c, "open")
    BY <1>1, <1>2, Zenon DEF MayBegin, Ops, Active
<1>4. Steady /\ untold' = untold
    BY Zenon DEF Embed, Steady, accountVars
<1>5. BeginOrRefuse(r, "embed", c, ok, "open")
    BY <1>1, Zenon
<1>6. QED
    BY <1>2, <1>3, <1>4, <1>5, BeginOrRefuseStep, Zenon

LEMMA LoginAsStep ==
    ASSUME SessionsInv, NEW r \in Requests, NEW a \in People, NEW t \in People, LoginAs(r, a, t) PROVE SessionsInv'
<1>1. PICK c, ok : /\ c = [Waiting EXCEPT !.of = t, !.by = a] /\ (ok => active[a])
                   /\ BeginOrRefuse(r, "login_as", c, ok, "target")
    BY Zenon DEF LoginAs
<1>2. c \in Request /\ c.of = t /\ c.by = a /\ ~c.swapped /\ c.answer = "none"
    BY <1>1, WaitingFields, Zenon DEF Request, Actors
<1>3. ok => MayBegin("login_as", c, "target")
    BY <1>1, <1>2, Zenon DEF MayBegin, Ops, Active
<1>4. Steady /\ untold' = untold
    BY Zenon DEF LoginAs, Steady, accountVars
<1>5. BeginOrRefuse(r, "login_as", c, ok, "target")
    BY <1>1, Zenon
<1>6. QED
    BY <1>2, <1>3, <1>4, <1>5, BeginOrRefuseStep, Zenon

\* What a token names.
LEMMA TokenNames ==
    ASSUME SessionsInv, NEW t \in Tokens
    PROVE  /\ t[1] \in 1..Len(session) /\ t[1] \in Nat /\ t[2] \in Nat
           /\ session[t[1]].of \in People /\ session[t[1]].actor \in Actors
<1>1. session \in Seq(Session) /\ DOMAIN session = 1..Len(session) /\ Len(session) \in Nat
    BY SessionFacts, Zenon DEF SessionsInv, StoreType
<1>2. PICK s \in DOMAIN session : t \in {s} \X (0..session[s].gen)
    BY Zenon DEF Tokens
<1>3. s \in 1..Len(session) /\ session[s] \in Session
    BY <1>1, <1>2
<1>4. t[1] = s /\ t[2] \in 0..session[s].gen /\ session[s].gen \in Nat
    BY <1>2, <1>3, Zenon DEF Session
<1>5. QED
    BY <1>3, <1>4 DEF Session

LEMMA ReturnStep == ASSUME SessionsInv, NEW r \in Requests, NEW t \in Tokens, Return(r, t[1], t[2]) PROVE SessionsInv'
<1>1. PICK c, a : /\ a = session[t[1]].actor /\ c = [Waiting EXCEPT !.of = a, !.sess = t[1]]
                  /\ BeginOrRefuse(r, "return", c, a # Nobody /\ a \in Active, "open")
    BY Zenon DEF Return
<1>2. c \in Request /\ c.of = a /\ c.by = Nobody /\ ~c.swapped /\ c.answer = "none" /\ c.sess \in 1..Len(session)
    BY <1>1, WaitingFields, TokenNames, Zenon DEF Request
<1>3. PICK ok : ok = (a # Nobody /\ a \in Active)
    BY Zenon
<1>4. ok => MayBegin("return", c, "open")
    BY <1>2, <1>3, Zenon DEF MayBegin, Ops, Active
<1>5. Steady /\ untold' = untold
    BY Zenon DEF Return, Steady, accountVars
<1>6. BeginOrRefuse(r, "return", c, ok, "open")
    BY <1>1, <1>3, Zenon
<1>7. QED
    BY <1>2, <1>4, <1>5, <1>6, BeginOrRefuseStep, Zenon

LEMMA RefreshStep == ASSUME SessionsInv, NEW r \in Requests, NEW t \in Tokens, Refresh(r, t[1], t[2]) PROVE SessionsInv'
<1>1. PICK c, ok : /\ c = [Waiting EXCEPT !.sess = t[1], !.gen = t[2]]
                   /\ BeginOrRefuse(r, "refresh", c, ok, "rotate")
    BY Zenon DEF Refresh
<1>2. c \in Request /\ c.sess = t[1] /\ ~c.swapped /\ c.answer = "none"
    BY <1>1, WaitingFields, TokenNames, Zenon DEF Request
<1>3. MayBegin("refresh", c, "rotate")
    BY <1>2, TokenNames, Zenon DEF MayBegin, Ops
<1>4. Steady /\ untold' = untold
    BY Zenon DEF Refresh, Steady, accountVars
<1>5. QED
    BY <1>1, <1>2, <1>3, <1>4, BeginOrRefuseStep, Zenon

LEMMA AuthenticateStep ==
    ASSUME SessionsInv, NEW r \in Requests, NEW t \in Tokens, Authenticate(r, t[1], t[2]) PROVE SessionsInv'
<1>1. PICK c, ok : /\ c = [Waiting EXCEPT !.sess = t[1], !.gen = t[2], !.of = session[t[1]].of, !.by = session[t[1]].actor]
                   /\ BeginOrRefuse(r, "authenticate", c, ok, "check")
    BY Zenon DEF Authenticate
<1>2. c \in Request /\ c.of \in People /\ ~c.swapped /\ c.answer = "none"
    BY <1>1, WaitingFields, TokenNames, Zenon DEF Request, Actors
<1>3. MayBegin("authenticate", c, "check")
    BY <1>2, Zenon DEF MayBegin, Ops
<1>4. Steady /\ untold' = untold
    BY Zenon DEF Authenticate, Steady, accountVars
<1>5. QED
    BY <1>1, <1>2, <1>3, <1>4, BeginOrRefuseStep, Zenon

LEMMA LogoutStep == ASSUME SessionsInv, NEW r \in Requests, NEW t \in Tokens, Logout(r, t[1], t[2]) PROVE SessionsInv'
<1>1. PICK c, ok : /\ c = [Waiting EXCEPT !.sess = t[1], !.of = session[t[1]].of]
                   /\ BeginOrRefuse(r, "logout", c, ok, "end")
    BY Zenon DEF Logout
<1>2. c \in Request /\ c.sess = t[1] /\ ~c.swapped /\ c.answer = "none"
    BY <1>1, WaitingFields, TokenNames, Zenon DEF Request, Actors
<1>3. MayBegin("logout", c, "end")
    BY <1>2, TokenNames, Zenon DEF MayBegin, Ops
<1>4. Steady /\ untold' = untold
    BY Zenon DEF Logout, Steady, accountVars
<1>5. QED
    BY <1>1, <1>2, <1>3, <1>4, BeginOrRefuseStep, Zenon

LEMMA ChangePasswordStep ==
    ASSUME SessionsInv, NEW r \in Requests, NEW p \in People, NEW pw \in Passwords, NEW t \in Tokens,
           ChangePassword(r, p, pw, t[1], t[2])
    PROVE  SessionsInv'
<1>1. PICK c, ok : /\ c = [Waiting EXCEPT !.of = p, !.by = p, !.password = pw, !.sess = t[1], !.gen = t[2]]
                   /\ BeginOrRefuse(r, "password", c, ok, "tx")
    BY Zenon DEF ChangePassword
<1>2. c \in Request /\ c.of = p /\ c.password = pw /\ ~c.swapped /\ c.answer = "none"
    BY <1>1, WaitingFields, TokenNames, Zenon DEF Request, Actors
<1>3. MayBegin("password", c, "tx")
    BY <1>2, Zenon DEF MayBegin, Ops
<1>4. Steady /\ untold' = untold
    BY Zenon DEF ChangePassword, Steady, accountVars
<1>5. QED
    BY <1>1, <1>2, <1>3, <1>4, BeginOrRefuseStep, Zenon

LEMMA SetPasswordStep ==
    ASSUME SessionsInv, NEW r \in Requests, NEW p \in People, NEW pw \in Passwords, NEW t \in Tokens \cup {NoToken},
           SetPassword(r, p, pw, t[1], t[2])
    PROVE  SessionsInv'
<1>0. t[1] \in Nat /\ t[2] \in Nat
    BY TokenNames DEF NoToken
<1>1. PICK c : c = [Waiting EXCEPT !.of = p, !.password = pw, !.sess = t[1], !.gen = t[2]]
    BY Zenon
<1>2. c \in Request /\ c.of = p /\ c.password = pw /\ ~c.swapped /\ c.answer = "none"
    BY <1>0, <1>1, WaitingFields, Zenon DEF Request, Actors
<1>3. [Waiting EXCEPT !.of = p, !.password = pw, !.sess = t[1], !.gen = t[2], !.at = "tx"] = [c EXCEPT !.at = "tx"]
    BY <1>1, WaitingFields, Zenon DEF Request
<1>4. req[r].at = "idle" /\ req' = [req EXCEPT ![r] = [[c EXCEPT !.at = "tx"] EXCEPT !.op = "password", !.seen = Active]]
    BY <1>3, Zenon DEF SetPassword, Begin
<1>5. [[c EXCEPT !.at = "tx"] EXCEPT !.op = "password", !.seen = Active] = [c EXCEPT !.at = "tx", !.op = "password", !.seen = Active]
    BY <1>2, Zenon DEF Request
<1>6. MayBegin("password", c, "tx")
    BY <1>2, Zenon DEF MayBegin, Ops
<1>7. Steady /\ untold' = untold
    BY Zenon DEF SetPassword, Steady, accountVars
<1>8. QED
    BY <1>2, <1>4, <1>5, <1>6, <1>7, BeginStep, Zenon

LEMMA SwitchActiveStep ==
    ASSUME SessionsInv, NEW r \in Requests, NEW p \in People, NEW on \in BOOLEAN, SwitchActive(r, p, on) PROVE SessionsInv'
<1>1. PICK c, op, ok : /\ c = [Waiting EXCEPT !.of = p] /\ op = (IF on THEN "activate" ELSE "deactivate")
                       /\ BeginOrRefuse(r, op, c, ok, "tx")
    BY Zenon DEF SwitchActive
<1>2. c \in Request /\ c.of = p /\ ~c.swapped /\ c.answer = "none"
    BY <1>1, WaitingFields, Zenon DEF Request, Actors
<1>3. op \in {"activate", "deactivate"}
    BY <1>1, Zenon
<1>4. MayBegin(op, c, "tx")
    BY <1>2, <1>3, Zenon DEF MayBegin, Ops
<1>5. Steady /\ untold' = untold
    BY Zenon DEF SwitchActive, Steady, accountVars
<1>6. QED
    BY <1>1, <1>2, <1>4, <1>5, BeginOrRefuseStep, Zenon

LEMMA UnlockStep == ASSUME SessionsInv, NEW r \in Requests, NEW p \in People, Unlock(r, p) PROVE SessionsInv'
<1>1. PICK c, ok : c = [Waiting EXCEPT !.of = p] /\ BeginOrRefuse(r, "unlock", c, ok, "tx")
    BY Zenon DEF Unlock
<1>2. c \in Request /\ c.of = p /\ ~c.swapped /\ c.answer = "none"
    BY <1>1, WaitingFields, Zenon DEF Request, Actors
<1>3. MayBegin("unlock", c, "tx")
    BY <1>2, Zenon DEF MayBegin, Ops
<1>4. Steady /\ untold' = untold
    BY Zenon DEF Unlock, Steady, accountVars
<1>5. QED
    BY <1>1, <1>2, <1>3, <1>4, BeginOrRefuseStep, Zenon

LEMMA RevokeSessionsStep ==
    ASSUME SessionsInv, NEW r \in Requests, NEW p \in People, NEW t \in Tokens \cup {NoToken}, RevokeSessions(r, p, t[1], t[2])
    PROVE  SessionsInv'
<1>1. PICK k : k = Kept(p, t[1], t[2])
    BY Zenon
<1>2. k \in Nat
    BY <1>1, TokenNames DEF Kept, NoToken
<1>3. PICK c : c = [Waiting EXCEPT !.of = p, !.sess = k]
    BY Zenon
<1>4. c \in Request /\ c.of = p /\ ~c.swapped /\ c.answer = "none"
    BY <1>2, <1>3, WaitingFields, Zenon DEF Request, Actors
<1>5. [Waiting EXCEPT !.of = p, !.sess = k, !.at = "own"] = [c EXCEPT !.at = "own"]
    BY <1>3, WaitingFields, Zenon DEF Request
<1>6. req[r].at = "idle" /\ req' = [req EXCEPT ![r] = [[c EXCEPT !.at = "own"] EXCEPT !.op = "revoke_all", !.seen = Active]]
    BY <1>1, <1>5, Zenon DEF RevokeSessions, Begin
<1>7. [[c EXCEPT !.at = "own"] EXCEPT !.op = "revoke_all", !.seen = Active] = [c EXCEPT !.at = "own", !.op = "revoke_all", !.seen = Active]
    BY <1>4, Zenon DEF Request
<1>8. MayBegin("revoke_all", c, "own")
    BY <1>4, Zenon DEF MayBegin, Ops
<1>9. Steady /\ untold' = untold
    BY Zenon DEF RevokeSessions, Steady, accountVars
<1>10. QED
    BY <1>4, <1>6, <1>7, <1>8, <1>9, BeginStep, Zenon

-----------------------------------------------------------------------------
(* Sessions that are opened, rotated and ended.                              *)

\* Ending sessions ends nothing else, and who is told of them is known.
LEMMA EndedSessions ==
    ASSUME SessionsInv, NEW S, S \subseteq 1..Len(session), EndSessions(S)
    PROVE  /\ Grown /\ Len(session') = Len(session)
           /\ \A s \in 1..Len(session) : session'[s].of = session[s].of
           /\ \A t \in untold' : t \in untold \/ (t[1] \in S)
<1>1. session \in Seq(Session) /\ DOMAIN session = 1..Len(session) /\ Len(session) \in Nat
    BY SessionFacts, Zenon DEF SessionsInv, StoreType
<1>2. session' = [s \in 1..Len(session) |-> IF s \in S THEN [session[s] EXCEPT !.revoked = TRUE] ELSE session[s]]
    BY <1>1, Zenon DEF EndSessions
<1>3. ASSUME NEW s \in 1..Len(session)
      PROVE  session'[s] \in Session /\ session'[s].of = session[s].of /\ session'[s].gen = session[s].gen /\ session[s].gen \in Nat
    <2>1. session[s] \in Session
        BY <1>1
    <2>2. session'[s] = [session[s] EXCEPT !.revoked = TRUE] \/ session'[s] = session[s]
        BY <1>2, Zenon
    <2>3. PICK x, y : x = session[s] /\ y = session'[s]
        BY Zenon
    <2>4. y \in Session /\ y.of = x.of /\ y.gen = x.gen
        BY <2>1, <2>2, <2>3, Zenon DEF Session
    <2>5. QED
        BY <2>1, <2>3, <2>4, Zenon DEF Session
<1>4. session' \in [1..Len(session) -> Session]
    BY <1>2, <1>3, Zenon
<1>5. session' \in Seq(Session) /\ Len(session') = Len(session)
    BY <1>1, <1>4
<1>6. Grown
    BY <1>1, <1>3, <1>5 DEF Grown
<1>7. \A t \in untold' : t \in untold \/ (t[1] \in S)
    BY DEF EndSessions
<1>8. QED
    BY <1>3, <1>5, <1>6, <1>7, Zenon

\* A request that ends sessions and will tell their owners.
LEMMA EndStep ==
    ASSUME SessionsInv, NEW r \in Requests, NEW S, S \subseteq 1..Len(session), EndSessions(S), NEW y,
           req' = [req EXCEPT ![r] = y], y \in Request, y.at \in {"log", "opened", "tell"}, y.answer = "none", ~y.swapped,
           Active \subseteq y.seen, y.op # "refresh", y.at = "opened" => y.of \in People, y.op = "return" => y.of \in y.seen /\ y.by = Nobody /\ y.sess \in 1..Len(session),
           Owners(S) \subseteq y.tell, \A p : Tells(req[r], p) => p \in y.tell,
           active' \in [People -> BOOLEAN], password' \in [People -> Passwords], Active' \subseteq Active
    PROVE  SessionsInv'
<1>1. /\ Grown /\ Len(session') = Len(session)
      /\ \A s \in 1..Len(session) : session'[s].of = session[s].of
      /\ \A t \in untold' : t \in untold \/ (t[1] \in S)
    BY EndedSessions, Zenon
<1>2. Good(y)'
    <2>1. DOMAIN session' = 1..Len(session)
        BY <1>1, SessionFacts DEF Grown
    <2>2. QED
        BY <2>1, Zenon DEF Good, Fresh, Unanswered, InFlight, Names, Seen, Holds
<1>3. Apart(r, y)
    BY Zenon DEF Apart
<1>4. Passed(r, y)
    <2> SUFFICES ASSUME NEW t \in untold'
                 PROVE  \/ t[1] \in 1..Len(session') /\ Tells(y, session'[t[1]].of)
                        \/ t \in untold /\ ~Tells(req[r], session[t[1]].of)
        BY Zenon DEF Passed
    <2>1. CASE t[1] \in S
        <3>1. t[1] \in 1..Len(session) /\ session[t[1]].of \in Owners(S)
            BY <2>1, Zenon DEF Owners
        <3>2. QED
            BY <1>1, <3>1, Zenon DEF Tells
    <2>2. CASE t \in untold /\ Tells(req[r], session[t[1]].of)
        <3>1. t[1] \in 1..Len(session)
            BY <2>2, SessionFacts, Zenon DEF SessionsInv, StoreType, Promised
        <3>2. session'[t[1]].of \in y.tell
            BY <1>1, <2>2, <3>1, Zenon
        <3>3. QED
            BY <1>1, <3>1, <3>2, Zenon DEF Tells
    <2>3. QED
        BY <1>1, <2>1, <2>2, Zenon
<1>5. QED
    BY <1>1, <1>2, <1>3, <1>4, RequestStep, Zenon

\* A request that goes on where nobody relies on it to tell.
LEMMA MoveStep ==
    ASSUME SessionsInv, NEW r \in Requests, NEW y, req' = [req EXCEPT ![r] = y],
           active' \in [People -> BOOLEAN], password' \in [People -> Passwords], Active' \subseteq Active, Grown,
           untold' = untold, Good(y)', y.swapped => req[r].swapped /\ y.sess = req[r].sess /\ y.gen = req[r].gen,
           req[r].at \notin {"log", "opened", "tell", "done"}
    PROVE  SessionsInv'
<1>1. Apart(r, y)
    BY SameApart, Zenon
<1>2. req[r].answer = "none"
    BY RequestNow, Zenon DEF Good, Fresh, Unanswered, InFlight
<1>3. Passed(r, y)
    BY <1>2, Zenon DEF Passed, Tells
<1>4. QED
    BY <1>1, <1>3, RequestStep, Zenon

\* Good(y) of a request that is not yet answered nor swapped.
LEMMA UnswappedGood ==
    ASSUME SessionsInv, Grown, Active' \subseteq Active, NEW x, Good(x), InFlight(x), ~x.swapped,
           NEW y \in Request, y.at \in {"lock", "compare", "record", "open", "end", "actor"},
           y.op = x.op, y.of = x.of, y.by = x.by, y.sess = x.sess, ~y.swapped, y.seen = x.seen, y.answer = x.answer,
           y.at \in {"lock", "compare"} => x.of \in People /\ x.by = Nobody /\ (y.up => x.of \in x.seen),
           y.at \in {"record", "open"} => x.of \in x.seen /\ x.by \in x.seen \cup {Nobody},
           y.at = "actor" => x.of \in x.seen,
           y.at = "end" => x.op = "return" /\ x.sess \in 1..Len(session)
    PROVE  Good(y)'
<1>1. x.answer = "none" /\ Active' \subseteq y.seen /\ y.seen \subseteq People
    BY Zenon DEF Good, Unanswered, Request
<1>2. Fresh(y)' /\ Unanswered(y)' /\ Names(y)'
    BY <1>1, Zenon DEF Fresh, Unanswered, Names
<1>3. Seen(y)'
    BY <1>1, Zenon DEF Seen, Good
<1>4. y.sess \in 1..Len(session) => y.sess \in DOMAIN session'
    BY SessionFacts DEF Grown, SessionsInv, StoreType
<1>5. x.op = "return" => x.sess \in 1..Len(session)
    BY SessionFacts, Zenon DEF Good, Holds, SessionsInv, StoreType
<1>6. Holds(y)'
    BY <1>4, <1>5, Zenon DEF Holds
<1>7. QED
    BY <1>2, <1>3, <1>6, Zenon DEF Good

LEMMA AnswersAre == {"none", "refused", "granted", "failed"} = Answers
BY Zenon DEF Answers

\* A place is refused, or reached.
LEMMA GoOrRefuseStep ==
    ASSUME SessionsInv, Steady, untold' = untold, NEW r \in Requests, NEW ok, NEW at, GoOrRefuse(r, ok, at),
           InFlight(req[r]), ~req[r].swapped, req[r].at \notin {"log", "opened", "tell"}, at \in {"lock", "compare", "record", "open", "actor"},
           ok /\ at \in {"lock", "compare"} => req[r].of \in People /\ req[r].by = Nobody /\ (req[r].up => req[r].of \in req[r].seen),
           ok /\ at \in {"record", "open"} => req[r].of \in req[r].seen /\ req[r].by \in req[r].seen \cup {Nobody},
           ok /\ at = "actor" => req[r].of \in req[r].seen
    PROVE  SessionsInv'
<1>1. CASE ok
    <2>1. PICK x, y : x = req[r] /\ y = [x EXCEPT !.at = at]
        BY Zenon
    <2>2. req' = [req EXCEPT ![r] = y]
        <3>1. req' = [req EXCEPT ![r].at = at]
            BY <1>1, Zenon DEF GoOrRefuse, Go
        <3>2. QED
            BY <2>1, <3>1, RequestNow, Zenon
    <2>3. x \in Request /\ Good(x) /\ at \in Places
        BY <2>1, RequestNow, Zenon DEF Places
    <2>4. /\ y \in Request /\ y.at = at /\ y.op = x.op /\ y.of = x.of /\ y.by = x.by /\ y.sess = x.sess /\ y.up = x.up
          /\ y.swapped = x.swapped /\ y.seen = x.seen /\ y.answer = x.answer
        BY <2>1, <2>3, Zenon DEF Request
    <2>5. active' \in [People -> BOOLEAN] /\ password' \in [People -> Passwords] /\ Active' \subseteq Active /\ Grown
        BY SteadyGrown, Zenon
    <2>6. Good(y)'
        BY <1>1, <2>1, <2>3, <2>4, <2>5, UnswappedGood, ZenonT(30)
    <2>7. QED
        BY <2>1, <2>2, <2>4, <2>5, <2>6, MoveStep, Zenon DEF InFlight
<1>2. CASE ~ok
    <2>1. Answer(r, "refused")
        BY <1>2, Zenon DEF GoOrRefuse
    <2>2. QED
        BY <2>1, AnswersAre, SilentAnswer, Zenon DEF InFlight
<1>3. QED
    BY <1>1, <1>2, Zenon

\* A request that is not at these places has not swapped tokens.
LEMMA Unswapped ==
    ASSUME SessionsInv, NEW r \in Requests, req[r].at \notin {"tell", "check", "actor", "done"} PROVE ~req[r].swapped
BY RequestNow, Zenon DEF Good, Holds

-----------------------------------------------------------------------------
(* Signing in.                                                               *)

LEMMA ReadAccountStep == ASSUME SessionsInv, NEW r \in Requests, ReadAccount(r) PROVE SessionsInv'
<1>1. PICK x, y, b, h : /\ x = req[r] /\ b = active[x.of] /\ h = password[x.of]
                        /\ y = [x EXCEPT !.at = "lock", !.up = b, !.hash = h]
    BY Zenon
<1>2. x \in Request /\ Good(x) /\ x.at = "account" /\ ~x.swapped
    BY <1>1, RequestNow, Unswapped, Zenon DEF ReadAccount, At
<1>3. x.of \in People /\ x.by = Nobody /\ Active \subseteq x.seen
    BY <1>2, Zenon DEF Good, Names, Unanswered, InFlight
<1>4. b \in BOOLEAN /\ h \in Passwords /\ (b => x.of \in Active) /\ "lock" \in Places
    BY <1>1, <1>3, Zenon DEF SessionsInv, StoreType, Active, Places
<1>5. /\ y \in Request /\ y.at = "lock" /\ y.op = x.op /\ y.of = x.of /\ y.by = x.by /\ y.sess = x.sess /\ y.up = b
      /\ y.swapped = x.swapped /\ y.seen = x.seen /\ y.answer = x.answer
    BY <1>1, <1>2, <1>4, Zenon DEF Request
<1>6. req' = [req EXCEPT ![r] = y]
    BY <1>1, RequestNow, Zenon DEF ReadAccount
<1>7. Steady /\ untold' = untold
    BY Zenon DEF ReadAccount, Steady, accountVars
<1>8. active' \in [People -> BOOLEAN] /\ password' \in [People -> Passwords] /\ Active' \subseteq Active /\ Grown
    BY <1>7, SteadyGrown, Zenon
<1>9. InFlight(x) /\ (y.up => x.of \in x.seen)
    BY <1>2, <1>3, <1>4, <1>5, Zenon DEF InFlight
<1>10. Good(y)'
    BY <1>2, <1>3, <1>5, <1>8, <1>9, UnswappedGood, Zenon
<1>11. QED
    BY <1>1, <1>2, <1>5, <1>6, <1>7, <1>8, <1>10, MoveStep, Zenon

LEMMA CheckLockStep == ASSUME SessionsInv, NEW r \in Requests, CheckLock(r) PROVE SessionsInv'
<1>1. PICK ok : GoOrRefuse(r, ok, "compare")
    BY Zenon DEF CheckLock
<1>2. req[r].at = "lock" /\ Good(req[r]) /\ ~req[r].swapped
    BY RequestNow, Unswapped, Zenon DEF CheckLock, At
<1>3. InFlight(req[r]) /\ req[r].of \in People /\ req[r].by = Nobody /\ (req[r].up => req[r].of \in req[r].seen)
    BY <1>2, Zenon DEF Good, Names, Seen, InFlight
<1>4. Steady /\ untold' = untold
    BY Zenon DEF CheckLock, Steady, accountVars
<1>5. QED
    BY <1>1, <1>2, <1>3, <1>4, GoOrRefuseStep, Zenon

\* Opening a session.
LEMMA OpenedGrown ==
    ASSUME SessionsInv, NEW p \in People, NEW a \in Actors, NEW left \in Nat, NEW refresh \in BOOLEAN, Open(p, a, left, refresh)
    PROVE  Grown
<1>1. session \in Seq(Session) /\ Len(session) \in Nat /\ \A s \in 1..Len(session) : session[s].gen \in Nat
    BY SessionFacts, Zenon DEF SessionsInv, StoreType, Session
<1>2. PICK n : n = NewSession(p, a, left, refresh)
    BY Zenon
<1>3. 0 \in Nat /\ FALSE \in BOOLEAN
    BY Zenon
<1>4. n \in Session
    BY <1>2, <1>3, Zenon DEF NewSession, Session
<1>5. session' = Append(session, n)
    BY <1>2, Zenon DEF Open
<1>6. session' \in Seq(Session) /\ Len(session') = Len(session) + 1 /\ \A s \in 1..Len(session) : session'[s] = session[s]
    BY <1>1, <1>4, <1>5
<1>7. QED
    BY <1>1, <1>6 DEF Grown

\* Accounts are as they were while a session is opened.
LEMMA SameAccounts ==
    ASSUME SessionsInv, active' = active, password' = password
    PROVE  active' \in [People -> BOOLEAN] /\ password' \in [People -> Passwords] /\ Active' \subseteq Active
BY Zenon DEF SessionsInv, StoreType, Active

\* A request moves, without a swap, while a session may be opened.
LEMMA OpenStep ==
    ASSUME SessionsInv, NEW r \in Requests, NEW at, at \in {"record", "end"}, Go(r, at), Grown,
           active' = active, password' = password, untold' = untold,
           req[r].at \in {"compare", "open"}, req[r].of \in req[r].seen, req[r].by \in req[r].seen \cup {Nobody},
           at = "end" => req[r].op = "return" /\ req[r].sess \in 1..Len(session)
    PROVE  SessionsInv'
<1>1. PICK x, y : x = req[r] /\ y = [x EXCEPT !.at = at]
    BY Zenon
<1>2. x \in Request /\ Good(x) /\ ~x.swapped /\ InFlight(x) /\ at \in Places
    BY <1>1, RequestNow, Unswapped, Zenon DEF InFlight, Places
<1>3. /\ y \in Request /\ y.at = at /\ y.op = x.op /\ y.of = x.of /\ y.by = x.by /\ y.sess = x.sess /\ y.up = x.up
      /\ y.swapped = x.swapped /\ y.seen = x.seen /\ y.answer = x.answer
    BY <1>1, <1>2, Zenon DEF Request
<1>4. req' = [req EXCEPT ![r] = y]
    BY <1>1, RequestNow, Zenon DEF Go
<1>5. active' \in [People -> BOOLEAN] /\ password' \in [People -> Passwords] /\ Active' \subseteq Active
    BY SameAccounts, Zenon
<1>6. Good(y)'
    BY <1>1, <1>2, <1>3, <1>5, UnswappedGood, ZenonT(30)
<1>7. QED
    BY <1>1, <1>2, <1>3, <1>4, <1>5, <1>6, MoveStep, Zenon

LEMMA CompareStep == ASSUME SessionsInv, NEW r \in Requests, Compare(r) PROVE SessionsInv'
<1>1. req[r].at = "compare" /\ Good(req[r])
    BY RequestNow, Zenon DEF Compare, At
<1>2. InFlight(req[r]) /\ req[r].of \in People /\ req[r].by = Nobody /\ (req[r].up => req[r].of \in req[r].seen)
    BY <1>1, Zenon DEF Good, Names, Seen, InFlight
<1>3. active' = active /\ password' = password /\ untold' = untold
    BY Zenon DEF Compare, accountVars
<1>4. CASE Answer(r, "refused") /\ UNCHANGED session
    <2>1. Steady
        BY <1>3, <1>4, Zenon DEF Steady
    <2>2. QED
        BY <1>1, <1>3, <1>4, <2>1, AnswersAre, SilentAnswer, Zenon
<1>5. CASE req[r].up /\ Open(req[r].of, Nobody, TTL, TRUE) /\ Go(r, "record")
    <2>1. TTL \in Nat /\ TRUE \in BOOLEAN /\ Nobody \in Actors
        BY SignInAssumption, Zenon DEF Actors
    <2>2. Grown
        BY <1>2, <1>5, <2>1, OpenedGrown, Zenon
    <2>3. QED
        BY <1>1, <1>2, <1>3, <1>5, <2>2, OpenStep, Zenon
<1>6. QED
    BY <1>4, <1>5, Zenon DEF Compare

LEMMA RecordSignInStep == ASSUME SessionsInv, NEW r \in Requests, RecordSignIn(r) PROVE SessionsInv'
<1>1. req[r].at = "record" /\ Good(req[r]) /\ Answer(r, "granted")
    BY RequestNow, Zenon DEF RecordSignIn
<1>2. req[r].of \in req[r].seen /\ req[r].by \in req[r].seen \cup {Nobody}
    BY <1>1, Zenon DEF Good, Seen
<1>3. Steady /\ untold' = untold
    BY Zenon DEF RecordSignIn, Steady, accountVars
<1>4. QED
    BY <1>1, <1>2, <1>3, AnswersAre, SilentAnswer, Zenon

LEMMA ReadTargetStep == ASSUME SessionsInv, NEW r \in Requests, ReadTarget(r) PROVE SessionsInv'
<1>1. PICK ok : GoOrRefuse(r, ok, "open") /\ (ok => active[req[r].of])
    BY Zenon DEF ReadTarget
<1>2. req[r].at = "target" /\ Good(req[r]) /\ ~req[r].swapped
    BY RequestNow, Unswapped, Zenon DEF ReadTarget, At
<1>3. InFlight(req[r]) /\ req[r].of \in People /\ req[r].by \in req[r].seen /\ Active \subseteq req[r].seen
    BY <1>2, Zenon DEF Good, Names, Seen, InFlight, Unanswered
<1>4. ok => req[r].of \in req[r].seen
    BY <1>1, <1>3, Zenon DEF Active
<1>5. Steady /\ untold' = untold
    BY Zenon DEF ReadTarget, Steady, accountVars
<1>6. GoOrRefuse(r, ok, "open")
    BY <1>1, Zenon
<1>7. QED
    BY <1>2, <1>3, <1>4, <1>5, <1>6, GoOrRefuseStep, Zenon

LEMMA OpenSessionStep == ASSUME SessionsInv, NEW r \in Requests, OpenSession(r) PROVE SessionsInv'
<1>1. PICK at, left, refresh : /\ at = (IF req[r].op = "return" THEN "end" ELSE "record")
                               /\ left = (IF req[r].op = "embed" THEN EmbedTTL ELSE TTL) /\ refresh = (req[r].op # "embed")
    BY Zenon
<1>2. Open(req[r].of, req[r].by, left, refresh) /\ Go(r, at)
    BY <1>1, Zenon DEF OpenSession
<1>3. req[r].at = "open" /\ Good(req[r])
    BY RequestNow, Zenon DEF OpenSession
<1>4. /\ req[r].of \in People /\ req[r].of \in req[r].seen /\ req[r].by \in req[r].seen \cup {Nobody} /\ req[r].by \in Actors
      /\ req[r].op = "return" => req[r].sess \in 1..Len(session)
    BY <1>3, SessionFacts, ZenonT(30) DEF Good, Names, Seen, Holds, Request, SessionsInv, StoreType
<1>5. left \in Nat
    BY <1>1, SignInAssumption, Zenon
<1>6. refresh \in BOOLEAN
    BY <1>1, ZenonT(30)
<1>7. Grown
    BY <1>2, <1>4, <1>5, <1>6, OpenedGrown, Zenon
<1>8. at \in {"record", "end"} /\ (at = "end" => req[r].op = "return")
    BY <1>1, Zenon
<1>9. active' = active /\ password' = password /\ untold' = untold
    BY Zenon DEF OpenSession, accountVars
<1>10. QED
    BY <1>2, <1>3, <1>4, <1>7, <1>8, <1>9, OpenStep, Zenon

-----------------------------------------------------------------------------
(* Tokens.                                                                   *)

LEMMA RotateStep == ASSUME SessionsInv, NEW r \in Requests, Rotate(r) PROVE SessionsInv'
<1>1. PICK x, s : x = req[r] /\ s = req[r].sess
    BY Zenon
<1>2. x \in Request /\ Good(x) /\ x.at = "rotate" /\ ~x.swapped /\ x.op = "refresh"
    BY <1>1, RequestNow, Unswapped, Zenon DEF Rotate, At
<1>3. session \in Seq(Session) /\ s \in 1..Len(session) /\ s = x.sess /\ DOMAIN session = 1..Len(session) /\ Len(session) \in Nat
    BY <1>1, <1>2, SessionFacts, Zenon DEF Good, Holds, SessionsInv, StoreType
<1>4. active' = active /\ password' = password
    BY Zenon DEF Rotate, accountVars
<1>5. CASE ~StillMine(s, x.gen)
    <2>1. Answer(r, "refused") /\ session' = session /\ untold' = untold
        BY <1>1, <1>5, Zenon DEF Rotate
    <2>2. Steady
        BY <1>4, <2>1, Zenon DEF Steady
    <2>3. QED
        BY <1>1, <1>2, <2>1, <2>2, AnswersAre, SilentAnswer, Zenon
<1>6. CASE StillMine(s, x.gen)
    <2>1. PICK was, is : was = session[s] /\ is = [was EXCEPT !.gen = was.gen + 1, !.left = TTL]
        BY Zenon
    <2>2. was \in Session /\ was.gen \in Nat /\ was.gen + 1 \in Nat /\ TTL \in Nat /\ was.of \in People /\ was.actor \in Actors
        <3>1. was \in Session
            BY <1>3, <2>1
        <3>2. was.gen \in Nat /\ was.of \in People /\ was.actor \in Actors
            BY <3>1, Zenon DEF Session
        <3>3. was.gen + 1 \in Nat
            BY <3>2
        <3>4. QED
            BY <3>1, <3>2, <3>3, SignInAssumption, Zenon
    <2>3. is \in Session /\ is.of = was.of /\ is.gen = was.gen + 1
        BY <2>1, <2>2, Zenon DEF Session
    <2>4. session' = [session EXCEPT ![s] = is]
        BY <1>1, <1>3, <1>6, <2>1, <2>2, ZenonT(30) DEF Rotate, Session
    <2>5. session' \in Seq(Session) /\ Len(session') = Len(session) /\ session'[s] = is
          /\ \A i \in 1..Len(session) : i # s => session'[i] = session[i]
        BY <1>3, <2>3, <2>4
    <2>6. Grown
        <3>1. \A i \in 1..Len(session) : session[i] \in Session
            BY <1>3
        <3>2. ASSUME NEW i \in 1..Len(session) PROVE session'[i].of = session[i].of /\ session[i].gen <= session'[i].gen
            <4>1. session[i].gen \in Nat
                BY <3>1, Zenon DEF Session
            <4>2. CASE i = s
                <5>1. session[i] = was /\ session'[i] = is
                    BY <2>1, <2>5, <4>2, Zenon
                <5>2. QED
                    BY <2>2, <2>3, <5>1
            <4>3. CASE i # s
                BY <2>5, <4>1, <4>3
            <4>4. QED
                BY <4>2, <4>3, Zenon
        <3>3. QED
            BY <1>3, <2>5, <3>2 DEF Grown
    <2>7. PICK y : y = [x EXCEPT !.at = "tell", !.swapped = TRUE, !.of = was.of, !.by = was.actor, !.tell = {was.of}]
        BY Zenon
    <2>8. req' = [req EXCEPT ![r] = y]
        BY <1>1, <1>6, <2>1, <2>7, RequestNow, Zenon DEF Rotate
    <2>9. y \in Request /\ y.at = "tell" /\ y.swapped /\ y.of = was.of /\ y.tell = {was.of} /\ y.sess = s /\ y.gen = x.gen
          /\ y.op = "refresh" /\ y.seen = x.seen /\ y.answer = x.answer
        <3>1. "tell" \in Places /\ {was.of} \in SUBSET People /\ was.of \in Actors
            BY <2>2, Zenon DEF Places, Actors
        <3>2. QED
            BY <1>2, <1>3, <2>2, <2>7, <3>1, Zenon DEF Request
    <2>10. was.gen = x.gen
        BY <1>6, <2>1, Zenon DEF StillMine, Current
    <2>11. x.answer = "none" /\ Active \subseteq x.seen
        BY <1>2, Zenon DEF Good, Unanswered, InFlight
    <2>12. active' \in [People -> BOOLEAN] /\ password' \in [People -> Passwords] /\ Active' \subseteq Active
        BY <1>4, SameAccounts, Zenon
    <2>13. Good(y)'
        <3>1. s \in DOMAIN session' /\ x.gen < session'[s].gen
            BY <1>3, <2>2, <2>3, <2>5, <2>10
        <3>2. Fresh(y)' /\ Unanswered(y)' /\ Names(y)' /\ Seen(y)' /\ Holds(y)'
            BY <2>2, <2>9, <2>11, <2>12, <3>1, Zenon DEF Fresh, Unanswered, InFlight, Names, Seen, Holds
        <3>3. QED
            BY <2>9, <3>2, Zenon DEF Good
    <2>14. Apart(r, y)
        <3> SUFFICES ASSUME NEW q \in Requests \ {r}, req[q].swapped, req[q].sess = s PROVE req[q].gen # x.gen
            BY <2>9, Zenon DEF Apart
        <3>1. req[q].gen < was.gen /\ req[q].gen \in Nat
            BY <2>1, RequestNow, Zenon DEF Good, Holds, Request
        <3>2. QED
            BY <2>2, <2>10, <3>1
    <2>15. Passed(r, y)
        <3>1. ASSUME NEW p PROVE ~Tells(req[r], p)
            BY <1>1, <1>2, <2>11, Zenon DEF Tells
        <3>2. untold' = untold \cup {<<s, session[s].gen>>}
            BY <1>1, <1>6, Zenon DEF Rotate
        <3>3. \A t \in untold' : t \in untold \/ t[1] = s
            BY <3>2
        <3>4. s \in 1..Len(session') /\ Tells(y, session'[s].of)
            BY <1>3, <2>3, <2>5, <2>9, Zenon DEF Tells
        <3>5. QED
            BY <3>1, <3>3, <3>4, Zenon DEF Passed
    <2>16. QED
        BY <2>6, <2>8, <2>12, <2>13, <2>14, <2>15, RequestStep, Zenon
<1>7. QED
    BY <1>5, <1>6, Zenon

LEMMA CheckAccountStep == ASSUME SessionsInv, NEW r \in Requests, CheckAccount(r) PROVE SessionsInv'
<1>1. PICK x : x = req[r]
    BY Zenon
<1>2. x \in Request /\ Good(x) /\ x.at = "check"
    BY <1>1, RequestNow, Zenon DEF CheckAccount
<1>3. x.of \in People /\ Active \subseteq x.seen /\ x.answer = "none"
    BY <1>2, Zenon DEF Good, Names, Unanswered, InFlight
<1>4. MayUse(x.of) => x.of \in x.seen
    BY <1>3, Zenon DEF MayUse, Active
<1>5. Steady /\ untold' = untold
    BY Zenon DEF CheckAccount, Steady, accountVars
<1>6. CASE Answer(r, "refused")
    BY <1>1, <1>2, <1>5, <1>6, AnswersAre, SilentAnswer, Zenon
<1>7. CASE MayUse(x.of) /\ x.by = Nobody /\ Answer(r, "granted")
    BY <1>1, <1>2, <1>4, <1>5, <1>7, AnswersAre, SilentAnswer, Zenon
<1>8. CASE MayUse(x.of) /\ Go(r, "actor")
    <2>1. PICK y : y = [x EXCEPT !.at = "actor"]
        BY Zenon
    <2>2. "actor" \in Places
        BY Zenon DEF Places
    <2>3. /\ y \in Request /\ y.at = "actor" /\ y.op = x.op /\ y.of = x.of /\ y.by = x.by /\ y.sess = x.sess /\ y.gen = x.gen
          /\ y.swapped = x.swapped /\ y.seen = x.seen /\ y.answer = x.answer
        BY <1>2, <2>1, <2>2, Zenon DEF Request
    <2>4. req' = [req EXCEPT ![r] = y]
        BY <1>1, <1>8, <2>1, RequestNow, Zenon DEF Go
    <2>5. active' \in [People -> BOOLEAN] /\ password' \in [People -> Passwords] /\ Active' \subseteq Active /\ Grown
        BY <1>5, SteadyGrown, Zenon
    <2>6. Fresh(y)' /\ Unanswered(y)' /\ Names(y)'
        BY <1>3, <2>3, <2>5, Zenon DEF Fresh, Unanswered, InFlight, Names
    <2>7. Seen(y)'
        BY <1>2, <1>3, <1>4, <1>8, <2>3, Zenon DEF Good, Seen
    <2>8. Holds(y)'
        BY <1>2, <1>5, <2>3, Zenon DEF Good, Holds, Steady
    <2>9. Good(y)'
        BY <2>3, <2>6, <2>7, <2>8, Zenon DEF Good
    <2>10. QED
        BY <1>1, <1>2, <1>5, <2>3, <2>4, <2>5, <2>9, MoveStep, Zenon
<1>9. QED
    BY <1>1, <1>6, <1>7, <1>8, Zenon DEF CheckAccount, GoOrRefuse

LEMMA CheckActorStep == ASSUME SessionsInv, NEW r \in Requests, CheckActor(r) PROVE SessionsInv'
<1>1. req[r] \in Request /\ Good(req[r]) /\ req[r].at = "actor"
    BY RequestNow, Zenon DEF CheckActor
<1>2. req[r].of \in req[r].seen /\ Active \subseteq req[r].seen /\ req[r].by \in Actors
    BY <1>1, Zenon DEF Good, Seen, Unanswered, InFlight, Request
<1>3. Steady /\ untold' = untold
    BY Zenon DEF CheckActor, Steady, accountVars
<1>4. CASE Answer(r, "refused")
    BY <1>1, <1>3, <1>4, AnswersAre, SilentAnswer, Zenon
<1>5. CASE MayUse(req[r].by) /\ Answer(r, "granted")
    <2>1. req[r].by \in req[r].seen \cup {Nobody}
        BY <1>2, <1>5, Zenon DEF MayUse, Active, Actors
    <2>2. QED
        BY <1>1, <1>2, <1>3, <1>5, <2>1, AnswersAre, SilentAnswer, Zenon
<1>6. QED
    BY <1>4, <1>5, Zenon DEF CheckActor

LEMMA UnlockTxStep == ASSUME SessionsInv, NEW r \in Requests, UnlockTx(r) PROVE SessionsInv'
<1>1. req[r].at = "tx" /\ Answer(r, "none")
    BY Zenon DEF UnlockTx, At
<1>2. Steady /\ untold' = untold
    BY Zenon DEF UnlockTx, Steady, accountVars
<1>3. QED
    BY <1>1, <1>2, AnswersAre, SilentAnswer, Zenon

LEMMA FailStep == ASSUME SessionsInv, NEW r \in Requests, Fail(r) PROVE SessionsInv'
<1>1. Answer(r, "failed") /\ Steady /\ untold' = untold
    BY Zenon DEF Fail, Steady, accountVars
<1>2. QED
    BY <1>1, AnswersAre, AnswerStep, Zenon

-----------------------------------------------------------------------------
(* Sessions that end.                                                        *)

LEMMA LiveSessions ==
    ASSUME SessionsInv, NEW p, NEW keep
    PROVE  Own(p, keep) \cup OpenedBy(p) \subseteq 1..Len(session)
BY SessionFacts, Zenon DEF SessionsInv, StoreType, Own, OpenedBy

LEMMA OwnersArePeople ==
    ASSUME SessionsInv, NEW S, S \subseteq 1..Len(session) PROVE Owners(S) \subseteq People
<1>1. \A s \in S : session[s] \in Session
    BY SessionFacts, Zenon DEF SessionsInv, StoreType
<1>2. QED
    BY <1>1, Zenon DEF Owners, Session

\* What is known of a request that is about to end sessions.
LEMMA BeforeEnd ==
    ASSUME SessionsInv, NEW r \in Requests, req[r].at \in {"end", "tx", "own", "opened"}
    PROVE  /\ req[r] \in Request /\ req[r].answer = "none" /\ ~req[r].swapped /\ Active \subseteq req[r].seen
           /\ req[r].at = "end" => req[r].op \in {"return", "logout"} /\ req[r].sess \in 1..Len(session)
           /\ req[r].at # "end" => req[r].of \in People
           /\ req[r].op = "return" => req[r].of \in req[r].seen /\ req[r].by = Nobody
<1>1. req[r] \in Request /\ Good(req[r]) /\ ~req[r].swapped
    BY RequestNow, Unswapped, Zenon
<1>2. QED
    BY <1>1, SessionFacts, Zenon DEF Good, Unanswered, InFlight, Names, Seen, Holds, SessionsInv, StoreType

LEMMA EndOneStep == ASSUME SessionsInv, NEW r \in Requests, EndOne(r) PROVE SessionsInv'
<1>1. PICK x, S : x = req[r] /\ S = (IF Live(req[r].sess) THEN {req[r].sess} ELSE {})
    BY Zenon
<1>2. req[r].at = "end"
    BY Zenon DEF EndOne
<1>3. /\ x \in Request /\ x.answer = "none" /\ ~x.swapped /\ Active \subseteq x.seen /\ x.op \in {"return", "logout"}
      /\ x.sess \in 1..Len(session) /\ x.at = "end" /\ (x.op = "return" => x.of \in x.seen /\ x.by = Nobody)
    BY <1>1, <1>2, BeforeEnd, Zenon
<1>4. S \subseteq {x.sess} /\ S \subseteq 1..Len(session) /\ EndSessions(S)
    BY <1>1, <1>3, Zenon DEF EndOne
<1>5. PICK o : o = session[x.sess].of
    BY Zenon
<1>6. o \in People
    BY <1>3, <1>5, SessionFacts, Zenon DEF SessionsInv, StoreType, Session
<1>7. PICK y : y = [x EXCEPT !.at = "tell", !.tell = {o}]
    BY Zenon
<1>8. "tell" \in Places /\ {o} \in SUBSET People
    BY <1>6, Zenon DEF Places
<1>9. /\ y \in Request /\ y.at = "tell" /\ y.tell = {o} /\ y.op = x.op /\ y.of = x.of /\ y.by = x.by /\ y.sess = x.sess
      /\ y.swapped = x.swapped /\ y.seen = x.seen /\ y.answer = x.answer
    BY <1>3, <1>7, <1>8, Zenon DEF Request
<1>10. req' = [req EXCEPT ![r] = y]
    BY <1>1, <1>5, <1>7, RequestNow, ZenonT(30) DEF EndOne
<1>11. Owners(S) \subseteq y.tell /\ \A p : ~Tells(req[r], p)
    BY <1>1, <1>3, <1>4, <1>5, <1>9 DEF Owners, Tells
<1>12. active' \in [People -> BOOLEAN] /\ password' \in [People -> Passwords] /\ Active' \subseteq Active
    BY SameAccounts, Zenon DEF EndOne, accountVars
<1>13. QED
    BY <1>3, <1>4, <1>9, <1>10, <1>11, <1>12, EndStep, Zenon

\* A request that ends sessions of several people, at a place of another's.
LEMMA EndManyStep ==
    ASSUME SessionsInv, NEW r \in Requests, req[r].at \in {"tx", "own", "opened"}, req[r].op \notin {"return", "refresh"},
           NEW S, S \subseteq 1..Len(session), EndSessions(S), NEW at, at \in {"opened", "tell"}, NEW tell, tell \subseteq People,
           req' = [req EXCEPT ![r].at = at, ![r].tell = tell], Owners(S) \subseteq tell, \A p : Tells(req[r], p) => p \in tell,
           active' \in [People -> BOOLEAN], password' \in [People -> Passwords], Active' \subseteq Active
    PROVE  SessionsInv'
<1>1. PICK x, y : x = req[r] /\ y = [x EXCEPT !.at = at, !.tell = tell]
    BY Zenon
<1>2. x \in Request /\ x.answer = "none" /\ ~x.swapped /\ Active \subseteq x.seen /\ x.of \in People
    BY <1>1, BeforeEnd, Zenon
<1>3. at \in Places /\ tell \in SUBSET People
    BY Zenon DEF Places
<1>4. /\ y \in Request /\ y.at = at /\ y.tell = tell /\ y.op = x.op /\ y.of = x.of
      /\ y.swapped = x.swapped /\ y.seen = x.seen /\ y.answer = x.answer
    BY <1>1, <1>2, <1>3, Zenon DEF Request
<1>5. req' = [req EXCEPT ![r] = y]
    BY <1>1, RequestNow, Zenon
<1>6. y.op # "return" /\ y.op # "refresh"
    BY <1>1, <1>4, Zenon
<1>7. y.at \in {"log", "opened", "tell"} /\ y.answer = "none" /\ ~y.swapped /\ Active \subseteq y.seen /\ y.of \in People
    BY <1>2, <1>4, Zenon
<1>8. Owners(S) \subseteq y.tell /\ \A p : Tells(req[r], p) => p \in y.tell
    BY <1>4, Zenon
<1>9. QED
    BY <1>4, <1>5, <1>6, <1>7, <1>8, EndStep, Zenon

LEMMA EndAllStep ==
    ASSUME SessionsInv, NEW r \in Requests, NEW p \in People, NEW keep, EndAll(r, p, keep), req[r].at = "tx",
           req[r].op \notin {"return", "refresh"},
           active' \in [People -> BOOLEAN], password' \in [People -> Passwords], Active' \subseteq Active
    PROVE  SessionsInv'
<1>1. PICK S, tell : S = Own(p, keep) \cup OpenedBy(p) /\ tell = {p} \cup Owners(S)
    BY Zenon
<1>2. S \subseteq 1..Len(session)
    BY <1>1, LiveSessions, Zenon
<1>3. tell \subseteq People /\ Owners(S) \subseteq tell
    BY <1>1, <1>2, OwnersArePeople, Zenon
<1>4. EndSessions(S) /\ req' = [req EXCEPT ![r].at = "tell", ![r].tell = tell]
    BY <1>1, Zenon DEF EndAll
<1>5. \A q : ~Tells(req[r], q)
    BY BeforeEnd, Zenon DEF Tells
<1>6. QED
    BY <1>2, <1>3, <1>4, <1>5, EndManyStep, Zenon

LEMMA PasswordTxStep == ASSUME SessionsInv, NEW r \in Requests, PasswordTx(r) PROVE SessionsInv'
<1>1. PICK x, keep : x = req[r] /\ keep = Kept(req[r].of, req[r].sess, req[r].gen)
    BY Zenon
<1>2. x \in Request /\ Good(x) /\ x.at = "tx" /\ x.op = "password"
    BY <1>1, RequestNow, Zenon DEF PasswordTx, At
<1>3. x.of \in People
    BY <1>2, Zenon DEF Good, Names
<1>4. x.password \in Passwords
    BY <1>2, Zenon DEF Good, Names
<1>5. password' \in [People -> Passwords] /\ active' \in [People -> BOOLEAN] /\ Active' \subseteq Active
    BY <1>1, <1>3, <1>4, Zenon DEF PasswordTx, SessionsInv, StoreType, Active
<1>6. EndAll(r, x.of, keep)
    BY <1>1, Zenon DEF PasswordTx
<1>7. QED
    BY <1>1, <1>2, <1>3, <1>5, <1>6, EndAllStep, Zenon

LEMMA DeactivateTxStep == ASSUME SessionsInv, NEW r \in Requests, DeactivateTx(r) PROVE SessionsInv'
<1>1. PICK x : x = req[r]
    BY Zenon
<1>2. x \in Request /\ Good(x) /\ x.at = "tx" /\ x.op = "deactivate"
    BY <1>1, RequestNow, Zenon DEF DeactivateTx, At
<1>3. x.of \in People
    BY <1>2, Zenon DEF Good, Names
<1>4. CASE active' = [active EXCEPT ![x.of] = FALSE] /\ EndAll(r, x.of, 0)
    <2>1. password' \in [People -> Passwords] /\ active' \in [People -> BOOLEAN] /\ Active' \subseteq Active
        BY <1>4, Zenon DEF DeactivateTx, SessionsInv, StoreType, Active
    <2>2. QED
        BY <1>1, <1>2, <1>3, <1>4, <2>1, EndAllStep, Zenon
<1>5. CASE Answer(r, "refused") /\ UNCHANGED <<active, session, untold>>
    <2>1. Steady /\ untold' = untold
        BY <1>5, Zenon DEF DeactivateTx, Steady
    <2>2. QED
        BY <1>1, <1>2, <1>5, <2>1, AnswersAre, SilentAnswer, Zenon
<1>6. QED
    BY <1>1, <1>4, <1>5, Zenon DEF DeactivateTx

LEMMA EndOwnStep == ASSUME SessionsInv, NEW r \in Requests, EndOwn(r) PROVE SessionsInv'
<1>1. PICK S, p, tell : p = req[r].of /\ S = Own(p, req[r].sess) /\ tell = {p}
    BY Zenon
<1>2. req[r].at = "own" /\ req[r].op = "revoke_all"
    BY Zenon DEF EndOwn, At
<1>3. p \in People /\ req[r].answer = "none"
    BY <1>1, <1>2, BeforeEnd, Zenon
<1>4. S \subseteq 1..Len(session)
    BY <1>1, LiveSessions, Zenon
<1>5. tell \subseteq People /\ Owners(S) \subseteq tell
    BY <1>1, <1>3, Zenon DEF Owners, Own
<1>6. \A q : Tells(req[r], q) => q \in tell
    BY <1>2, <1>3, Zenon DEF Tells
<1>7. EndSessions(S) /\ req' = [req EXCEPT ![r].at = "opened", ![r].tell = tell]
    BY <1>1, Zenon DEF EndOwn
<1>8. active' \in [People -> BOOLEAN] /\ password' \in [People -> Passwords] /\ Active' \subseteq Active
    BY SameAccounts, Zenon DEF EndOwn, accountVars
<1>9. QED
    BY <1>2, <1>4, <1>5, <1>6, <1>7, <1>8, EndManyStep, Zenon

LEMMA EndOpenedStep == ASSUME SessionsInv, NEW r \in Requests, EndOpened(r) PROVE SessionsInv'
<1>1. PICK S, tell : S = OpenedBy(req[r].of) /\ tell = req[r].tell \cup Owners(S)
    BY Zenon
<1>2. req[r].at = "opened" /\ req[r].op = "revoke_all"
    BY Zenon DEF EndOpened, At
<1>3. req[r] \in Request /\ req[r].answer = "none"
    BY <1>2, BeforeEnd, Zenon
<1>4. S \subseteq 1..Len(session)
    BY <1>1, LiveSessions, Zenon
<1>5. tell \subseteq People /\ Owners(S) \subseteq tell
    BY <1>1, <1>3, <1>4, OwnersArePeople, Zenon DEF Request
<1>6. \A q : Tells(req[r], q) => q \in tell
    BY <1>1, <1>3, Zenon DEF Tells
<1>7. EndSessions(S) /\ req' = [req EXCEPT ![r].at = "tell", ![r].tell = tell]
    BY <1>1, RequestNow, Zenon DEF EndOpened, Request
<1>8. active' \in [People -> BOOLEAN] /\ password' \in [People -> Passwords] /\ Active' \subseteq Active
    BY SameAccounts, Zenon DEF EndOpened, accountVars
<1>9. QED
    BY <1>2, <1>4, <1>5, <1>6, <1>7, <1>8, EndManyStep, Zenon

LEMMA LogStep == ASSUME SessionsInv, NEW r \in Requests, Log(r) PROVE SessionsInv'
<1>1. PICK x, y : x = req[r] /\ y = [x EXCEPT !.at = "tell"]
    BY Zenon
<1>2. x \in Request /\ Good(x) /\ x.at = "log" /\ x.op = "revoke" /\ ~x.swapped
    BY <1>1, RequestNow, Unswapped, Zenon DEF Log, At
<1>3. "tell" \in Places
    BY Zenon DEF Places
<1>4. /\ y \in Request /\ y.at = "tell" /\ y.tell = x.tell /\ y.op = "revoke" /\ ~y.swapped /\ y.seen = x.seen /\ y.answer = x.answer
    BY <1>1, <1>2, <1>3, Zenon DEF Request
<1>5. req' = [req EXCEPT ![r] = y]
    BY <1>1, RequestNow, Zenon DEF Log, Go
<1>6. Steady /\ untold' = untold
    BY Zenon DEF Log, Steady, accountVars
<1>7. active' \in [People -> BOOLEAN] /\ password' \in [People -> Passwords] /\ Active' \subseteq Active /\ Grown
    BY <1>6, SteadyGrown, Zenon
<1>8. x.answer = "none" /\ Active \subseteq x.seen
    BY <1>2, Zenon DEF Good, Unanswered, InFlight
<1>9. Good(y)'
    BY <1>4, <1>7, <1>8, Zenon DEF Good, Fresh, Unanswered, InFlight, Names, Seen, Holds
<1>10. Apart(r, y)
    BY <1>4, Zenon DEF Apart
<1>11. \A t \in untold : t[1] \in 1..Len(session') /\ session'[t[1]].of = session[t[1]].of
    BY <1>6, SessionFacts, Zenon DEF SessionsInv, StoreType, Promised, Steady
<1>12. \A p : Tells(req[r], p) => Tells(y, p)
    BY <1>1, <1>2, <1>4, <1>8, Zenon DEF Tells
<1>13. Passed(r, y)
    BY <1>6, <1>11, <1>12, Zenon DEF Passed
<1>14. QED
    BY <1>5, <1>7, <1>9, <1>10, <1>13, RequestStep, Zenon

LEMMA RevokeSessionStep ==
    ASSUME SessionsInv, NEW r \in Requests, NEW s \in DOMAIN session, NEW keep, RevokeSession(r, s, keep) PROVE SessionsInv'
<1>1. s \in 1..Len(session) /\ session[s].of \in People
    BY SessionFacts, Zenon DEF SessionsInv, StoreType, Session
<1>2. s \in Nat /\ active' = active /\ password' = password
    BY <1>1 DEF RevokeSession, accountVars
<1>3. PICK c, S, o : /\ o = session[s].of /\ c = [Waiting EXCEPT !.sess = s, !.tell = {o}]
                     /\ S = (IF Live(s) THEN {s} ELSE {}) /\ BeginOrRefuse(r, "revoke", c, Live(s), "log") /\ EndSessions(S)
    BY Zenon DEF RevokeSession
<1>4. CASE ~Live(s)
    <2>1. EndSessions({})
        BY <1>3, <1>4, Zenon
    <2>2. untold' = untold
        BY <2>1, Zenon DEF EndSessions
    <2>3. session' = session
        <3>1. session' = [q \in DOMAIN session |-> session[q]]
            BY <2>1, Zenon DEF EndSessions
        <3>2. session \in [DOMAIN session -> Session]
            BY SessionFacts DEF SessionsInv, StoreType
        <3>3. QED
            BY <3>1, <3>2, Zenon
    <2>4. Steady
        BY <1>2, <2>3, Zenon DEF Steady
    <2>5. req[r].at = "idle" /\ Answer(r, "refused")
        BY <1>3, <1>4, ZenonT(30) DEF BeginOrRefuse
    <2>6. QED
        BY <2>2, <2>4, <2>5, AnswersAre, SilentAnswer, Zenon
<1>5. CASE Live(s)
    <2>1. req[r].at = "idle" /\ req' = [req EXCEPT ![r] = [[c EXCEPT !.at = "log"] EXCEPT !.op = "revoke", !.seen = Active]]
        BY <1>3, <1>5, Zenon DEF BeginOrRefuse, Begin
    <2>2. PICK y : y = [[c EXCEPT !.at = "log"] EXCEPT !.op = "revoke", !.seen = Active]
        BY Zenon
    <2>3. o \in People /\ {o} \in SUBSET People /\ Active \in SUBSET People /\ "log" \in Places /\ "revoke" \in Ops
        BY <1>1, <1>3, Zenon DEF Active, Places, Ops
    <2>4. c \in Request /\ c.tell = {o} /\ ~c.swapped /\ c.answer = "none"
        BY <1>2, <1>3, <2>3, WaitingFields, Zenon DEF Request
    <2>5. /\ y \in Request /\ y.at = "log" /\ y.op = "revoke" /\ y.seen = Active /\ y.tell = {o} /\ ~y.swapped /\ y.answer = "none"
        BY <2>2, <2>3, <2>4, Zenon DEF Request
    <2>6. S = {s} /\ S \subseteq 1..Len(session) /\ EndSessions(S)
        BY <1>1, <1>3, <1>5, Zenon
    <2>7. Owners(S) \subseteq y.tell
        BY <1>3, <2>5, <2>6, Zenon DEF Owners
    <2>8. \A p : Tells(req[r], p) => p \in y.tell
        BY <2>1, RequestNow, Zenon DEF Tells, Good, Fresh
    <2>9. active' \in [People -> BOOLEAN] /\ password' \in [People -> Passwords] /\ Active' \subseteq Active
        BY <1>2, SameAccounts, Zenon
    <2>10. y.op # "return" /\ y.op # "refresh" /\ y.at \in {"log", "opened", "tell"} /\ y.at # "opened" /\ Active \subseteq y.seen
        BY <2>5, Zenon
    <2>11. req' = [req EXCEPT ![r] = y]
        BY <2>1, <2>2, Zenon
    <2>12. QED
        BY <2>5, <2>6, <2>7, <2>8, <2>9, <2>10, <2>11, EndStep, Zenon
<1>6. QED
    BY <1>4, <1>5, Zenon

LEMMA TellStep == ASSUME SessionsInv, NEW r \in Requests, Tell(r) PROVE SessionsInv'
<1>1. PICK x : x = req[r]
    BY Zenon
<1>2. x \in Request /\ Good(x) /\ x.at = "tell" /\ x.answer = "none" /\ Active \subseteq x.seen
    BY <1>1, RequestNow, Zenon DEF Tell, Good, Unanswered, InFlight
<1>3. Steady
    BY Zenon DEF Tell, Steady, accountVars
<1>4. \A t \in untold' : t \in untold /\ ~Tells(req[r], session[t[1]].of)
    BY <1>1, <1>2, Zenon DEF Tell, Tells
<1>5. CASE x.op = "refresh" /\ Go(r, "check")
    <2>1. PICK y : y = [x EXCEPT !.at = "check"]
        BY Zenon
    <2>2. "check" \in Places
        BY Zenon DEF Places
    <2>3. /\ y \in Request /\ y.at = "check" /\ y.op = x.op /\ y.of = x.of /\ y.by = x.by /\ y.sess = x.sess /\ y.gen = x.gen
          /\ y.swapped = x.swapped /\ y.seen = x.seen /\ y.answer = x.answer
        BY <1>2, <2>1, <2>2, Zenon DEF Request
    <2>4. req' = [req EXCEPT ![r] = y]
        BY <1>1, <1>5, <2>1, RequestNow, Zenon DEF Go
    <2>5. active' \in [People -> BOOLEAN] /\ password' \in [People -> Passwords] /\ Active' \subseteq Active /\ Grown
        BY <1>3, SteadyGrown, Zenon
    <2>6. Fresh(y)' /\ Unanswered(y)' /\ Names(y)' /\ Seen(y)'
        BY <1>2, <1>5, <2>3, <2>5, Zenon DEF Good, Fresh, Unanswered, InFlight, Names, Seen
    <2>7. Holds(y)'
        BY <1>2, <1>3, <1>5, <2>3, Zenon DEF Good, Holds, Steady
    <2>8. Good(y)'
        BY <2>3, <2>6, <2>7, Zenon DEF Good
    <2>9. Apart(r, y)
        BY <1>1, <2>3, SameApart, Zenon
    <2>10. Passed(r, y)
        BY <1>4, Zenon DEF Passed
    <2>11. QED
        BY <2>4, <2>5, <2>8, <2>9, <2>10, RequestStep, Zenon
<1>6. CASE x.op = "return" /\ Answer(r, "granted")
    <2>1. x.of \in x.seen /\ x.by \in x.seen \cup {Nobody}
        BY <1>2, <1>6, Zenon DEF Good, Seen
    <2>2. QED
        BY <1>1, <1>3, <1>4, <1>6, <2>1, AnswersAre, AnswerStep, Zenon
<1>7. CASE Answer(r, "none")
    BY <1>3, <1>4, <1>7, AnswersAre, AnswerStep, Zenon
<1>8. QED
    BY <1>1, <1>5, <1>6, <1>7, Zenon DEF Tell

-----------------------------------------------------------------------------
(* Steps that touch every request or every session.                          *)

\* An activation is seen by every request in flight.
LEMMA ActivateTxStep == ASSUME SessionsInv, NEW r \in Requests, ActivateTx(r) PROVE SessionsInv'
<1>1. PICK p : p = req[r].of
    BY Zenon
<1>2. req[r].at = "tx"
    BY Zenon DEF ActivateTx, At
<1>3. p \in People
    BY <1>1, <1>2, RequestNow, Zenon DEF Good, Names
<1>4. active' = [active EXCEPT ![p] = TRUE] /\ password' = password /\ session' = session /\ untold' = untold
    BY <1>1, Zenon DEF ActivateTx
<1>5. active' \in [People -> BOOLEAN] /\ Active' = Active \cup {p}
    <2>1. active \in [People -> BOOLEAN]
        BY Zenon DEF SessionsInv, StoreType
    <2>2. active' \in [People -> BOOLEAN] /\ active'[p] /\ \A q \in People : q # p => active'[q] = active[q]
        BY <1>3, <1>4, <2>1, Zenon
    <2>3. QED
        BY <1>3, <2>2, Zenon DEF Active
<1>6. Grown /\ session \in Seq(Session)
    <2>1. session \in Seq(Session) /\ \A s \in 1..Len(session) : session[s].gen \in Nat
        BY SessionFacts, Zenon DEF SessionsInv, StoreType, Session
    <2>2. QED
        BY <1>4, <2>1 DEF Grown
<1>7. PICK e : e = Ended(req[r], "none")
    BY Zenon
<1>8. Good(e)' /\ e.answer = "none" /\ Apart(r, e)
    BY <1>6, <1>7, AnswersAre, EndedGood, Zenon
<1>9. req'[r] = e
    BY <1>7, Zenon DEF ActivateTx
<1>10. ASSUME NEW q \in Requests, q # r
       PROVE  \E y : /\ y = req'[q] /\ Good(y)' /\ y.swapped = req[q].swapped /\ y.sess = req[q].sess /\ y.gen = req[q].gen
                     /\ y.at = req[q].at /\ y.tell = req[q].tell /\ y.answer = req[q].answer
    <2>1. PICK x, y : x = req[q] /\ y = req'[q]
        BY Zenon
    <2>2. x \in Request /\ Good(x)
        BY <2>1, RequestNow, Zenon
    <2>3. CASE ~InFlight(x)
        <3>1. y = x
            BY <1>10, <2>1, <2>3, Zenon DEF ActivateTx, InFlight
        <3>2. Good(x)'
            BY <1>4, <2>2, <2>3, Zenon DEF Good, Fresh, Unanswered, Names, Seen, Holds
        <3>3. QED
            BY <2>1, <3>1, <3>2, Zenon
    <2>4. CASE InFlight(x)
        <3>1. y = [x EXCEPT !.seen = x.seen \cup {p}]
            BY <1>1, <1>10, <2>1, <2>2, <2>4, Zenon DEF ActivateTx, InFlight, Request
        <3>2. x.seen \cup {p} \in SUBSET People
            BY <1>3, <2>2, Zenon DEF Request
        <3>3. /\ y \in Request /\ y.seen = x.seen \cup {p} /\ y.op = x.op /\ y.at = x.at /\ y.of = x.of /\ y.by = x.by
              /\ y.password = x.password /\ y.sess = x.sess /\ y.gen = x.gen /\ y.up = x.up /\ y.tell = x.tell
              /\ y.swapped = x.swapped /\ y.answer = x.answer
            BY <2>2, <3>1, <3>2, Zenon DEF Request
        <3>4. Fresh(y)' /\ Unanswered(y)' /\ Names(y)' /\ Holds(y)'
            BY <1>4, <1>5, <2>2, <3>3, SMTT(20) DEF Good, Fresh, Unanswered, InFlight, Names, Holds
        <3>5. Seen(y)'
            BY <2>2, <3>3, Zenon DEF Good, Seen
        <3>6. Good(y)'
            BY <3>3, <3>4, <3>5, Zenon DEF Good
        <3>7. QED
            BY <2>1, <3>3, <3>6, Zenon
    <2>5. QED
        BY <2>3, <2>4, Zenon
<1>11. ASSUME NEW q \in Requests PROVE Good(req[q])'
    <2>1. CASE q = r
        BY <1>8, <1>9, <2>1, Zenon
    <2>2. CASE q # r
        <3>1. PICK y : y = req'[q] /\ Good(y)'
            BY <1>10, <2>2, Zenon
        <3>2. QED
            BY <3>1, Zenon
    <2>3. QED
        BY <2>1, <2>2, Zenon
<1>12. req' = [q \in Requests |-> req'[q]]
    BY Zenon DEF ActivateTx
<1>13. StoreType'
    <2>1. \A q \in Requests : req'[q] \in Request
        BY <1>11, Zenon DEF Good
    <2>2. req' \in [Requests -> Request]
        BY <1>12, <2>1, Zenon
    <2>3. QED
        BY <1>4, <1>5, <1>6, <2>2, Zenon DEF StoreType, SessionsInv
<1>14. RotatedOnce'
    <2> SUFFICES ASSUME NEW q \in Requests, NEW o \in Requests, req'[q].swapped, req'[o].swapped,
                        req'[q].sess = req'[o].sess, req'[q].gen = req'[o].gen
                 PROVE  q = o
        BY Zenon DEF RotatedOnce
    <2>1. CASE q # r /\ o # r
        BY <1>10, <2>1 DEF SessionsInv, RotatedOnce
    <2>2. CASE q = r /\ o # r
        BY <1>8, <1>9, <1>10, <2>2 DEF Apart
    <2>3. CASE q # r /\ o = r
        BY <1>8, <1>9, <1>10, <2>3 DEF Apart
    <2>4. QED
        BY <2>1, <2>2, <2>3, Zenon
<1>15. Promised'
    <2> SUFFICES ASSUME NEW t \in untold
                 PROVE  t[1] \in DOMAIN session /\ \E q \in Requests : Tells(req'[q], session[t[1]].of)
        BY <1>4, Zenon DEF Promised, Tells
    <2>1. t[1] \in DOMAIN session
        BY Zenon DEF SessionsInv, Promised
    <2>2. PICK q \in Requests : Tells(req[q], session[t[1]].of)
        BY Zenon DEF SessionsInv, Promised
    <2>3. q # r
        BY <1>2, <2>2, RequestNow, Zenon DEF Good, Unanswered, InFlight, Tells
    <2>4. Tells(req'[q], session[t[1]].of)
        BY <1>10, <2>2, <2>3 DEF Tells
    <2>5. QED
        BY <2>1, <2>4, Zenon
<1>16. QED
    BY <1>11, <1>13, <1>14, <1>15, Zenon DEF SessionsInv

\* A session with less time left is the same session.
LEMMA TickStep == ASSUME SessionsInv, Tick PROVE SessionsInv'
<1>1. active' = active /\ password' = password /\ req' = req /\ untold' = untold
    BY Zenon DEF Tick, accountVars
<1>2. session \in Seq(Session) /\ DOMAIN session = 1..Len(session) /\ Len(session) \in Nat
    BY SessionFacts, Zenon DEF SessionsInv, StoreType
<1>3. session' = [s \in 1..Len(session) |-> [session[s] EXCEPT !.left = Less(session[s].left)]]
    BY <1>2, Zenon DEF Tick
<1>4. ASSUME NEW s \in 1..Len(session)
      PROVE  session'[s] \in Session /\ session'[s].of = session[s].of /\ session'[s].gen = session[s].gen
    <2>1. PICK x, y, n : x = session[s] /\ y = session'[s] /\ n = Less(x.left)
        BY Zenon
    <2>2. x \in Session
        BY <1>2, <2>1
    <2>3. x.left \in Nat
        BY <2>2, Zenon DEF Session
    <2>4. n \in Nat
        BY <2>1, <2>3 DEF Less
    <2>5. y = [x EXCEPT !.left = n]
        BY <1>3, <2>1, Zenon
    <2>6. y \in Session /\ y.of = x.of /\ y.gen = x.gen
        BY <2>2, <2>4, <2>5, Zenon DEF Session
    <2>7. QED
        BY <2>1, <2>6, Zenon
<1>5. session' \in [1..Len(session) -> Session]
    BY <1>3, <1>4, Zenon
<1>6. session' \in Seq(Session) /\ DOMAIN session' = DOMAIN session
    BY <1>2, <1>5
<1>7. StoreType' /\ Active' = Active
    BY <1>1, <1>6, Zenon DEF SessionsInv, StoreType, Active
<1>8. ASSUME NEW r \in Requests PROVE Good(req[r])'
    <2>1. PICK x : x = req[r]
        BY Zenon
    <2>2. Good(x)
        BY <2>1, RequestNow, Zenon
    <2>3. Holds(x)'
        BY <1>2, <1>4, <1>6, <2>2, Zenon DEF Good, Holds
    <2>4. Good(x)'
        BY <1>7, <2>2, <2>3, Zenon DEF Good, Fresh, Unanswered, Names, Seen
    <2>5. QED
        BY <1>1, <2>1, <2>4, Zenon
<1>9. RotatedOnce'
    BY <1>1, Zenon DEF SessionsInv, RotatedOnce
<1>10. Promised'
    <2>1. \A t \in untold : t[1] \in 1..Len(session) /\ \E r \in Requests : Tells(req[r], session[t[1]].of)
        BY <1>2, Zenon DEF SessionsInv, Promised
    <2>2. \A t \in untold : t[1] \in DOMAIN session' /\ \E r \in Requests : Tells(req[r], session'[t[1]].of)
        BY <1>2, <1>4, <1>6, <2>1, Zenon
    <2>3. QED
        BY <1>1, <2>2, Zenon DEF Promised, Tells
<1>11. QED
    BY <1>7, <1>8, <1>9, <1>10, Zenon DEF SessionsInv

-----------------------------------------------------------------------------
(* The theorems.                                                             *)

LEMMA SessionsStart == Init => SessionsInv
<1> SUFFICES ASSUME Init PROVE SessionsInv
    BY Zenon
<1>1. PICK p \in People, a \in Actors : session = <<NewSession(p, a, TTL, TRUE)>>
    BY Zenon DEF Init, Actors
<1>2. PICK n : n = NewSession(p, a, TTL, TRUE)
    BY Zenon
<1>3. TTL \in Nat /\ 0 \in Nat /\ TRUE \in BOOLEAN /\ FALSE \in BOOLEAN
    BY SignInAssumption, Zenon
<1>4. n \in Session
    BY <1>2, <1>3, Zenon DEF NewSession, Session
<1>5. session \in Seq(Session)
    <2>1. session = <<n>>
        BY <1>1, <1>2, Zenon
    <2>2. <<n>> \in Seq(Session)
        BY <1>4
    <2>3. QED
        BY <2>1, <2>2, Zenon
<1>6. req \in [Requests -> Request] /\ \A r \in Requests : req[r] = Waiting
    BY WaitingFields, Zenon DEF Init
<1>7. StoreType
    BY <1>5, <1>6, Zenon DEF StoreType, Init
<1>8. Good(Waiting)
    BY WaitingFields, Zenon DEF Good, Fresh, Unanswered, InFlight, Names, Seen, Holds
<1>9. RotatedOnce
    BY <1>6, WaitingFields, Zenon DEF RotatedOnce
<1>10. Promised
    BY Zenon DEF Promised, Init
<1>11. QED
    BY <1>6, <1>7, <1>8, <1>9, <1>10, Zenon DEF SessionsInv

LEMMA AskStep == ASSUME SessionsInv, NEW r \in Requests, Ask(r) PROVE SessionsInv'
<1>1. ASSUME NEW p \in People, NEW pw \in Passwords,
             Login(r, p, pw) \/ \E t \in OwnTokens(p) \cup {NoToken} : SetPassword(r, p, pw, t[1], t[2])
      PROVE SessionsInv'
    BY <1>1, LoginStep, SetPasswordStep, Zenon DEF OwnTokens
<1>2. ASSUME NEW p \in People, Embed(r, p) \/ Unlock(r, p) PROVE SessionsInv'
    BY <1>2, EmbedStep, UnlockStep, Zenon
<1>3. ASSUME NEW p \in People, NEW on \in BOOLEAN, SwitchActive(r, p, on) PROVE SessionsInv'
    BY <1>3, SwitchActiveStep, Zenon
<1>4. ASSUME NEW p \in People, NEW a \in People, LoginAs(r, a, p) PROVE SessionsInv'
    BY <1>4, LoginAsStep, Zenon
<1>5. ASSUME NEW p \in People, NEW t \in Tokens \cup {NoToken}, RevokeSessions(r, p, t[1], t[2]) PROVE SessionsInv'
    BY <1>5, RevokeSessionsStep, Zenon
<1>6. ASSUME NEW p \in People, NEW t \in Tokens, NEW pw \in Passwords, ChangePassword(r, p, pw, t[1], t[2]) PROVE SessionsInv'
    BY <1>6, ChangePasswordStep, Zenon
<1>7. ASSUME NEW t \in Tokens, \/ Refresh(r, t[1], t[2]) \/ Authenticate(r, t[1], t[2])
                               \/ Logout(r, t[1], t[2]) \/ Return(r, t[1], t[2])
      PROVE SessionsInv'
    BY <1>7, RefreshStep, AuthenticateStep, LogoutStep, ReturnStep, Zenon
<1>8. ASSUME NEW s \in DOMAIN session, NEW keep, RevokeSession(r, s, keep) PROVE SessionsInv'
    BY <1>8, RevokeSessionStep, Zenon
<1>9. QED
    BY <1>1, <1>2, <1>3, <1>4, <1>5, <1>6, <1>7, <1>8, Zenon DEF Ask

LEMMA ContinueStep == ASSUME SessionsInv, NEW r \in Requests, Continue(r) PROVE SessionsInv'
BY ReadAccountStep, CheckLockStep, CompareStep, RecordSignInStep, ReadTargetStep, OpenSessionStep, RotateStep,
   CheckAccountStep, CheckActorStep, EndOneStep, PasswordTxStep, DeactivateTxStep, ActivateTxStep, UnlockTxStep,
   LogStep, EndOwnStep, EndOpenedStep, TellStep, FailStep, Zenon DEF Continue

LEMMA SessionsStep == SessionsInv /\ [Next]_vars => SessionsInv'
<1> SUFFICES ASSUME SessionsInv, [Next]_vars PROVE SessionsInv'
    BY Zenon
<1>1. CASE UNCHANGED vars
    <2>1. active' = active /\ password' = password /\ session' = session /\ req' = req /\ untold' = untold
        BY <1>1, Zenon DEF vars, accountVars
    <2>2. StoreType'
        BY <2>1, Zenon DEF SessionsInv, StoreType
    <2>3. ASSUME NEW r \in Requests PROVE Good(req[r])'
        <3>1. Good(req[r])
            BY RequestNow, Zenon
        <3>2. QED
            BY <2>1, <3>1, ZenonT(30) DEF Good, Fresh, Unanswered, InFlight, Active, Names, Seen, Holds
    <2>4. RotatedOnce' /\ Promised'
        BY <2>1, Zenon DEF SessionsInv, RotatedOnce, Promised, Tells
    <2>5. QED
        BY <2>2, <2>3, <2>4, Zenon DEF SessionsInv
<1>2. ASSUME NEW r \in Requests, Ask(r) \/ Continue(r) PROVE SessionsInv'
    BY <1>2, AskStep, ContinueStep, Zenon
<1>3. CASE Tick
    BY <1>3, TickStep, Zenon
<1>4. QED
    BY <1>1, <1>2, <1>3, Zenon DEF Next

\* However requests interleave and wherever their statements fail, of two requests with one
\* refresh token one succeeds (Sessions.Rotate), nothing is granted to or for an account that
\* was inactive all along (Authenticator, LoginAs), and every token that stopped working is
\* told of (Notices.SessionsEnded), for any number of people, sessions and requests.
THEOREM SessionsAreSound == Spec => []SessionsHold
<1>1. SessionsInv => SessionsHold
    <2> SUFFICES ASSUME SessionsInv PROVE SessionsHold
        BY Zenon
    <2>1. RotatedOnce
        BY Zenon DEF SessionsInv
    <2>2. GrantedWasActive
        BY Zenon DEF SessionsInv, Good, Seen, GrantedWasActive
    <2>3. EndedIsTold
        BY Zenon DEF SessionsInv, Promised, Tells, EndedIsTold
    <2>4. QED
        BY <2>1, <2>2, <2>3, Zenon DEF SessionsHold
<1>2. QED
    BY SessionsStart, SessionsStep, <1>1, PTL DEF Spec

-----------------------------------------------------------------------------
(* Locks.                                                                    *)

Events == {"wrong_password", "signed_in", "unlocked"}
LockType == latest \in [People -> Seq(Events)] /\ lockLeft \in [People -> Nat]

\* A step leaves the lock events alone, adds one, or is the time.
LockStep == UNCHANGED lock \/ (\E p \in People : \E e : Record(p, e)) \/ Tick

LEMMA AskKeepsLock == ASSUME NEW r \in Requests, Ask(r) PROVE UNCHANGED lock
<1>1. ASSUME NEW p, NEW pw, Login(r, p, pw) \/ \E t \in OwnTokens(p) \cup {NoToken} : SetPassword(r, p, pw, t[1], t[2])
      PROVE UNCHANGED lock
    BY <1>1, Zenon DEF Login, SetPassword
<1>2. ASSUME NEW p, Embed(r, p) \/ Unlock(r, p) PROVE UNCHANGED lock
    BY <1>2, Zenon DEF Embed, Unlock
<1>3. ASSUME NEW p, NEW on, SwitchActive(r, p, on) PROVE UNCHANGED lock
    BY <1>3, Zenon DEF SwitchActive
<1>4. ASSUME NEW p, NEW a, LoginAs(r, a, p) PROVE UNCHANGED lock
    BY <1>4, Zenon DEF LoginAs
<1>5. ASSUME NEW p, NEW s, NEW g, RevokeSessions(r, p, s, g) PROVE UNCHANGED lock
    BY <1>5, Zenon DEF RevokeSessions
<1>6. ASSUME NEW p, NEW s, NEW g, NEW pw, ChangePassword(r, p, pw, s, g) PROVE UNCHANGED lock
    BY <1>6, Zenon DEF ChangePassword
<1>7. ASSUME NEW s, NEW g, Refresh(r, s, g) \/ Authenticate(r, s, g) \/ Logout(r, s, g) \/ Return(r, s, g) PROVE UNCHANGED lock
    BY <1>7, Zenon DEF Refresh, Authenticate, Logout, Return
<1>8. ASSUME NEW s, NEW keep, RevokeSession(r, s, keep) PROVE UNCHANGED lock
    BY <1>8, Zenon DEF RevokeSession
<1>9. QED
    BY <1>1, <1>2, <1>3, <1>4, <1>5, <1>6, <1>7, <1>8, Zenon DEF Ask

LEMMA ContinueLocks == ASSUME SessionsInv, NEW r \in Requests, Continue(r) PROVE LockStep
<1>1. Good(req[r])
    BY RequestNow, Zenon
<1>2. ReadAccount(r) => UNCHANGED lock
    BY Zenon DEF ReadAccount
<1>3. ReadTarget(r) => UNCHANGED lock
    BY Zenon DEF ReadTarget
<1>4. OpenSession(r) => UNCHANGED lock
    BY Zenon DEF OpenSession
<1>5. Rotate(r) => UNCHANGED lock
    BY Zenon DEF Rotate
<1>6. CheckAccount(r) => UNCHANGED lock
    BY Zenon DEF CheckAccount
<1>7. CheckActor(r) => UNCHANGED lock
    BY Zenon DEF CheckActor
<1>8. EndOne(r) => UNCHANGED lock
    BY Zenon DEF EndOne
<1>9. DeactivateTx(r) => UNCHANGED lock
    BY Zenon DEF DeactivateTx
<1>10. ActivateTx(r) => UNCHANGED lock
    BY Zenon DEF ActivateTx
<1>11. Log(r) => UNCHANGED lock
    BY Zenon DEF Log
<1>12. EndOwn(r) => UNCHANGED lock
    BY Zenon DEF EndOwn
<1>13. EndOpened(r) => UNCHANGED lock
    BY Zenon DEF EndOpened
<1>14. Tell(r) => UNCHANGED lock
    BY Zenon DEF Tell
<1>15. Fail(r) => UNCHANGED lock
    BY Zenon DEF Fail
<1>16. CASE CheckLock(r)
    <2>1. req[r].at = "lock"
        BY <1>16, Zenon DEF CheckLock, At
    <2>2. req[r].of \in People
        BY <1>1, <2>1, Zenon DEF Good, Names
    <2>3. UNCHANGED lock \/ \E e : Record(req[r].of, e)
        BY <1>16, ZenonT(30) DEF CheckLock
    <2>4. QED
        BY <2>2, <2>3, Zenon DEF LockStep
<1>17. CASE Compare(r)
    <2>1. req[r].at = "compare"
        BY <1>17, Zenon DEF Compare, At
    <2>2. req[r].of \in People
        BY <1>1, <2>1, Zenon DEF Good, Names
    <2>3. UNCHANGED lock \/ \E e : Record(req[r].of, e)
        BY <1>17, ZenonT(30) DEF Compare
    <2>4. QED
        BY <2>2, <2>3, Zenon DEF LockStep
<1>18. CASE PasswordTx(r)
    <2>1. req[r].at = "tx"
        BY <1>18, Zenon DEF PasswordTx, At
    <2>2. req[r].of \in People
        BY <1>1, <2>1, Zenon DEF Good, Names
    <2>3. UNCHANGED lock \/ \E e : Record(req[r].of, e)
        BY <1>18, ZenonT(30) DEF PasswordTx
    <2>4. QED
        BY <2>2, <2>3, Zenon DEF LockStep
<1>19. CASE UnlockTx(r)
    <2>1. req[r].at = "tx"
        BY <1>19, Zenon DEF UnlockTx, At
    <2>2. req[r].of \in People
        BY <1>1, <2>1, Zenon DEF Good, Names
    <2>3. UNCHANGED lock \/ \E e : Record(req[r].of, e)
        BY <1>19, Zenon DEF UnlockTx
    <2>4. QED
        BY <2>2, <2>3, Zenon DEF LockStep
<1>20. CASE RecordSignIn(r)
    <2>1. req[r].at = "record"
        BY <1>20, Zenon DEF RecordSignIn, At
    <2>2. req[r].of \in People
        BY <1>1, <2>1, Zenon DEF Good, Seen, Request
    <2>3. UNCHANGED lock \/ \E e : Record(req[r].of, e)
        BY <1>20, Zenon DEF RecordSignIn
    <2>4. QED
        BY <2>2, <2>3, Zenon DEF LockStep
<1>21. QED
    BY <1>2, <1>3, <1>4, <1>5, <1>6, <1>7, <1>8, <1>9, <1>10, <1>11, <1>12, <1>13, <1>14, <1>15, <1>16, <1>17, <1>18, <1>19, <1>20, Zenon DEF LockStep, Continue

\* The newest event comes first and the others follow, as many as LockedUntil reads.
Newest(t, e, s) == t \in Seq(Events) /\ Len(t) = Len(s) + 1 /\ t[1] = e /\ \A i \in 2..Len(t) : t[i] = s[i - 1]

LEMMA NewestFirst == ASSUME NEW s \in Seq(Events), NEW e \in Events PROVE Newest(<<e>> \o s, e, s)
BY SMTT(20) DEF Newest

LEMMA LatestEvents ==
    ASSUME NEW s \in Seq(Events), NEW e \in Events, NEW t, Newest(t, e, s), NEW l, l = Latest(t)
    PROVE  l \in Seq(Events) /\ l[1] = e /\ (Len(s) >= After => Len(l) = After) /\ \A i \in 2..Len(l) : l[i] = s[i - 1]
<1>1. t \in Seq(Events) /\ Len(t) = Len(s) + 1 /\ t[1] = e /\ Len(s) \in Nat /\ \A i \in 2..Len(t) : t[i] = s[i - 1]
    <2>1. Len(s) \in Nat
        OBVIOUS
    <2>2. QED
        BY <2>1, Zenon DEF Newest
<1>2. After \in Nat \ {0}
    BY SignInAssumption, Zenon
<1>3. PICK n : n = IF Len(t) < After THEN Len(t) ELSE After
    BY Zenon
<1>4. n \in 1..Len(t) /\ (Len(s) >= After => n = After)
    BY <1>1, <1>2, <1>3
<1>5. l = SubSeq(t, 1, n)
    BY <1>3, Zenon DEF Latest
<1>6. Len(l) = n /\ \A i \in 1..n : l[i] = t[i]
    BY <1>1, <1>4, <1>5
<1>7. l \in Seq(Events)
    BY <1>1, <1>4, <1>5
<1>8. QED
    BY <1>1, <1>4, <1>6, <1>7, SMTT(20)

LEMMA RecordedLock ==
    ASSUME LockType, NEW p \in People, NEW e, Record(p, e), LockEvent(e)
    PROVE  /\ LockType' /\ e \in Events /\ lockLeft'[p] = For
           /\ latest'[p] = Latest(<<e>> \o latest[p])
           /\ \A q \in People : q # p => latest'[q] = latest[q] /\ lockLeft'[q] = lockLeft[q]
<1>1. e \in Events /\ For \in Nat
    BY SignInAssumption, Zenon DEF LockEvent, Events
<1>2. PICK t, l : t = <<e>> \o latest[p] /\ l = Latest(t)
    BY Zenon
<1>3. latest[p] \in Seq(Events)
    BY Zenon DEF LockType
<1>4. l \in Seq(Events)
    <2>1. Newest(t, e, latest[p])
        BY <1>1, <1>2, <1>3, NewestFirst, Zenon
    <2>2. QED
        BY <1>1, <1>2, <1>3, <2>1, LatestEvents, Zenon
<1>5. latest' = [latest EXCEPT ![p] = l] /\ lockLeft' = [lockLeft EXCEPT ![p] = For]
    BY <1>2, Zenon DEF Record
<1>6. QED
    BY <1>1, <1>2, <1>4, <1>5, Zenon DEF LockType

LEMMA LockTypeStart == Init => LockType
<1> SUFFICES ASSUME Init PROVE LockType
    BY Zenon
<1>1. PICK p \in People, n \in 0..After :
          /\ latest = [q \in People |-> IF q = p THEN [i \in 1..n |-> "wrong_password"] ELSE <<>>]
          /\ lockLeft = [q \in People |-> IF q = p /\ n > 0 THEN For ELSE 0]
    BY Zenon DEF Init
<1>2. For \in Nat /\ After \in Nat
    BY SignInAssumption, Zenon
<1>3. <<>> \in Seq(Events)
    OBVIOUS
<1>4. PICK w : w = [i \in 1..n |-> "wrong_password"]
    BY Zenon
<1>5. w \in Seq(Events)
    <2>1. n \in Nat /\ "wrong_password" \in Events
        BY <1>2 DEF Events
    <2>2. w \in [1..n -> Events]
        BY <2>1, <1>4, Zenon
    <2>3. QED
        BY <2>1, <2>2
<1>6. latest = [q \in People |-> IF q = p THEN w ELSE <<>>]
    BY <1>1, <1>4, Zenon
<1>7. QED
    BY <1>1, <1>2, <1>3, <1>5, <1>6, Zenon DEF LockType

\* What the events of a locked account become.
LEMMA RecordKeepsLock ==
    ASSUME LockType, NEW p \in People, NEW q \in People, NEW e, Record(p, e), Locked(q)
    PROVE  Locked(q)' \/ latest'[q][1] \in {"signed_in", "unlocked"}
<1>1. CASE ~LockEvent(e)
    <2>1. latest' = latest /\ lockLeft' = lockLeft
        BY <1>1, Zenon DEF Record, lock
    <2>2. QED
        BY <2>1, Zenon DEF Locked
<1>2. CASE LockEvent(e) /\ q # p
    <2>1. LockEvent(e) /\ \A u \in People : u # p => latest'[u] = latest[u] /\ lockLeft'[u] = lockLeft[u]
        BY <1>2, RecordedLock, Zenon
    <2>2. latest'[q] = latest[q] /\ lockLeft'[q] = lockLeft[q]
        BY <1>2, <2>1, Zenon
    <2>3. QED
        BY <2>2, Zenon DEF Locked
<1>3. CASE LockEvent(e) /\ q = p
    <2>1. PICK s, l : s = latest[p] /\ l = latest'[p]
        BY Zenon
    <2>2. l = Latest(<<e>> \o s) /\ e \in Events /\ lockLeft'[p] = For
        <3>1. LockEvent(e)
            BY <1>3, Zenon
        <3>2. latest'[p] = Latest(<<e>> \o latest[p]) /\ e \in Events /\ lockLeft'[p] = For
            BY <3>1, RecordedLock, Zenon
        <3>3. QED
            BY <2>1, <3>2, Zenon
    <2>3. s \in Seq(Events) /\ Len(s) >= After /\ \A i \in 1..After : s[i] = "wrong_password"
        BY <1>3, <2>1, Zenon DEF LockType, Locked
    <2>4. l[1] = e /\ Len(l) = After /\ \A i \in 2..Len(l) : l[i] = s[i - 1]
        <3>0. PICK t : t = <<e>> \o s
            BY Zenon
        <3>1. s \in Seq(Events) /\ e \in Events /\ l = Latest(t) /\ Len(s) >= After /\ Newest(t, e, s)
            BY <2>2, <2>3, <3>0, NewestFirst, Zenon
        <3>2. s \in Seq(Events)
            BY <3>1, Zenon
        <3>3. e \in Events
            BY <3>1, Zenon
        <3>4. Newest(t, e, s)
            BY <3>1, Zenon
        <3>5. l = Latest(t)
            BY <3>1, Zenon
        <3>6. l \in Seq(Events) /\ l[1] = e /\ (Len(s) >= After => Len(l) = After) /\ \A i \in 2..Len(l) : l[i] = s[i - 1]
            BY ONLY <3>2, <3>3, <3>4, <3>5, LatestEvents
        <3>7. QED
            BY <3>1, <3>6, Zenon
    <2>5. After \in Nat \ {0} /\ For \in Nat \ {0}
        BY SignInAssumption, Zenon
    <2>6. CASE e = "wrong_password"
        <3>1. \A i \in 1..After : l[i] = "wrong_password"
            <4> SUFFICES ASSUME NEW i \in 1..After PROVE l[i] = "wrong_password"
                BY Zenon
            <4>1. CASE i = 1
                BY <4>1, <2>4, <2>6, Zenon
            <4>2. CASE i # 1
                BY <4>2, <2>3, <2>4, <2>5
            <4>3. QED
                BY <4>1, <4>2, Zenon
        <3>2. QED
            BY <1>3, <2>1, <2>2, <2>4, <2>5, <3>1 DEF Locked
    <2>7. CASE e # "wrong_password"
        BY <1>3, <2>1, <2>2, <2>4, <2>7, Zenon DEF Events
    <2>8. QED
        BY <2>6, <2>7, Zenon
<1>4. QED
    BY <1>1, <1>2, <1>3, Zenon

LEMMA NextLocks == SessionsInv /\ Next => LockStep
BY AskKeepsLock, ContinueLocks, Zenon DEF Next, LockStep

LEMMA LockTypeStep == LockType /\ SessionsInv /\ [Next]_vars => LockType'
<1> SUFFICES ASSUME LockType, SessionsInv, [Next]_vars PROVE LockType'
    BY Zenon
<1>1. CASE UNCHANGED lock
    BY <1>1, Zenon DEF LockType, lock
<1>2. ASSUME NEW p \in People, NEW e, Record(p, e) PROVE LockType'
    BY <1>1, <1>2, RecordedLock, Zenon DEF Record
<1>3. CASE Tick
    <2>1. latest' = latest /\ lockLeft' = [p \in People |-> Less(lockLeft[p])]
        BY <1>3, Zenon DEF Tick
    <2>2. QED
        BY <2>1 DEF LockType, Less
<1>4. CASE UNCHANGED vars
    BY <1>1, <1>4, Zenon DEF vars
<1>5. QED
    BY <1>1, <1>2, <1>3, <1>4, NextLocks, Zenon DEF LockStep

\* A lock ends by running out, by a sign-in or by an unlock (Lock.LockedUntil), whatever
\* attempts are made and refused meanwhile, for any number of attempts that lock an account.
THEOREM LocksAreKept == Spec => LockKept
<1>1. ASSUME LockType, SessionsInv, [Next]_vars, NEW p \in People, Locked(p), ~Locked(p)'
      PROVE  lockLeft'[p] = 0 \/ latest'[p][1] \in {"signed_in", "unlocked"}
    <2>1. CASE UNCHANGED lock
        BY <1>1, <2>1, Zenon DEF Locked, lock
    <2>2. ASSUME NEW q \in People, NEW e, Record(q, e) PROVE latest'[p][1] \in {"signed_in", "unlocked"}
        BY <1>1, <2>2, RecordKeepsLock, Zenon
    <2>3. CASE Tick
        <3>1. latest' = latest /\ lockLeft'[p] \in Nat
            <4>1. LockType'
                BY <1>1, LockTypeStep, Zenon
            <4>2. QED
                BY <4>1, <2>3, Zenon DEF Tick, LockType
        <3>2. QED
            BY <1>1, <3>1 DEF Locked
    <2>4. CASE UNCHANGED vars
        BY <2>1, <2>4, Zenon DEF vars
    <2>5. QED
        BY <1>1, <2>1, <2>2, <2>3, <2>4, NextLocks, Zenon DEF LockStep
<1>2. LockType /\ SessionsInv /\ [Next]_vars =>
      [\A p \in People : Locked(p) /\ ~Locked(p)' =>
          lockLeft'[p] = 0 \/ latest'[p][1] \in {"signed_in", "unlocked"}]_vars
    BY <1>1, Zenon
<1>3. QED
    BY LockTypeStart, LockTypeStep, SessionsStart, SessionsStep, <1>2, PTL DEF Spec, LockKept

=============================================================================
