------------------------------- MODULE SignIn -------------------------------
(***************************************************************************)
(* identity/account's SignIn, Users and Admin on identity/gormstore: the   *)
(* requests of several people sign in, refresh, sign out, sign in as       *)
(* somebody, return, change passwords and the active flag and end          *)
(* sessions, each as the database statements it makes, in any interleaving.*)
(* Time is counted down: what is left of a lock, of an attempts window and *)
(* of a session.                                                           *)
(***************************************************************************)
EXTENDS Integers, Sequences, FiniteSets

CONSTANTS
    People,    \* accounts
    Nobody,    \* the actor of a person's own session
    Passwords,
    Requests,  \* bound: the requests that come, each once
    After,     \* Lock.After
    For,       \* Lock.For
    Limit,     \* AttemptsPerMinute
    Window,    \* attemptWindow
    TTL,       \* TokenTTL
    EmbedTTL,
    MaxFaults  \* bound: statements that fail

ASSUME SignInAssumption ==
    /\ Nobody \notin People
    /\ {After, For, Limit, Window, TTL, EmbedTTL} \subseteq Nat \ {0}
    /\ MaxFaults \in Nat

VARIABLES
    active,    \* accounts.active
    password,  \* accounts.password_hash, which Matches only the password it was made of
    latest,    \* each account's latest After lock events, newest first
    lockLeft,  \* what is left of Lock.For since the newest of them
    window,    \* attempts.windows
    session,   \* the tokens table, in the order of ids
    req,       \* the requests
    untold,    \* tokens that stopped working, by id and generation, the Notices not told
    faults

accountVars == <<active, password>>
lock == <<latest, lockLeft>>
vars == <<accountVars, lock, window, session, req, untold, faults>>

Waiting ==
    [op |-> "none", at |-> "idle", of |-> Nobody, by |-> Nobody, password |-> Nobody, sess |-> 0,
     gen |-> 0, up |-> FALSE, hash |-> Nobody, tell |-> {}, swapped |-> FALSE, seen |-> {},
     answer |-> "none"]

NewSession(p, a, left, refresh) ==
    [of |-> p, actor |-> a, gen |-> 0, left |-> left, revoked |-> FALSE, refresh |-> refresh]

(* One session, a person's own or opened by another; somebody may have typed wrong passwords     *)
(* just before, and any account may be inactive, its session opened while it was deactivated.    *)
Init ==
    /\ active \in [People -> BOOLEAN]
    /\ password \in [People -> Passwords] /\ Cardinality({password[p] : p \in People}) = 1
    /\ \E p \in People, n \in 0..After :
          /\ latest = [q \in People |-> IF q = p THEN [i \in 1..n |-> "wrong_password"] ELSE <<>>]
          /\ lockLeft = [q \in People |-> IF q = p /\ n > 0 THEN For ELSE 0]
    /\ \E n \in {0, Limit} : window = [p \in People |-> [count |-> n, left |-> IF n = 0 THEN 0 ELSE Window]]
    /\ \E p \in People, a \in People \cup {Nobody} :
          a # p /\ session = <<NewSession(p, a, TTL, TRUE)>>
    /\ req = [r \in Requests |-> Waiting]
    /\ untold = {} /\ faults = 0

-----------------------------------------------------------------------------
(* The store                                                                *)

Live(s) == ~session[s].revoked /\ session[s].left > 0
Current(s, g) == Live(s) /\ session[s].gen = g

Open(p, a, left, refresh) == session' = Append(session, NewSession(p, a, left, refresh))

(* Sessions.End and EndOpenedBy: the rows are revoked, and their tokens have yet to be told.     *)
EndSessions(S) ==
    /\ session' = [s \in DOMAIN session |->
                     IF s \in S THEN [session[s] EXCEPT !.revoked = TRUE] ELSE session[s]]
    /\ untold' = untold \cup {<<s, session[s].gen>> : s \in S}

Own(p, keep) == {s \in DOMAIN session : Live(s) /\ session[s].of = p /\ s # keep}
OpenedBy(p) == {s \in DOMAIN session : Live(s) /\ session[s].actor = p}
Owners(S) == {session[s].of : s \in S}

(* keptSession: the live session of the account that a token names.                              *)
Kept(p, s, g) == IF s # 0 /\ Current(s, g) /\ session[s].of = p THEN s ELSE 0

LockedOutMutant(e) == e \in {"wrong_password", "signed_in", "unlocked", "locked_out"}
LockEvent(e) == e \in {"wrong_password", "signed_in", "unlocked"}

Latest(events) == SubSeq(events, 1, IF Len(events) < After THEN Len(events) ELSE After)

Record(p, e) ==
    IF LockEvent(e)
    THEN /\ latest' = [latest EXCEPT ![p] = Latest(<<e>> \o @)]
         /\ lockLeft' = [lockLeft EXCEPT ![p] = For]
    ELSE UNCHANGED lock

(* Lock.LockedUntil                                                                              *)
Locked(p) ==
    /\ Len(latest[p]) >= After /\ \A i \in 1..After : latest[p][i] = "wrong_password"
    /\ lockLeft[p] > 0

-----------------------------------------------------------------------------
(* A request goes on                                                        *)

Active == {p \in People : active[p]}

Begin(r, op, changes) ==
    req[r].at = "idle" /\ req' = [req EXCEPT ![r] = [changes EXCEPT !.op = op, !.seen = Active]]
At(r, op, at) == req[r].op = op /\ req[r].at = at
Go(r, at) == req' = [req EXCEPT ![r].at = at]
Ended(x, answer) ==
    LET kept == IF answer = "granted" THEN [Waiting EXCEPT !.of = x.of, !.by = x.by, !.seen = x.seen] ELSE Waiting
    IN  [kept EXCEPT !.at = "done", !.answer = answer, !.swapped = x.swapped,
                     !.sess = IF x.swapped THEN x.sess ELSE 0, !.gen = IF x.swapped THEN x.gen ELSE 0]
Answer(r, answer) == req' = [req EXCEPT ![r] = Ended(req[r], answer)]
GoOrRefuse(r, ok, at) == IF ok THEN Go(r, at) ELSE Answer(r, "refused")
BeginOrRefuse(r, op, changes, ok, at) ==
    IF ok THEN Begin(r, op, [changes EXCEPT !.at = at]) ELSE req[r].at = "idle" /\ Answer(r, "refused")

-----------------------------------------------------------------------------
(* SignIn.Login                                                             *)

(* attempts.allow                                                                                *)
Login(r, p, pw) ==
    LET w == IF window[p].left = 0 THEN [count |-> 1, left |-> Window]
                                   ELSE [window[p] EXCEPT !.count = @ + 1]
    IN  /\ BeginOrRefuse(r, "login", [Waiting EXCEPT !.of = p, !.password = pw], w.count <= Limit, "account")
        /\ window' = [window EXCEPT ![p] = w]
        /\ UNCHANGED <<accountVars, lock, session, untold, faults>>

ReadAccount(r) ==
    LET p == req[r].of IN
    /\ At(r, "login", "account")
    /\ req' = [req EXCEPT ![r].at = "lock", ![r].up = active[p], ![r].hash = password[p]]
    /\ UNCHANGED <<accountVars, lock, window, session, untold, faults>>

CheckLock(r) ==
    LET p == req[r].of IN
    /\ At(r, "login", "lock")
    /\ IF Locked(p) THEN Record(p, "locked_out") ELSE UNCHANGED lock
    /\ GoOrRefuse(r, ~Locked(p), "compare")
    /\ UNCHANGED <<accountVars, window, session, untold, faults>>

Compare(r) ==
    LET x == req[r] IN
    /\ At(r, "login", "compare")
    /\ \/ /\ x.password # x.hash
          /\ Record(x.of, "wrong_password") /\ Answer(r, "refused") /\ UNCHANGED session
       \/ /\ x.password = x.hash /\ ~x.up
          /\ Record(x.of, "refused_inactive") /\ Answer(r, "refused") /\ UNCHANGED session
       \/ /\ x.password = x.hash /\ x.up
          /\ Open(x.of, Nobody, TTL, TRUE) /\ Go(r, "record") /\ UNCHANGED lock
    /\ UNCHANGED <<accountVars, window, untold, faults>>

RecordSignIn(r) ==
    /\ req[r].at = "record"
    /\ Record(req[r].of, IF req[r].op = "login_as" THEN "signed_in_as" ELSE "signed_in")
    /\ Answer(r, "granted")
    /\ UNCHANGED <<accountVars, window, session, untold, faults>>

-----------------------------------------------------------------------------
(* SignIn.Embed, LoginAs and Return                                         *)

Embed(r, p) ==
    /\ BeginOrRefuse(r, "embed", [Waiting EXCEPT !.of = p], active[p], "open")
    /\ UNCHANGED <<accountVars, lock, window, session, untold, faults>>

(* The Impersonation may refuse the actor, and then the target.                                  *)
LoginAs(r, a, t) ==
    /\ a # t
    /\ \E permitted \in BOOLEAN :
          BeginOrRefuse(r, "login_as", [Waiting EXCEPT !.of = t, !.by = a], active[a] /\ permitted, "target")
    /\ UNCHANGED <<accountVars, lock, window, session, untold, faults>>

ReadTarget(r) ==
    /\ At(r, "login_as", "target")
    /\ \E covered \in BOOLEAN : GoOrRefuse(r, active[req[r].of] /\ covered, "open")
    /\ UNCHANGED <<accountVars, lock, window, session, untold, faults>>

(* The request of a session opened by signing in as somebody, and then actorOf.                  *)
Return(r, s, g) ==
    LET a == session[s].actor IN
    /\ Current(s, g) /\ active[session[s].of]
    /\ BeginOrRefuse(r, "return", [Waiting EXCEPT !.of = a, !.sess = s], a # Nobody /\ a \in Active, "open")
    /\ UNCHANGED <<accountVars, lock, window, session, untold, faults>>

OpenSession(r) ==
    LET x == req[r] IN
    /\ x.at = "open"
    /\ Open(x.of, x.by, IF x.op = "embed" THEN EmbedTTL ELSE TTL, x.op # "embed")
    /\ Go(r, IF x.op = "return" THEN "end" ELSE "record")
    /\ UNCHANGED <<accountVars, lock, window, untold, faults>>

-----------------------------------------------------------------------------
(* SignIn.Refresh, Authenticate and Logout                                  *)

(* Sessions.Rotate reads the session without a lock,                                             *)
Refresh(r, s, g) ==
    /\ session[s].refresh
    /\ BeginOrRefuse(r, "refresh", [Waiting EXCEPT !.sess = s, !.gen = g], Current(s, g), "rotate")
    /\ UNCHANGED <<accountVars, lock, window, session, untold, faults>>

UncheckedMutant(s, g) == Live(s)
StillMine(s, g) == Current(s, g)

(* and again with it, before the tokens are swapped.                                             *)
Rotate(r) ==
    LET x == req[r]  s == x.sess IN
    /\ At(r, "refresh", "rotate")
    /\ IF StillMine(s, x.gen)
       THEN /\ session' = [session EXCEPT ![s].gen = @ + 1, ![s].left = TTL]
            /\ untold' = untold \cup {<<s, session[s].gen>>}
            /\ req' = [req EXCEPT ![r].at = "tell", ![r].swapped = TRUE, ![r].of = session[s].of,
                                  ![r].by = session[s].actor, ![r].tell = {session[s].of}]
       ELSE Answer(r, "refused") /\ UNCHANGED <<session, untold>>
    /\ UNCHANGED <<accountVars, lock, window, faults>>

Authenticate(r, s, g) ==
    /\ BeginOrRefuse(r, "authenticate",
                     [Waiting EXCEPT !.sess = s, !.gen = g, !.of = session[s].of, !.by = session[s].actor],
                     Current(s, g), "check")
    /\ UNCHANGED <<accountVars, lock, window, session, untold, faults>>

MayUse(p) == active[p]

CheckAccount(r) ==
    LET x == req[r] IN
    /\ x.at = "check"
    /\ IF MayUse(x.of) /\ x.by = Nobody THEN Answer(r, "granted") ELSE GoOrRefuse(r, MayUse(x.of), "actor")
    /\ UNCHANGED <<accountVars, lock, window, session, untold, faults>>

(* actorOf                                                                                       *)
CheckActor(r) ==
    /\ req[r].at = "actor"
    /\ Answer(r, IF MayUse(req[r].by) THEN "granted" ELSE "refused")
    /\ UNCHANGED <<accountVars, lock, window, session, untold, faults>>

Logout(r, s, g) ==
    /\ BeginOrRefuse(r, "logout", [Waiting EXCEPT !.sess = s, !.of = session[s].of], Current(s, g), "end")
    /\ UNCHANGED <<accountVars, lock, window, session, untold, faults>>

(* The session is ended by its id, whatever became of its tokens; the fact is told either way.   *)
EndOne(r) ==
    LET s == req[r].sess IN
    /\ req[r].at = "end"
    /\ EndSessions(IF Live(s) THEN {s} ELSE {})
    /\ req' = [req EXCEPT ![r].at = "tell", ![r].tell = {session[s].of}]
    /\ UNCHANGED <<accountVars, lock, window, faults>>

-----------------------------------------------------------------------------
(* Passwords, the active flag and ended sessions: Admin, Profile and Users  *)

(* revokeSessions within a transaction: every session of the account but the kept one, and the   *)
(* ones it opened as somebody.                                                                   *)
EndAll(r, p, keep) ==
    LET S == Own(p, keep) \cup OpenedBy(p) IN
    /\ EndSessions(S)
    /\ req' = [req EXCEPT ![r].at = "tell", ![r].tell = {p} \cup Owners(S)]

(* Profile.ChangePassword; re-confirming and the policy let the right password through.          *)
ChangePassword(r, p, new, s, g) ==
    /\ BeginOrRefuse(r, "password", [Waiting EXCEPT !.of = p, !.by = p, !.password = new, !.sess = s, !.gen = g],
                     password[p] # new, "tx")
    /\ UNCHANGED <<accountVars, lock, window, session, untold, faults>>

(* Admin.SetPassword: an administrator who sets their own keeps the session of their token.      *)
SetPassword(r, p, new, s, g) ==
    /\ Begin(r, "password", [Waiting EXCEPT !.of = p, !.password = new, !.sess = s, !.gen = g, !.at = "tx"])
    /\ UNCHANGED <<accountVars, lock, window, session, untold, faults>>

(* An administrator's new password lifts the lock.                                               *)
PasswordTx(r) ==
    LET x == req[r] IN
    /\ At(r, "password", "tx")
    /\ password' = [password EXCEPT ![x.of] = x.password]
    /\ IF x.by = Nobody THEN Record(x.of, "unlocked") ELSE UNCHANGED lock
    /\ EndAll(r, x.of, Kept(x.of, x.sess, x.gen))
    /\ UNCHANGED <<active, window, faults>>

SwitchActive(r, p, on) ==
    /\ BeginOrRefuse(r, IF on THEN "activate" ELSE "deactivate", [Waiting EXCEPT !.of = p], active[p] # on, "tx")
    /\ UNCHANGED <<accountVars, lock, window, session, untold, faults>>

(* The hooks and the extension may veto.                                                         *)
DeactivateTx(r) ==
    LET p == req[r].of IN
    /\ At(r, "deactivate", "tx")
    /\ \/ active' = [active EXCEPT ![p] = FALSE] /\ EndAll(r, p, 0)
       \/ Answer(r, "refused") /\ UNCHANGED <<active, session, untold>>
    /\ UNCHANGED <<password, lock, window, faults>>

ActivateTx(r) ==
    LET p == req[r].of IN
    /\ At(r, "activate", "tx")
    /\ active' = [active EXCEPT ![p] = TRUE]
    /\ req' = [q \in Requests |->
                  IF q = r THEN Ended(req[q], "none")
                  ELSE IF req[q].at \in {"idle", "done"} THEN req[q]
                  ELSE [req[q] EXCEPT !.seen = @ \cup {p}]]
    /\ UNCHANGED <<password, lock, window, session, untold, faults>>

Unlock(r, p) ==
    /\ BeginOrRefuse(r, "unlock", [Waiting EXCEPT !.of = p], Locked(p), "tx")
    /\ UNCHANGED <<accountVars, lock, window, session, untold, faults>>

UnlockTx(r) ==
    /\ At(r, "unlock", "tx") /\ Record(req[r].of, "unlocked") /\ Answer(r, "none")
    /\ UNCHANGED <<accountVars, window, session, untold, faults>>

(* Users.RevokeSession; the history row comes before the fact is told.                           *)
RevokeSession(r, s, keep) ==
    /\ s # keep
    /\ BeginOrRefuse(r, "revoke", [Waiting EXCEPT !.sess = s, !.tell = {session[s].of}], Live(s), "log")
    /\ EndSessions(IF Live(s) THEN {s} ELSE {})
    /\ UNCHANGED <<accountVars, lock, window, faults>>

Log(r) ==
    /\ At(r, "revoke", "log") /\ Go(r, "tell")
    /\ UNCHANGED <<accountVars, lock, window, session, untold, faults>>

(* Users.RevokeSessions outside a transaction: the kept session is read, the account's own are   *)
(* ended, and then the ones it opened.                                                           *)
RevokeSessions(r, p, s, g) ==
    /\ Begin(r, "revoke_all", [Waiting EXCEPT !.of = p, !.sess = Kept(p, s, g), !.at = "own"])
    /\ UNCHANGED <<accountVars, lock, window, session, untold, faults>>

EndOwn(r) ==
    LET p == req[r].of IN
    /\ At(r, "revoke_all", "own")
    /\ EndSessions(Own(p, req[r].sess))
    /\ req' = [req EXCEPT ![r].at = "opened", ![r].tell = {p}]
    /\ UNCHANGED <<accountVars, lock, window, faults>>

EndOpened(r) ==
    LET S == OpenedBy(req[r].of) IN
    /\ At(r, "revoke_all", "opened")
    /\ EndSessions(S)
    /\ req' = [req EXCEPT ![r].at = "tell", ![r].tell = @ \cup Owners(S)]
    /\ UNCHANGED <<accountVars, lock, window, faults>>

(* Notices.SessionsEnded: who hears it forgets the account's tokens.                             *)
Tell(r) ==
    /\ req[r].at = "tell"
    /\ untold' = {t \in untold : session[t[1]].of \notin req[r].tell}
    /\ CASE req[r].op = "refresh" -> Go(r, "check")
         [] req[r].op = "return" -> Answer(r, "granted")
         [] OTHER -> Answer(r, "none")
    /\ UNCHANGED <<accountVars, lock, window, session, faults>>

(* A statement fails or the request's context ends: the handler returns the error.  Telling the  *)
(* Notices is no statement.                                                                      *)
Fail(r) ==
    /\ req[r].at \notin {"idle", "done", "tell"} /\ faults < MaxFaults
    /\ faults' = faults + 1 /\ Answer(r, "failed")
    /\ UNCHANGED <<accountVars, lock, window, session, untold>>

Less(n) == IF n = 0 THEN 0 ELSE n - 1

Tick ==
    /\ lockLeft' = [p \in People |-> Less(lockLeft[p])]
    /\ window' = [p \in People |-> [window[p] EXCEPT !.left = Less(@)]]
    /\ session' = [s \in DOMAIN session |-> [session[s] EXCEPT !.left = Less(@)]]
    /\ UNCHANGED <<accountVars, latest, req, untold, faults>>

-----------------------------------------------------------------------------
Tokens == UNION {{s} \X (0..session[s].gen) : s \in DOMAIN session}
NoToken == <<0, 0>>
(* The handler hands the caller's token on only when the account is the caller's own.            *)
OwnTokens(p) == {t \in Tokens : session[t[1]].of = p}

Ask(r) ==
    \/ \E p \in People :
          \/ \E pw \in Passwords : Login(r, p, pw) \/ \E t \in OwnTokens(p) \cup {NoToken} : SetPassword(r, p, pw, t[1], t[2])
          \/ Embed(r, p) \/ Unlock(r, p)
          \/ \E on \in BOOLEAN : SwitchActive(r, p, on)
          \/ \E a \in People : LoginAs(r, a, p)
          \/ \E t \in Tokens \cup {NoToken} : RevokeSessions(r, p, t[1], t[2])
          \/ \E t \in Tokens, pw \in Passwords : ChangePassword(r, p, pw, t[1], t[2])
    \/ \E t \in Tokens :
          \/ Refresh(r, t[1], t[2]) \/ Authenticate(r, t[1], t[2]) \/ Logout(r, t[1], t[2])
          \/ Return(r, t[1], t[2])
    \/ \E s \in DOMAIN session, keep \in DOMAIN session \cup {0} : RevokeSession(r, s, keep)

Continue(r) ==
    \/ ReadAccount(r) \/ CheckLock(r) \/ Compare(r) \/ RecordSignIn(r) \/ ReadTarget(r) \/ OpenSession(r)
    \/ Rotate(r) \/ CheckAccount(r) \/ CheckActor(r) \/ EndOne(r) \/ PasswordTx(r) \/ DeactivateTx(r)
    \/ ActivateTx(r) \/ UnlockTx(r) \/ Log(r) \/ EndOwn(r) \/ EndOpened(r) \/ Tell(r) \/ Fail(r)

Next == (\E r \in Requests : Ask(r) \/ Continue(r)) \/ Tick

Spec == Init /\ [][Next]_vars

-----------------------------------------------------------------------------
(* Rows and requests have the states the code gives them; a lock event is never kept beyond the  *)
(* After that LockedUntil reads.                                                                 *)
TypeOK ==
    /\ active \in [People -> BOOLEAN] /\ password \in [People -> Passwords]
    /\ \A p \in People : /\ Len(latest[p]) <= After /\ lockLeft[p] \in 0..For
                         /\ window[p].count \in 0..(Limit + Cardinality(Requests)) /\ window[p].left \in 0..Window
    /\ \A s \in DOMAIN session : session[s].of \in People /\ session[s].actor \in (People \cup {Nobody}) \ {session[s].of}
    /\ untold \subseteq Tokens /\ faults \in 0..MaxFaults

(* "Of two requests with one refresh token, one succeeds": Rotate checks the row again under its *)
(* lock.                                                                                         *)
RotatedOnce ==
    \A q, r \in Requests :
        req[q].swapped /\ req[r].swapped /\ req[q].sess = req[r].sess /\ req[q].gen = req[r].gen => q = r

(* A request is granted only for an account, and on behalf of an actor, that was active at some  *)
(* time since the request came: a session opened or left open while the account was being        *)
(* deactivated is of no use.                                                                     *)
GrantedWasActive ==
    \A r \in Requests : req[r].answer = "granted" => req[r].of \in req[r].seen /\ req[r].by \in req[r].seen \cup {Nobody}

(* A lock ends by running out, by a sign-in or by an unlock, never by attempts refused meanwhile *)
(* (Lock.LockedUntil reads lock events only).                                                    *)
LockKept ==
    [][\A p \in People : Locked(p) /\ ~Locked(p)' =>
          lockLeft'[p] = 0 \/ latest'[p][1] \in {"signed_in", "unlocked"}]_vars

(* "Every place that ends or rotates a session tells the Notices SessionsEnded": once every       *)
(* request was answered, and none by an error, whoever holds a token that stopped working was     *)
(* told, the owners of sessions opened by signing in as them included.                            *)
EndedIsTold ==
    (\A r \in Requests : req[r].at \in {"idle", "done"} /\ req[r].answer # "failed") => untold = {}

\* "Of two requests with one refresh token, one succeeds"; nothing is granted to or for an
\* account that was inactive all along; and "every place that ends or rotates a session
\* tells" its holder (Sessions.Rotate, Authenticator, Notices.SessionsEnded).
SessionsHold == RotatedOnce /\ GrantedWasActive /\ EndedIsTold
=============================================================================
