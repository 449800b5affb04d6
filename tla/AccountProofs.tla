---------------------------- MODULE AccountProofs ----------------------------
(***************************************************************************)
(* Proofs about an account: AccountAdmin (names stay apart and the history *)
(* explains them, for any forms, accounts and requests in flight) and      *)
(* EmailChange (guesses cost, codes are consumed once, addresses are       *)
(* proven and passwords counted, for any rules, requests and failures).    *)
(***************************************************************************)
EXTENDS AccountAdmin, EmailChange, FiniteSetTheorems, TLAPS

\* A history: what names a field of an account, and what the last of it says.
NamingIn(log, id, f) == {i \in 1..Len(log) : log[i].account = id /\ f \in DOMAIN log[i].after}
LastIn(log, id, f, v) ==
    \E i \in NamingIn(log, id, f) : (\A j \in NamingIn(log, id, f) : j <= i) /\ log[i].after[f] = v

\* A request: an idle one, or one that holds what was posted.
Shape(x) == x = [at |-> x.at, id |-> x.id, was |-> x.was, form |-> x.form, by |-> x.by]
Posted(x) ==
    /\ x.at \in {"diff", "free", "write"} => x.by \in {"create", "update", "profile"}
    /\ x.at \in {"diff", "free", "write"} /\ x.by \in {"create", "update"} => \E form \in Forms : x.form = {form}
    /\ x.at \in {"diff", "free", "write"} /\ x.by = "profile" => \E form \in OwnForms : x.form = {form}
    /\ x.at = "locale" => \E l : x.form = {[locale |-> l]}

\* The address and the login: what the indexes and the history are about.
Told2 == {"login", "email"}
Explained(id, f) == \A row \in accounts[id] : LastIn(changes, id, f, row[f])
AdminInv ==
    /\ accounts = [a \in AccountIds |-> accounts[a]]
    /\ \E S : changes \in Seq(S)
    /\ admins = [r \in AdminRequests |-> admins[r]]
    /\ \A r \in AdminRequests : Shape(admins[r]) /\ Posted(admins[r])
    /\ NamesApart
    /\ \A id \in AccountIds : \A f \in Told2 : Explained(id, f)

-----------------------------------------------------------------------------
(* The history.                                                              *)

Begins(log, next) == \A i \in 1..Len(log) : next[i] = log[i]

LEMMA Appended ==
    ASSUME NEW S, NEW log \in Seq(S), NEW e, NEW next, next = Append(log, e)
    PROVE  Len(next) = Len(log) + 1 /\ next[Len(log) + 1] = e /\ Len(log) \in Nat /\ Begins(log, next)
<1>1. PICK T : T = S \cup {e}
    BY Zenon
<1>2. e \in T /\ S \subseteq T
    BY <1>1, Zenon
<1>3. log \in Seq(T)
    BY <1>2
<1>4. Len(next) = Len(log) + 1 /\ next[Len(log) + 1] = e /\ Len(log) \in Nat
    BY <1>2, <1>3
<1>5. Begins(log, next)
    BY <1>2, <1>3 DEF Begins
<1>6. QED
    BY <1>4, <1>5, Zenon

LEMMA LastStays ==
    ASSUME NEW S, NEW log \in Seq(S), NEW e, NEW next, next = Append(log, e), NEW id, NEW f, NEW v,
           LastIn(log, id, f, v), e.account # id \/ f \notin DOMAIN e.after
    PROVE  LastIn(next, id, f, v)
<1>1. Len(next) = Len(log) + 1 /\ next[Len(log) + 1] = e /\ Len(log) \in Nat /\ Begins(log, next)
    BY Appended, Zenon
<1>2. NamingIn(next, id, f) = NamingIn(log, id, f)
    <2>1. ASSUME NEW i \in 1..Len(next) PROVE i \in 1..Len(log) \/ i = Len(log) + 1
        BY <1>1
    <2>2. \A i \in 1..Len(log) : i \in 1..Len(next)
        BY <1>1
    <2>3. QED
        BY <1>1, <2>1, <2>2, Zenon DEF NamingIn, Begins
<1>3. \A i \in NamingIn(log, id, f) : next[i] = log[i]
    BY <1>1, Zenon DEF NamingIn, Begins
<1>4. QED
    BY <1>2, <1>3, Zenon DEF LastIn

LEMMA LastIsNew ==
    ASSUME NEW S, NEW log \in Seq(S), NEW e, NEW next, next = Append(log, e), NEW f, f \in DOMAIN e.after
    PROVE  LastIn(next, e.account, f, e.after[f])
<1>1. Len(next) = Len(log) + 1 /\ next[Len(log) + 1] = e /\ Len(log) \in Nat
    BY Appended, Zenon
<1>2. PICK n : n = Len(log) + 1
    BY Zenon
<1>3. n \in NamingIn(next, e.account, f) /\ \A j \in NamingIn(next, e.account, f) : j <= n
    BY <1>1, <1>2 DEF NamingIn
<1>4. next[n].after[f] = e.after[f]
    BY <1>1, <1>2, Zenon
<1>5. QED
    BY <1>3, <1>4, Zenon DEF LastIn

\* What HistorySays reads is the last row that names the field.
LEMMA SaysLast ==
    ASSUME NEW S, changes \in Seq(S), NEW id, NEW f, Explained(id, f)
    PROVE  HistorySays(id, f)
<1>1. DOMAIN changes = 1..Len(changes) /\ Len(changes) \in Nat
    OBVIOUS
<1>2. Naming(id, f) = NamingIn(changes, id, f)
    BY <1>1, Zenon DEF Naming, NamingIn
<1>3. SUFFICES ASSUME NEW row \in accounts[id]
               PROVE  /\ Naming(id, f) # {}
                      /\ changes[CHOOSE i \in Naming(id, f) : \A j \in Naming(id, f) : j <= i].after[f] = row[f]
    BY Zenon DEF HistorySays
<1>4. PICK N : N = Naming(id, f)
    BY Zenon
<1>5. N \in SUBSET Nat
    BY <1>1, <1>2, <1>4 DEF NamingIn
<1>6. PICK i \in N : (\A j \in N : j <= i) /\ changes[i].after[f] = row[f]
    BY <1>2, <1>3, <1>4, Zenon DEF Explained, LastIn
<1>7. PICK k : k = CHOOSE m \in N : \A j \in N : j <= m
    BY Zenon
<1>8. k \in N /\ \A j \in N : j <= k
    BY <1>6, <1>7, Zenon
<1>9. k = i
    BY <1>5, <1>6, <1>8
<1>10. QED
    BY <1>4, <1>6, <1>7, <1>9, Zenon

-----------------------------------------------------------------------------
(* Writes.                                                                   *)

Kept == accounts' = [a \in AccountIds |-> accounts'[a]] /\ NamesApart' /\ (\A id \in AccountIds : \A f \in Told2 : Explained(id, f)')

LEMMA SeqGrows == ASSUME NEW S, NEW log \in Seq(S), NEW e PROVE \E T : Append(log, e) \in Seq(T)
<1>1. PICK T : T = S \cup {e}
    BY Zenon
<1>2. e \in T /\ S \subseteq T
    BY <1>1, Zenon
<1>3. log \in Seq(T)
    BY <1>2
<1>4. Append(log, e) \in Seq(T)
    BY <1>2, <1>3
<1>5. QED
    BY <1>4, Zenon

\* Columns are written that the indexes accept, and the history is told of a login or an
\* address among them.
LEMMA UpdateStep ==
    ASSUME AdminInv, NEW id, NEW set, ~refused(set, id), StoreUpdate(id, set),
           \/ changes' = changes /\ \A f \in Told2 : f \notin DOMAIN set
           \/ \E e : /\ changes' = Append(changes, e) /\ e.account = id
                     /\ \A f \in Told2 : f \in DOMAIN set <=> f \in DOMAIN e.after
                     /\ \A f \in Told2 : f \in DOMAIN set => e.after[f] = set[f]
    PROVE  Kept
<1> DEFINE Put(row) == [f \in Fields |-> IF f \in DOMAIN set THEN set[f] ELSE row[f]]
<1>1. /\ accounts' = [a \in AccountIds |-> accounts'[a]]
      /\ \A a \in AccountIds : a # id => accounts'[a] = accounts[a]
      /\ id \in AccountIds => accounts'[id] = {Put(row) : row \in accounts[id]}
    BY Zenon DEF StoreUpdate, AdminInv
<1>2. \A row : \A f \in Told2 : Put(row)[f] = IF f \in DOMAIN set THEN set[f] ELSE row[f]
    BY Zenon DEF Told2, Fields
<1> HIDE DEF Put
<1>3. NamesApart'
    <2> SUFFICES ASSUME NEW a \in AccountIds, NEW b \in AccountIds, a # b, NEW x \in accounts'[a], NEW y \in accounts'[b]
                 PROVE  x["login"] # y["login"] /\ x["email"] # y["email"]
        BY DEF NamesApart
    <2>1. \A u \in accounts[a], w \in accounts[b] : u["login"] # w["login"] /\ u["email"] # w["email"]
        BY DEF AdminInv, NamesApart
    <2>2. ASSUME NEW c \in AccountIds, c # id, NEW u \in accounts[c], NEW f \in Told2, f \in DOMAIN set PROVE u[f] # set[f]
        BY <2>2, Zenon DEF refused, loginTaken, emailTaken, Told2
    <2>3. CASE a = id
        <3>1. PICK u \in accounts[a] : x = Put(u)
            BY <1>1, <2>3, Zenon
        <3>2. y \in accounts[b] /\ b # id
            BY <1>1, <2>3, Zenon
        <3>3. ASSUME NEW f \in Told2, u[f] # y[f] PROVE x[f] # y[f]
            <4>1. CASE f \in DOMAIN set
                <5>1. x[f] = set[f]
                    BY <1>2, <3>1, <4>1, Zenon
                <5>2. y[f] # set[f]
                    BY ONLY b \in AccountIds, <2>2, <3>2, <3>3, <4>1, Zenon
                <5>3. QED
                    BY <5>1, <5>2, Zenon
            <4>2. CASE f \notin DOMAIN set
                BY <1>2, <3>1, <3>3, <4>2, Zenon
            <4>3. QED
                BY <4>1, <4>2, Zenon
        <3>4. QED
            BY <2>1, <3>1, <3>2, <3>3, Zenon DEF Told2
    <2>4. CASE b = id
        <3>1. PICK u \in accounts[b] : y = Put(u)
            BY <1>1, <2>4, Zenon
        <3>2. x \in accounts[a] /\ a # id
            BY <1>1, <2>4, Zenon
        <3>3. ASSUME NEW f \in Told2, u[f] # x[f] PROVE y[f] # x[f]
            <4>1. CASE f \in DOMAIN set
                <5>1. y[f] = set[f]
                    BY <1>2, <3>1, <4>1, Zenon
                <5>2. x[f] # set[f]
                    BY ONLY a \in AccountIds, <2>2, <3>2, <3>3, <4>1, Zenon
                <5>3. QED
                    BY <5>1, <5>2, Zenon
            <4>2. CASE f \notin DOMAIN set
                BY <1>2, <3>1, <3>3, <4>2, Zenon
            <4>3. QED
                BY <4>1, <4>2, Zenon
        <3>4. QED
            BY <2>1, <3>1, <3>2, <3>3, Zenon DEF Told2
    <2>5. CASE a # id /\ b # id
        BY <1>1, <2>1, <2>5, Zenon
    <2>6. QED
        BY <2>3, <2>4, <2>5, Zenon
<1>4. ASSUME NEW a \in AccountIds, NEW f \in Told2, NEW y \in accounts'[a] PROVE LastIn(changes', a, f, y[f])
    <2>1. PICK S : changes \in Seq(S)
        BY Zenon DEF AdminInv
    <2>2. \A row \in accounts[a] : LastIn(changes, a, f, row[f])
        BY Zenon DEF AdminInv, Explained
    <2>3. CASE a = id /\ f \in DOMAIN set
        <3>1. PICK e : changes' = Append(changes, e) /\ e.account = id /\ f \in DOMAIN e.after /\ e.after[f] = set[f]
            BY <2>3, Zenon
        <3>2. y[f] = set[f]
            <4>1. PICK u \in accounts[id] : y = Put(u)
                BY <1>1, <1>4, <2>3, Zenon
            <4>2. QED
                BY <1>2, <1>4, <2>3, <4>1, Zenon
        <3>3. QED
            BY <2>1, <2>3, <3>1, <3>2, LastIsNew, Zenon
    <2>4. CASE a # id \/ f \notin DOMAIN set
        <3>1. PICK row \in accounts[a] : y[f] = row[f]
            <4>1. CASE a = id
                <5>1. PICK u \in accounts[a] : y = Put(u)
                    BY <1>1, <1>4, <4>1, Zenon
                <5>2. QED
                    BY <1>2, <1>4, <2>4, <4>1, <5>1, Zenon
            <4>2. CASE a # id
                BY <1>1, <1>4, <4>2, Zenon
            <4>3. QED
                BY <4>1, <4>2, Zenon
        <3>2. LastIn(changes, a, f, y[f])
            BY <2>2, <3>1, Zenon
        <3>3. CASE changes' = changes
            BY <3>2, <3>3, Zenon
        <3>4. ASSUME NEW e, changes' = Append(changes, e), e.account = id, f \in DOMAIN set <=> f \in DOMAIN e.after
              PROVE  LastIn(changes', a, f, y[f])
            <4>1. e.account # a \/ f \notin DOMAIN e.after
                BY <2>4, <3>4, Zenon
            <4>2. QED
                BY <2>1, <3>2, <3>4, <4>1, LastStays, Zenon
        <3>5. QED
            BY <3>3, <3>4, Zenon
    <2>5. QED
        BY <2>3, <2>4, Zenon
<1>5. QED
    BY <1>1, <1>3, <1>4, Zenon DEF Kept, Explained

\* The account a form makes has names no other has, and the history says so.
LEMMA CreateStep ==
    ASSUME AdminInv, NEW new, NEW form \in Forms, ~refused(form, 0), 0 \notin AccountIds,
           accounts' = [accounts EXCEPT ![new] = {form}],
           NEW e, changes' = Append(changes, e), e.account = new, e.after = form
    PROVE  Kept
<1>1. \A f \in Told2 : f \in DOMAIN form
    BY AccountAdminAssumption DEF Told2, Fields
<1>2. /\ accounts' = [a \in AccountIds |-> accounts'[a]]
      /\ \A a \in AccountIds : a # new => accounts'[a] = accounts[a]
      /\ new \in AccountIds => accounts'[new] = {form}
    BY Zenon DEF AdminInv
<1>3. NamesApart'
    <2> SUFFICES ASSUME NEW a \in AccountIds, NEW b \in AccountIds, a # b, NEW x \in accounts'[a], NEW y \in accounts'[b]
                 PROVE  x["login"] # y["login"] /\ x["email"] # y["email"]
        BY DEF NamesApart
    <2>1. \A u \in accounts[a], w \in accounts[b] : u["login"] # w["login"] /\ u["email"] # w["email"]
        BY DEF AdminInv, NamesApart
    <2>2. ASSUME NEW c \in AccountIds, NEW u \in accounts[c] PROVE u["login"] # form["login"] /\ u["email"] # form["email"]
        BY <1>1, <2>2, Zenon DEF refused, loginTaken, emailTaken, Told2
    <2>3. CASE a = new
        BY <1>2, <2>2, <2>3
    <2>4. CASE b = new
        BY <1>2, <2>2, <2>4
    <2>5. CASE a # new /\ b # new
        BY <1>2, <2>1, <2>5, Zenon
    <2>6. QED
        BY <2>3, <2>4, <2>5, Zenon
<1>4. ASSUME NEW a \in AccountIds, NEW f \in Told2, NEW y \in accounts'[a] PROVE LastIn(changes', a, f, y[f])
    <2>1. PICK S : changes \in Seq(S)
        BY Zenon DEF AdminInv
    <2>2. CASE a = new
        <3>1. y = form /\ f \in DOMAIN e.after
            BY <1>1, <1>2, <1>4, <2>2, Zenon
        <3>2. QED
            BY <2>1, <2>2, <3>1, LastIsNew, Zenon
    <2>3. CASE a # new
        <3>1. LastIn(changes, a, f, y[f]) /\ e.account # a
            BY <1>2, <1>4, <2>3, Zenon DEF AdminInv, Explained
        <3>2. QED
            BY <2>1, <3>1, LastStays, Zenon
    <2>4. QED
        BY <2>2, <2>3, Zenon
<1>5. QED
    BY <1>2, <1>3, <1>4, Zenon DEF Kept, Explained

-----------------------------------------------------------------------------
(* Requests.                                                                 *)

\* A request goes on, and everything else stays as it was.
LEMMA GoesStep ==
    ASSUME AdminInv, NEW r \in AdminRequests, NEW next, Goes(r, next), Shape(next), Posted(next)
    PROVE  /\ admins' = [q \in AdminRequests |-> admins'[q]]
           /\ \A q \in AdminRequests : Shape(admins'[q]) /\ Posted(admins'[q])
<1>1. admins = [q \in AdminRequests |-> admins[q]] /\ \A q \in AdminRequests : Shape(admins[q]) /\ Posted(admins[q])
    BY Zenon DEF AdminInv
<1>2. admins' = [admins EXCEPT ![r] = next]
    BY Zenon DEF Goes
<1>3. /\ admins' = [q \in AdminRequests |-> admins'[q]]
      /\ admins'[r] = next /\ \A q \in AdminRequests : q # r => admins'[q] = admins[q]
    BY <1>1, <1>2, Zenon
<1>4. QED
    BY <1>1, <1>3, Zenon

LEMMA IdleIs == Shape(IdleAdmin) /\ Posted(IdleAdmin)
BY Zenon DEF Shape, Posted, IdleAdmin

\* A step that leaves the tables alone.
LEMMA QuietStep ==
    ASSUME AdminInv, UNCHANGED <<accounts, changes>>, NEW r \in AdminRequests, NEW next, Goes(r, next), Shape(next), Posted(next)
    PROVE  AdminInv'
<1>1. /\ admins' = [q \in AdminRequests |-> admins'[q]]
      /\ \A q \in AdminRequests : Shape(admins'[q]) /\ Posted(admins'[q])
    BY GoesStep, Zenon
<1>2. accounts' = accounts /\ changes' = changes
    BY Zenon
<1>3. QED
    <2>1. NamesApart'
        BY <1>2 DEF AdminInv, NamesApart
    <2>2. \A id \in AccountIds : \A f \in Told2 : Explained(id, f)'
        BY <1>2, Zenon DEF AdminInv, Explained
    <2>3. accounts' = [a \in AccountIds |-> accounts'[a]] /\ \E S : changes' \in Seq(S)
        BY <1>2, Zenon DEF AdminInv
    <2>4. QED
        BY <1>1, <2>1, <2>2, <2>3, Zenon DEF AdminInv

\* A step that writes and ends the request.
LEMMA WrittenStep ==
    ASSUME AdminInv, Kept, NEW r \in AdminRequests, Ends(r), changes' = changes \/ \E e : changes' = Append(changes, e)
    PROVE  AdminInv'
<1>1. /\ admins' = [q \in AdminRequests |-> admins'[q]]
      /\ \A q \in AdminRequests : Shape(admins'[q]) /\ Posted(admins'[q])
    BY IdleIs, GoesStep, Zenon DEF Ends
<1>2. \E S : changes' \in Seq(S)
    <2>1. PICK S : changes \in Seq(S)
        BY Zenon DEF AdminInv
    <2>2. CASE changes' = changes
        BY <2>1, <2>2, Zenon
    <2>3. CASE \E e : changes' = Append(changes, e)
        <3>1. PICK e : changes' = Append(changes, e)
            BY <2>3, Zenon
        <3>2. \E T : Append(changes, e) \in Seq(T)
            BY ONLY <2>1, SeqGrows, Zenon
        <3>3. QED
            BY <3>1, <3>2, Zenon
    <2>4. QED
        BY <2>2, <2>3, Zenon
<1>3. QED
    <2>1. accounts' = [a \in AccountIds |-> accounts'[a]] /\ NamesApart' /\ \A id \in AccountIds : \A f \in Told2 : Explained(id, f)'
        BY Zenon DEF Kept
    <2>2. QED
        BY <1>1, <1>2, <2>1, Zenon DEF AdminInv

LEMMA FormIs ==
    ASSUME AdminInv, NEW r \in AdminRequests, admins[r].at \in {"diff", "free", "write"}
    PROVE  /\ admins[r].by \in {"create", "update", "profile"}
           /\ admins[r].by \in {"create", "update"} => Form(r) \in Forms /\ admins[r].form = {Form(r)}
           /\ admins[r].by = "profile" => Form(r) \in OwnForms /\ admins[r].form = {Form(r)}
<1>1. Posted(admins[r])
    BY Zenon DEF AdminInv
<1>2. ASSUME NEW form, admins[r].form = {form} PROVE Form(r) = form
    BY <1>2, Zenon DEF Form
<1>3. QED
    BY <1>1, <1>2, Zenon DEF Posted

LEMMA StartStep ==
    ASSUME AdminInv, NEW r \in AdminRequests, NEW next, Starts(r, next), Shape(next), Posted(next)
    PROVE  AdminInv'
<1>1. Goes(r, next) /\ UNCHANGED <<accounts, changes>>
    BY Zenon DEF Starts
<1>2. QED
    BY <1>1, QuietStep, Zenon

LEMMA CreateUserStep == ASSUME AdminInv, NEW r \in AdminRequests, NEW form \in Forms, createUser(r, form) PROVE AdminInv'
<1>1. PICK next : next = [at |-> "free", id |-> 0, was |-> {}, form |-> {form}, by |-> "create"]
    BY Zenon
<1>2. Shape(next) /\ Posted(next)
    BY <1>1, Zenon DEF Shape, Posted
<1>3. Starts(r, next)
    BY <1>1, Zenon DEF createUser
<1>4. QED
    BY <1>2, <1>3, StartStep, Zenon

LEMMA UpdateUserStep ==
    ASSUME AdminInv, NEW r \in AdminRequests, NEW id, NEW form \in Forms, updateUser(r, id, form)
    PROVE  AdminInv'
<1>1. PICK next : next = [at |-> "diff", id |-> id, was |-> accounts[id], form |-> {form}, by |-> "update"]
    BY Zenon
<1>2. Shape(next) /\ Posted(next)
    BY <1>1, Zenon DEF Shape, Posted
<1>3. Starts(r, next)
    BY <1>1, Zenon DEF updateUser
<1>4. QED
    BY <1>2, <1>3, StartStep, Zenon

LEMMA UpdateProfileStep ==
    ASSUME AdminInv, NEW r \in AdminRequests, NEW id, NEW form \in OwnForms, updateProfile(r, id, form)
    PROVE  AdminInv'
<1>1. PICK next : next = [at |-> "diff", id |-> id, was |-> accounts[id], form |-> {form}, by |-> "profile"]
    BY Zenon
<1>2. Shape(next) /\ Posted(next)
    BY <1>1, Zenon DEF Shape, Posted
<1>3. Starts(r, next)
    BY <1>1, Zenon DEF updateProfile
<1>4. QED
    BY <1>2, <1>3, StartStep, Zenon

LEMMA ChangeLocaleStep ==
    ASSUME AdminInv, NEW r \in AdminRequests, NEW id, NEW l, changeLocale(r, id, l)
    PROVE  AdminInv'
<1>1. PICK next : next = [at |-> "locale", id |-> id, was |-> {}, form |-> {[locale |-> l]}, by |-> ""]
    BY Zenon
<1>2. Shape(next) /\ Posted(next)
    BY <1>1, Zenon DEF Shape, Posted
<1>3. Starts(r, next)
    BY <1>1, Zenon DEF changeLocale
<1>4. QED
    BY <1>2, <1>3, StartStep, Zenon

\* A request that goes on to ask about the address, or to write.
LEMMA OnStep ==
    ASSUME AdminInv, NEW r \in AdminRequests, admins[r].at \in {"diff", "free"}, NEW at \in {"free", "write"},
           Goes(r, [admins[r] EXCEPT !.at = at]), UNCHANGED <<accounts, changes>>
    PROVE  AdminInv'
<1>1. PICK x, next : x = admins[r] /\ next = [x EXCEPT !.at = at]
    BY Zenon
<1>2. Shape(x) /\ Posted(x) /\ x.at \in {"diff", "free"}
    BY <1>1, Zenon DEF AdminInv
<1>3. /\ next.at = at /\ next.id = x.id /\ next.was = x.was /\ next.form = x.form /\ next.by = x.by
      /\ next = [at |-> at, id |-> x.id, was |-> x.was, form |-> x.form, by |-> x.by]
    BY <1>1, <1>2, Zenon DEF Shape
<1>4. Shape(next)
    BY <1>3, Zenon DEF Shape
<1>5. Posted(next)
    BY <1>2, <1>3, Zenon DEF Posted
<1>6. Goes(r, next)
    BY <1>1, Zenon
<1>7. QED
    BY <1>4, <1>5, <1>6, QuietStep, Zenon

LEMMA EndStep ==
    ASSUME AdminInv, NEW r \in AdminRequests, Ends(r), UNCHANGED <<accounts, changes>>
    PROVE  AdminInv'
BY IdleIs, QuietStep, Zenon DEF Ends

LEMMA DiffersStep == ASSUME AdminInv, NEW r \in AdminRequests, Differs(r) PROVE AdminInv'
<1>1. admins[r].at = "diff" /\ UNCHANGED <<accounts, changes>>
    BY Zenon DEF Differs
<1>2. Ends(r) \/ \E at \in {"free", "write"} : Goes(r, [admins[r] EXCEPT !.at = at])
    BY Zenon DEF Differs
<1>3. QED
    BY <1>1, <1>2, EndStep, OnStep, Zenon

LEMMA EmailFreeStep == ASSUME AdminInv, NEW r \in AdminRequests, emailFree(r) PROVE AdminInv'
<1>1. admins[r].at = "free" /\ UNCHANGED <<accounts, changes>>
    BY Zenon DEF emailFree
<1>2. Ends(r) \/ \E at \in {"free", "write"} : Goes(r, [admins[r] EXCEPT !.at = at])
    BY Zenon DEF emailFree
<1>3. QED
    BY <1>1, <1>2, EndStep, OnStep, Zenon

LEMMA RefusedStep == ASSUME AdminInv, NEW r \in AdminRequests, Refused(r) PROVE AdminInv'
<1>1. Ends(r) /\ UNCHANGED <<accounts, changes>>
    BY Zenon DEF Refused
<1>2. QED
    BY <1>1, EndStep, Zenon

\* What an update writes of the login and the address is what it tells.
LEMMA WrittenIsTold ==
    ASSUME AdminInv, NEW r \in AdminRequests, admins[r].at = "write", admins[r].by \in {"update", "profile"}
    PROVE  /\ \A f \in Told2 : f \in DOMAIN Written(r) <=> f \in DOMAIN Told(r)
           /\ \A f \in Told2 : f \in DOMAIN Written(r) => Told(r)[f] = Written(r)[f]
<1>1. Told(r) = diff(Was(r), Form(r))
    BY Zenon DEF Told
<1>2. CASE admins[r].by = "update"
    <2>1. Written(r) = diff(Was(r), Form(r))
        BY <1>2, Zenon DEF Written
    <2>2. QED
        BY <1>1, <2>1, Zenon
<1>3. CASE admins[r].by = "profile"
    <2>1. Written(r) = Form(r)
        BY <1>3, Zenon DEF Written
    <2>2. PICK form : form = Form(r) /\ form \in OwnForms
        BY <1>3, FormIs, Zenon
    <2>3. DOMAIN form = {"name", "phone"}
        BY <2>2, AccountAdminAssumption, Zenon
    <2>4. \A f \in Told2 : f \notin DOMAIN form
        BY <2>3, Zenon DEF Told2
    <2>5. PICK told : told = diff(Was(r), form)
        BY Zenon
    <2>6. DOMAIN told \subseteq DOMAIN form
        BY <2>5, Zenon DEF diff
    <2>7. QED
        BY <1>1, <2>1, <2>2, <2>4, <2>5, <2>6, Zenon
<1>4. QED
    BY <1>2, <1>3, Zenon

LEMMA UpdateWritesStep == ASSUME AdminInv, NEW r \in AdminRequests, UpdateWrites(r) PROVE AdminInv'
<1>1. /\ admins[r].at = "write" /\ admins[r].by \in {"update", "profile"} /\ Ends(r)
      /\ ~refused(Written(r), admins[r].id) /\ StoreUpdate(admins[r].id, Written(r))
    BY Zenon DEF UpdateWrites
<1>2. PICK set, told, id : set = Written(r) /\ told = Told(r) /\ id = admins[r].id
    BY Zenon
<1>3. /\ \A f \in Told2 : f \in DOMAIN set <=> f \in DOMAIN told
      /\ \A f \in Told2 : f \in DOMAIN set => told[f] = set[f]
    BY <1>1, <1>2, WrittenIsTold, Zenon
<1>4. ~refused(set, id) /\ StoreUpdate(id, set)
    BY <1>1, <1>2, Zenon
<1>5. CASE DOMAIN told = {} /\ changes' = changes
    <2>1. \A f \in Told2 : f \notin DOMAIN set
        BY <1>3, <1>5, Zenon
    <2>2. Kept
        BY <1>4, <1>5, <2>1, UpdateStep, Zenon
    <2>3. QED
        BY <1>1, <1>5, <2>2, WrittenStep, Zenon
<1>6. CASE RecordChange(id, admins[r].by, told)
    <2>1. PICK e : e = [account |-> id, action |-> admins[r].by, after |-> told]
        BY Zenon
    <2>2. e.account = id /\ e.after = told
        BY <2>1, Zenon
    <2>3. changes' = Append(changes, e)
        BY <1>6, <2>1, Zenon DEF RecordChange
    <2>4. Kept
        BY <1>3, <1>4, <2>2, <2>3, UpdateStep, Zenon
    <2>5. QED
        BY <1>1, <2>3, <2>4, WrittenStep, Zenon
<1>7. (DOMAIN told = {} /\ changes' = changes) \/ RecordChange(id, admins[r].by, told)
    BY <1>2, Zenon DEF UpdateWrites
<1>8. QED
    BY <1>5, <1>6, <1>7, Zenon

LEMMA CreateWritesStep == ASSUME AdminInv, NEW r \in AdminRequests, CreateWrites(r) PROVE AdminInv'
<1>1. /\ admins[r].at = "write" /\ admins[r].by = "create" /\ Ends(r)
      /\ ~refused(Form(r), 0) /\ StoreCreate(Form(r)) /\ RecordChange(nextId, "create", Told(r))
    BY Zenon DEF CreateWrites
<1>2. PICK form, new : form = Form(r) /\ new = nextId
    BY Zenon
<1>3. Told(r) = form
    BY <1>1, <1>2, Zenon DEF Told
<1>4. form \in Forms
    BY <1>1, <1>2, FormIs, Zenon
<1>5. PICK e : e = [account |-> new, action |-> "create", after |-> form]
    BY Zenon
<1>6. e.account = new /\ e.after = form
    BY <1>5, Zenon
<1>7. changes' = Append(changes, e)
    BY <1>1, <1>2, <1>3, <1>5, Zenon DEF RecordChange
<1>8. accounts' = [accounts EXCEPT ![new] = {form}]
    BY <1>1, <1>2, Zenon DEF StoreCreate
<1>9. 0 \notin AccountIds
    BY AccountAdminAssumption, Zenon
<1>10. ~refused(form, 0)
    BY <1>1, <1>2, Zenon
<1>11. Kept
    BY <1>4, <1>6, <1>7, <1>8, <1>9, <1>10, CreateStep, Zenon
<1>12. QED
    BY <1>1, <1>7, <1>11, WrittenStep, Zenon

LEMMA SetLocaleStep == ASSUME AdminInv, NEW r \in AdminRequests, SetLocale(r) PROVE AdminInv'
<1>1. admins[r].at = "locale" /\ Ends(r) /\ StoreUpdate(admins[r].id, Form(r)) /\ changes' = changes
    BY Zenon DEF SetLocale
<1>2. PICK l : admins[r].form = {[locale |-> l]}
    BY <1>1, Zenon DEF AdminInv, Posted
<1>3. PICK set : set = [locale |-> l]
    BY Zenon
<1>4. Form(r) = set
    BY <1>2, <1>3, Zenon DEF Form
<1>5. \A f \in Told2 : f \notin DOMAIN set
    BY <1>3, Zenon DEF Told2
<1>6. ~refused(set, admins[r].id)
    BY <1>5, Zenon DEF refused, Told2
<1>7. StoreUpdate(admins[r].id, set)
    BY <1>1, <1>4, Zenon
<1>8. Kept
    BY <1>1, <1>5, <1>6, <1>7, UpdateStep, Zenon
<1>9. QED
    BY <1>1, <1>8, WrittenStep, Zenon

-----------------------------------------------------------------------------
(* Every behaviour.                                                          *)

LEMMA AdminStarts == AdminInit => AdminInv
<1> SUFFICES ASSUME AdminInit PROVE AdminInv
    BY Zenon
<1>1. /\ accounts = [a \in AccountIds |-> accounts[a]]
      /\ \A a \in AccountIds : accounts[a] = {}
    BY Zenon DEF AdminInit
<1>2. changes \in Seq({})
    BY DEF AdminInit
<1>3. /\ admins = [r \in AdminRequests |-> admins[r]]
      /\ \A r \in AdminRequests : admins[r] = IdleAdmin
    BY Zenon DEF AdminInit
<1>4. \A r \in AdminRequests : Shape(admins[r]) /\ Posted(admins[r])
    BY <1>3, IdleIs, Zenon
<1>5. NamesApart
    BY <1>1, Zenon DEF NamesApart
<1>6. \A id \in AccountIds : \A f \in Told2 : Explained(id, f)
    BY <1>1, Zenon DEF Explained
<1>7. QED
    BY <1>1, <1>2, <1>3, <1>4, <1>5, <1>6, Zenon DEF AdminInv

LEMMA AdminIdles == ASSUME AdminInv, UNCHANGED aaVars PROVE AdminInv'
<1>1. accounts' = accounts /\ changes' = changes /\ admins' = admins
    BY Zenon DEF aaVars
<1>2. NamesApart'
    BY <1>1 DEF AdminInv, NamesApart
<1>3. \A id \in AccountIds : \A f \in Told2 : Explained(id, f)'
    BY <1>1, Zenon DEF AdminInv, Explained
<1>4. /\ accounts' = [a \in AccountIds |-> accounts'[a]]
      /\ \E S : changes' \in Seq(S)
      /\ admins' = [r \in AdminRequests |-> admins'[r]]
    BY <1>1, Zenon DEF AdminInv
<1>5. \A r \in AdminRequests : Shape(admins'[r]) /\ Posted(admins'[r])
    BY <1>1, Zenon DEF AdminInv
<1>6. QED
    BY <1>2, <1>3, <1>4, <1>5, Zenon DEF AdminInv

LEMMA AdminSteps == ASSUME AdminInv, [AdminNext]_aaVars PROVE AdminInv'
<1>1. CASE UNCHANGED aaVars
    BY <1>1, AdminIdles, Zenon
<1>2. CASE AdminNext
    <2>1. PICK r \in AdminRequests :
            \/ \E form \in Forms : createUser(r, form)
            \/ \E id \in AccountIds :
                 \/ \E form \in Forms : updateUser(r, id, form)
                 \/ \E form \in OwnForms : updateProfile(r, id, form)
                 \/ \E locale \in Locales : changeLocale(r, id, locale)
            \/ Differs(r) \/ emailFree(r)
            \/ UpdateWrites(r) \/ CreateWrites(r) \/ Refused(r) \/ SetLocale(r)
        BY <1>2, Zenon DEF AdminNext
    <2>2. (\E form \in Forms : createUser(r, form)) => AdminInv'
        BY CreateUserStep, Zenon
    <2>3. ASSUME NEW id \in AccountIds
          PROVE  /\ (\E form \in Forms : updateUser(r, id, form)) => AdminInv'
                 /\ (\E form \in OwnForms : updateProfile(r, id, form)) => AdminInv'
                 /\ (\E locale \in Locales : changeLocale(r, id, locale)) => AdminInv'
        BY UpdateUserStep, UpdateProfileStep, ChangeLocaleStep, Zenon
    <2>4. (Differs(r) => AdminInv') /\ (emailFree(r) => AdminInv') /\ (Refused(r) => AdminInv')
        BY DiffersStep, EmailFreeStep, RefusedStep, Zenon
    <2>5. (UpdateWrites(r) => AdminInv') /\ (CreateWrites(r) => AdminInv') /\ (SetLocale(r) => AdminInv')
        BY UpdateWritesStep, CreateWritesStep, SetLocaleStep, Zenon
    <2>6. QED
        BY <2>1, <2>2, <2>3, <2>4, <2>5, Zenon
<1>3. QED
    BY <1>1, <1>2, Zenon

LEMMA AdminTells == AdminInv => AccountsTold
<1> SUFFICES ASSUME AdminInv PROVE AccountsTold
    BY Zenon
<1>1. PICK S : changes \in Seq(S)
    BY Zenon DEF AdminInv
<1>2. ASSUME NEW id \in AccountIds, NEW f \in Told2 PROVE HistorySays(id, f)
    <2>1. Explained(id, f)
        BY Zenon DEF AdminInv
    <2>2. QED
        BY <1>1, <2>1, SaysLast, Zenon
<1>3. HistoryTells
    BY <1>2, Zenon DEF HistoryTells, Told2
<1>4. QED
    BY <1>3, Zenon DEF AccountsTold, AdminInv

\* Whatever forms are posted at once, by administrators and by the people themselves, no two
\* accounts come to share a login or an address, and the last row of the history that names
\* either is what the account has now (Admin.Create, Admin.Update, Profile.UpdateDetails,
\* Users.ChangeLocale).
THEOREM AccountsAreTold == AdminSpec => []AccountsTold
<1>1. AdminInit => AdminInv
    BY AdminStarts, Zenon
<1>2. AdminInv /\ [AdminNext]_aaVars => AdminInv'
    BY AdminSteps, Zenon
<1>3. AdminInv => AccountsTold
    BY AdminTells, Zenon
<1>4. QED
    BY <1>1, <1>2, <1>3, PTL DEF AdminSpec

-----------------------------------------------------------------------------
(* The change of an address.                                                 *)

Parts == {"op", "at", "mail", "address", "right", "guess", "round", "when", "read", "code", "attempts", "won", "answer"}
Whole(x) == x = [p \in Parts |-> x[p]]
RowParts == {"target", "created", "expires", "attempts", "state", "sent"}
WholeRow(row) == row = [p \in RowParts |-> row[p]] /\ row.attempts \in Nat

\* Where a request is while Reauth.Confirm runs.
Reauth == {"count", "counting", "clear", "clearing"}

\* A request over the table: what it answered, which code it consumed, and what it typed.
Runs(x) ==
    /\ x.answer = "mismatch" => x.at = "done"
    /\ x.won => x.at \in {"address", "write", "done"}
    /\ x.won /\ x.at = "address" => x.op = "confirm"
    /\ x.at \in {"latest", "verify"} => x.op = "confirm"
    /\ x.at \in Reauth => x.op # "confirm"
    /\ x.at = "address" /\ x.op = "confirm" => x.won
    /\ x.at = "write" => x.won
Points(x, rows) ==
    /\ x.at \in {"verify", "send"} \/ x.won \/ x.answer = "mismatch" => x.code \in 1..Len(rows)
    /\ x.guess # 0 => x.guess \in 1..Len(rows) /\ rows[x.guess].sent
    /\ x.won => x.guess # 0 /\ rows[x.guess].target = x.address

Rows(rows) == (\E S : rows \in Seq(S)) /\ \A c \in 1..Len(rows) : WholeRow(rows[c])
Counts == counter.failures \in Nat /\ (~counter.found => counter.failures = 0) /\ (counter.failures > 0 => checked = counter.failures)

Missed(c) == {r \in Requests : req[r].answer = "mismatch" /\ req[r].code = c}
Winners(c) == {r \in Requests : req[r].won /\ req[r].code = c}
Costs(c) == Cardinality(Missed(c)) = code[c].attempts
Once(c) == Cardinality(Winners(c)) = (IF code[c].state = "used" THEN 1 ELSE 0)

ChangeInv ==
    /\ Rows(code)
    /\ req = [r \in Requests |-> req[r]]
    /\ \A r \in Requests : Whole(req[r]) /\ Runs(req[r]) /\ Points(req[r], code)
    /\ \A c \in 1..Len(code) : Costs(c) /\ Once(c)
    /\ Counts

LEMMA RowsAre ==
    ASSUME NEW rows, Rows(rows)
    PROVE  DOMAIN rows = 1..Len(rows) /\ Len(rows) \in Nat
BY DEF Rows

LEMMA Few ==
    ASSUME NEW c
    PROVE  /\ IsFiniteSet(Missed(c)) /\ IsFiniteSet(Winners(c))
<1>1. Missed(c) \subseteq Requests /\ Winners(c) \subseteq Requests
    BY Zenon DEF Missed, Winners
<1>2. QED
    BY <1>1, EmailChangeAssumption, FS_Subset, Zenon

-----------------------------------------------------------------------------
(* The table.                                                                *)

\* Old rows keep their address, their attempts, and whether they were sent and used.
Same(a, b) ==
    /\ WholeRow(b) /\ b.target = a.target /\ (a.sent => b.sent) /\ b.attempts = a.attempts
    /\ b.state = "used" <=> a.state = "used"
Grows(rows) ==
    /\ Rows(rows) /\ Len(code) <= Len(rows)
    /\ \A c \in 1..Len(code) : Same(code[c], rows[c])
    /\ \A c \in 1..Len(rows) : c > Len(code) => rows[c].attempts = 0 /\ rows[c].state # "used"

LEMMA SameStays == ASSUME Rows(code) PROVE Grows(code)
<1>1. \A c \in 1..Len(code) : Same(code[c], code[c])
    BY Zenon DEF Rows, Same
<1>2. QED
    BY <1>1, RowsAre DEF Grows

\* A list is a sequence of what it holds.
LEMMA Listed == ASSUME NEW n \in Nat, NEW f, DOMAIN f = 1..n, f = [c \in 1..n |-> f[c]] PROVE (\E S : f \in Seq(S)) /\ Len(f) = n
<1>1. PICK S : S = {f[c] : c \in 1..n}
    BY Zenon
<1>2. f \in [1..n -> S]
    BY <1>1, Zenon
<1>3. f \in Seq(S) /\ Len(f) = n
    BY <1>2
<1>4. QED
    BY <1>3, Zenon

LEMMA EndedRows == ASSUME Rows(code) PROVE Grows(EndStanding) /\ Len(EndStanding) = Len(code)
<1>1. PICK n, rows : n = Len(code) /\ rows = EndStanding
    BY Zenon
<1>2. n \in Nat /\ DOMAIN code = 1..n
    BY <1>1, RowsAre, Zenon
<1>3. rows = [c \in 1..n |-> rows[c]] /\ DOMAIN rows = 1..n
    BY <1>1, <1>2, Zenon DEF EndStanding
<1>4. (\E S : rows \in Seq(S)) /\ Len(rows) = n
    BY <1>2, <1>3, Listed, Zenon
<1>5. ASSUME NEW c \in 1..n PROVE Same(code[c], rows[c])
    <2>1. PICK old : old = code[c]
        BY Zenon
    <2>2. WholeRow(old)
        BY <1>1, <2>1, Zenon DEF Rows
    <2>3. rows[c] = IF old.state = "standing" THEN [old EXCEPT !.state = "ended"] ELSE old
        BY <1>1, <1>2, <2>1, <1>5, Zenon DEF EndStanding, Standing
    <2>4. CASE old.state = "standing"
        <3>1. PICK new : new = [old EXCEPT !.state = "ended"]
            BY Zenon
        <3>2. /\ new = [p \in RowParts |-> new[p]] /\ new.state = "ended" /\ new.target = old.target
              /\ new.attempts = old.attempts /\ new.sent = old.sent
            BY <2>2, <3>1, Zenon DEF WholeRow, RowParts
        <3>3. QED
            BY <2>1, <2>2, <2>3, <2>4, <3>1, <3>2, Zenon DEF Same, WholeRow
    <2>5. CASE old.state # "standing"
        BY <2>1, <2>2, <2>3, <2>5, Zenon DEF Same
    <2>6. QED
        BY <2>4, <2>5, Zenon
<1>6. Rows(rows)
    BY <1>4, <1>5, Zenon DEF Rows, Same
<1>7. QED
    BY <1>1, <1>2, <1>4, <1>5, <1>6 DEF Grows

LEMMA IssuedRows ==
    ASSUME Rows(code), NEW row, WholeRow(row), row.attempts = 0, row.state # "used",
           NEW next, next = Append(EndStanding, row)
    PROVE  Grows(next) /\ Len(next) = Len(code) + 1
<1>1. PICK n, rows : n = Len(code) /\ rows = EndStanding
    BY Zenon
<1>2. Grows(rows) /\ Len(rows) = n /\ n \in Nat
    BY <1>1, EndedRows, RowsAre, Zenon
<1>3. PICK S : rows \in Seq(S)
    BY <1>2, Zenon DEF Grows, Rows
<1>4. PICK T : T = S \cup {row}
    BY Zenon
<1>5. rows \in Seq(T) /\ row \in T
    BY <1>3, <1>4
<1>6. next = Append(rows, row)
    BY <1>1, Zenon
<1>7. /\ next \in Seq(T) /\ Len(next) = n + 1 /\ next[n + 1] = row
      /\ \A c \in 1..n : next[c] = rows[c]
    BY <1>2, <1>5, <1>6
<1>8. \A c \in 1..n : Same(code[c], next[c])
    BY <1>1, <1>2, <1>7, Zenon DEF Grows
<1>9. \A c \in 1..(n + 1) : c \in 1..n \/ c = n + 1
    BY <1>2
<1>10. ASSUME NEW c \in 1..(n + 1) PROVE WholeRow(next[c])
    <2>1. CASE c \in 1..n
        BY <1>8, <2>1, Zenon DEF Same
    <2>2. CASE c = n + 1
        BY <1>7, <2>2, Zenon
    <2>3. QED
        BY <1>9, <1>10, <2>1, <2>2, Zenon
<1>11. Rows(next)
    BY <1>7, <1>10, Zenon DEF Rows
<1>12. \A c \in 1..Len(next) : c > n => next[c].attempts = 0 /\ next[c].state # "used"
    BY <1>2, <1>7, <1>9
<1>13. n <= n + 1
    BY <1>2
<1>14. QED
    BY <1>1, <1>7, <1>8, <1>11, <1>12, <1>13, Zenon DEF Grows

LEMMA SentRows ==
    ASSUME Rows(code), NEW c \in 1..Len(code), NEW next, next = [code EXCEPT ![c].sent = TRUE]
    PROVE  Grows(next) /\ Len(next) = Len(code)
<1>1. PICK n, old : n = Len(code) /\ old = code[c]
    BY Zenon
<1>2. n \in Nat /\ DOMAIN code = 1..n /\ WholeRow(old)
    BY <1>1, RowsAre, Zenon DEF Rows
<1>3. PICK new : new = [old EXCEPT !.sent = TRUE]
    BY Zenon
<1>4. code = [d \in 1..n |-> code[d]]
    BY <1>2 DEF Rows
<1>5. next = [code EXCEPT ![c] = new]
    BY <1>1, <1>3, Zenon
<1>6. /\ next = [d \in 1..n |-> next[d]] /\ DOMAIN next = 1..n /\ next[c] = new
      /\ \A d \in 1..n : d # c => next[d] = code[d]
    BY <1>1, <1>2, <1>4, <1>5, Zenon
<1>7. (\E S : next \in Seq(S)) /\ Len(next) = n
    BY <1>2, <1>6, Listed, Zenon
<1>8. /\ new = [p \in RowParts |-> new[p]] /\ new.sent /\ new.target = old.target
      /\ new.attempts = old.attempts /\ new.state = old.state
    BY <1>2, <1>3, Zenon DEF WholeRow, RowParts
<1>9. Same(old, new)
    BY <1>2, <1>8, Zenon DEF Same, WholeRow
<1>10. \A d \in 1..n : Same(code[d], next[d])
    <2>1. \A d \in 1..n : Same(code[d], code[d])
        BY <1>1, SameStays, Zenon DEF Grows
    <2>2. QED
        BY <1>1, <1>6, <1>9, <2>1, Zenon
<1>11. Rows(next)
    BY <1>7, <1>10, Zenon DEF Rows, Same
<1>12. n <= n /\ \A d \in 1..n : ~(d > n)
    BY <1>2
<1>13. QED
    BY <1>1, <1>7, <1>10, <1>11, <1>12, Zenon DEF Grows

-----------------------------------------------------------------------------
(* The requests.                                                             *)

LEMMA PointsStay ==
    ASSUME NEW x, NEW rows, Rows(code), Points(x, code), Grows(rows)
    PROVE  Points(x, rows)
<1>1. Len(code) \in Nat /\ Len(rows) \in Nat /\ Len(code) <= Len(rows)
    BY RowsAre, Zenon DEF Grows
<1>2. \A c \in 1..Len(code) : c \in 1..Len(rows)
    BY <1>1
<1>3. \A c \in 1..Len(code) : rows[c].target = code[c].target /\ (code[c].sent => rows[c].sent)
    BY Zenon DEF Grows, Same
<1>4. QED
    BY <1>2, <1>3, Zenon DEF Points

LEMMA OthersGoOn ==
    ASSUME ChangeInv, NEW r \in Requests, NEW y, Becomes(r, y), Whole(y), Runs(y), Points(y, code'), Grows(code') \/
                      \A x : Points(x, code) => Points(x, code')
    PROVE  /\ req' = [q \in Requests |-> req'[q]]
           /\ \A q \in Requests : Whole(req'[q]) /\ Runs(req'[q]) /\ Points(req'[q], code')
           /\ req'[r] = y /\ \A q \in Requests : q # r => req'[q] = req[q]
<1>1. req = [q \in Requests |-> req[q]] /\ Rows(code)
    BY Zenon DEF ChangeInv
<1>2. /\ req' = [q \in Requests |-> req'[q]]
      /\ req'[r] = y /\ \A q \in Requests : q # r => req'[q] = req[q]
    BY <1>1, Zenon DEF Becomes
<1>3. \A x : Points(x, code) => Points(x, code')
    BY <1>1, PointsStay, Zenon
<1>4. \A q \in Requests : Whole(req[q]) /\ Runs(req[q]) /\ Points(req[q], code)
    BY Zenon DEF ChangeInv
<1>5. QED
    BY <1>2, <1>3, <1>4, Zenon

\* A step that compares no code: nobody misses or wins, and rows keep what they count.
Calmly(x, y) ==
    /\ x.at # "done" /\ y.answer # "mismatch" /\ (y.won <=> x.won) /\ (x.won => y.code = x.code)

LEMMA QuietChange ==
    ASSUME ChangeInv, NEW r \in Requests, NEW y, Becomes(r, y), Whole(y), Runs(y), Points(y, code'),
           Calmly(req[r], y), Grows(code'), Counts'
    PROVE  ChangeInv'
<1>1. /\ req' = [q \in Requests |-> req'[q]]
      /\ \A q \in Requests : Whole(req'[q]) /\ Runs(req'[q]) /\ Points(req'[q], code')
      /\ req'[r] = y /\ \A q \in Requests : q # r => req'[q] = req[q]
    BY OthersGoOn, Zenon
<1>2. Rows(code) /\ Rows(code') /\ Len(code) \in Nat /\ Len(code') \in Nat
    BY RowsAre, Zenon DEF ChangeInv, Grows
<1>3. /\ req[r].answer # "mismatch" /\ y.answer # "mismatch"
      /\ y.won <=> req[r].won
      /\ req[r].won => y.code = req[r].code
    BY Zenon DEF ChangeInv, Runs, Calmly
<1>4. \A c : Missed(c)' = Missed(c)
    BY <1>1, <1>3, Zenon DEF Missed
<1>5. \A c : Winners(c)' = Winners(c)
    BY <1>1, <1>3, Zenon DEF Winners
<1>6. ASSUME NEW c \in 1..Len(code') PROVE Costs(c)' /\ Once(c)'
    <2>1. CASE c \in 1..Len(code)
        <3>1. Costs(c) /\ Once(c)
            BY <2>1, Zenon DEF ChangeInv
        <3>2. code'[c].attempts = code[c].attempts /\ (code'[c].state = "used" <=> code[c].state = "used")
            BY <2>1, Zenon DEF Grows, Same
        <3>3. Costs(c)'
            BY <1>4, <3>1, <3>2, Zenon DEF Costs
        <3>4. Once(c)'
            BY <1>5, <3>1, <3>2, Zenon DEF Once
        <3>5. QED
            BY <3>3, <3>4, Zenon
    <2>2. CASE c \notin 1..Len(code)
        <3>1. c > Len(code)
            BY <1>2, <1>6, <2>2
        <3>2. code'[c].attempts = 0 /\ code'[c].state # "used"
            BY <1>6, <3>1, Zenon DEF Grows
        <3>3. \A q \in Requests : req[q].won \/ req[q].answer = "mismatch" => req[q].code # c
            BY <2>2, Zenon DEF ChangeInv, Points
        <3>4. Missed(c) = {} /\ Winners(c) = {}
            BY <3>3, Zenon DEF Missed, Winners
        <3>5. Cardinality({}) = 0
            BY FS_EmptySet, Zenon
        <3>6. Costs(c)'
            BY <1>4, <3>2, <3>4, <3>5, Zenon DEF Costs
        <3>7. Once(c)'
            BY <1>5, <3>2, <3>4, <3>5, Zenon DEF Once
        <3>8. QED
            BY <3>6, <3>7, Zenon
    <2>3. QED
        BY <2>1, <2>2, Zenon
<1>7. QED
    BY <1>1, <1>2, <1>6, Zenon DEF ChangeInv

\* A request may go on as y.
Fine(x, y, rows) == Whole(y) /\ Runs(y) /\ Points(y, rows) /\ Calmly(x, y)

LEMMA EndsWell ==
    ASSUME NEW x, NEW rows, Points(x, rows), x.at # "done", NEW answer, answer # "mismatch"
    PROVE  Fine(x, Ended(x, answer), rows)
<1>1. PICK y : y = Ended(x, answer)
    BY Zenon
<1>2. PICK num, typed, to : /\ num = (IF x.won \/ answer = "mismatch" THEN x.code ELSE 0)
                            /\ typed = (IF x.won THEN x.guess ELSE 0)
                            /\ to = (IF x.won THEN x.address ELSE None)
    BY Zenon
<1>3. y = [Waiting EXCEPT !.at = "done", !.answer = answer, !.won = x.won, !.code = num, !.guess = typed, !.address = to]
    BY <1>1, <1>2, Zenon DEF Ended
<1>4. /\ y = [p \in Parts |-> y[p]] /\ y.at = "done" /\ y.answer = answer /\ y.won = x.won
      /\ y.code = num /\ y.guess = typed /\ y.address = to
    BY <1>3, Zenon DEF Waiting, Parts
<1>5. /\ x.won => num = x.code /\ typed = x.guess /\ to = x.address
      /\ ~x.won => typed = 0
    BY <1>2, Zenon
<1>6. Runs(y)
    BY <1>4, Zenon DEF Runs, Reauth
<1>7. Points(y, rows)
    BY <1>4, <1>5, Zenon DEF Points
<1>8. Calmly(x, y)
    BY <1>4, <1>5, Zenon DEF Calmly
<1>9. QED
    BY <1>1, <1>4, <1>6, <1>7, <1>8, Zenon DEF Fine, Whole

LEMMA GoesOn ==
    ASSUME NEW x, NEW y, NEW rows, Whole(y), Runs(x), Points(x, rows), x.at # "done",
           y.op = x.op, y.answer = x.answer, y.won = x.won, y.guess = x.guess, y.at # "done",
           ~x.won \/ (y.code = x.code /\ y.address = x.address /\ y.at = "write"),
           y.at \in {"latest", "verify"} => y.op = "confirm",
           y.at \in Reauth \/ y.at = "address" => y.op # "confirm",
           y.at = "write" => x.won,
           y.at \in {"verify", "send"} => y.code \in 1..Len(rows)
    PROVE  Fine(x, y, rows)
<1>1. x.answer # "mismatch"
    BY Zenon DEF Runs
<1>2. Runs(y)
    BY <1>1, Zenon DEF Runs
<1>3. Points(y, rows)
    BY <1>1, Zenon DEF Points
<1>4. Calmly(x, y)
    BY <1>1, Zenon DEF Calmly
<1>5. QED
    BY <1>2, <1>3, <1>4, Zenon DEF Fine

\* Nothing is written but the request itself.
LEMMA NoWrite ==
    ASSUME ChangeInv, NEW r \in Requests, NEW y, Becomes(r, y), Fine(req[r], y, code), UNCHANGED <<code, counter, checked>>
    PROVE  ChangeInv'
<1>1. code' = code /\ counter' = counter /\ checked' = checked
    BY Zenon
<1>2. Grows(code')
    BY <1>1, SameStays, Zenon DEF ChangeInv
<1>3. Counts'
    BY <1>1, Zenon DEF ChangeInv, Counts
<1>4. Whole(y) /\ Runs(y) /\ Points(y, code') /\ Calmly(req[r], y)
    BY <1>1, Zenon DEF Fine
<1>5. QED
    BY <1>2, <1>3, <1>4, QuietChange, Zenon

LEMMA Here == ASSUME ChangeInv, NEW r \in Requests PROVE Whole(req[r]) /\ Runs(req[r]) /\ Points(req[r], code)
BY Zenon DEF ChangeInv

LEMMA DoneWell ==
    ASSUME ChangeInv, NEW r \in Requests, req[r].at # "done", NEW answer, answer # "mismatch"
    PROVE  Fine(req[r], Done(r, answer), code)
BY Here, EndsWell, Zenon DEF Done

LEMMA ToWell ==
    ASSUME ChangeInv, NEW r \in Requests, req[r].at \notin {"done", "address", "write"}, NEW at, at \in {"issue", "undo"}
    PROVE  Fine(req[r], To(r, at), code)
<1>1. PICK x, y : x = req[r] /\ y = [x EXCEPT !.at = at]
    BY Zenon
<1>2. Whole(x) /\ Runs(x) /\ Points(x, code)
    BY <1>1, Here, Zenon
<1>3. /\ y = [p \in Parts |-> y[p]] /\ y.at = at /\ y.op = x.op /\ y.answer = x.answer /\ y.won = x.won /\ y.guess = x.guess
    BY <1>1, <1>2, Zenon DEF Whole, Parts
<1>4. ~x.won
    BY <1>1, <1>2, Zenon DEF Runs
<1>5. Fine(x, y, code)
    BY <1>1, <1>2, <1>3, <1>4, GoesOn, Zenon DEF Whole, Reauth
<1>6. QED
    BY <1>1, <1>5, Zenon DEF To

LEMMA AgainWell ==
    ASSUME ChangeInv, NEW r \in Requests, NEW at, NEW rounds,
           \/ at \in {"count", "clear"} /\ req[r].at \in {"counting", "clearing"}
           \/ at = "latest" /\ req[r].at = "verify"
    PROVE  Fine(req[r], Again(r, at, rounds), code)
<1>1. PICK x, y : x = req[r] /\ y = [x EXCEPT !.at = at, !.round = @ + 1, !.read = NoCounter, !.when = 0]
    BY Zenon
<1>2. Whole(x) /\ Runs(x) /\ Points(x, code)
    BY <1>1, Here, Zenon
<1>3. /\ y = [p \in Parts |-> y[p]] /\ y.at = at /\ y.op = x.op /\ y.answer = x.answer /\ y.won = x.won /\ y.guess = x.guess
    BY <1>1, <1>2, Zenon DEF Whole, Parts
<1>4. ~x.won /\ x.at # "done"
    BY <1>1, <1>2, Zenon DEF Runs
<1>5. y.at \in {"latest", "verify"} => y.op = "confirm"
    BY <1>1, <1>2, <1>3, Zenon DEF Runs
<1>6. y.at \notin {"verify", "send", "done", "address", "write"} /\ (y.at \in Reauth => y.op # "confirm")
    BY <1>1, <1>2, <1>3, Zenon DEF Runs, Reauth
<1>7. Fine(x, y, code)
    BY <1>2, <1>3, <1>4, <1>5, <1>6, GoesOn, Zenon DEF Whole
<1>8. Fine(req[r], Done(r, "failed"), code)
    BY <1>1, <1>4, DoneWell, Zenon
<1>9. QED
    BY <1>1, <1>7, <1>8, Zenon DEF Again

-----------------------------------------------------------------------------
(* The steps that compare no code.                                           *)

LEMMA BeginsWell ==
    ASSUME ChangeInv, NEW r \in Requests, NEW op, NEW x, Begin(r, op, x), Whole(x), x.won = FALSE,
           x.answer # "mismatch", x.at \notin {"verify", "send"}, x.at = "latest" => op = "confirm",
           x.at \in Reauth => op # "confirm", x.at \notin {"address", "write"},
           x.guess # 0 => x.guess \in 1..Len(code) /\ code[x.guess].sent
    PROVE  \E y : Becomes(r, y) /\ Fine(req[r], y, code)
<1>1. PICK y : y = [x EXCEPT !.op = op, !.mail = email]
    BY Zenon
<1>2. req[r].at = "idle" /\ Becomes(r, y)
    BY <1>1, Zenon DEF Begin, Becomes
<1>3. /\ y = [p \in Parts |-> y[p]] /\ y.at = x.at /\ y.op = op /\ y.answer = x.answer /\ y.won = FALSE /\ y.guess = x.guess
    BY <1>1, Zenon DEF Whole, Parts
<1>4. ~req[r].won
    BY <1>2, Here, Zenon DEF Runs
<1>5. Runs(y)
    BY <1>3, Zenon DEF Runs
<1>6. Points(y, code)
    BY <1>3, Zenon DEF Points
<1>7. Calmly(req[r], y)
    BY <1>2, <1>3, <1>4, Zenon DEF Calmly
<1>8. QED
    BY <1>2, <1>3, <1>5, <1>6, <1>7, Zenon DEF Fine, Whole

LEMMA RequestStep == ASSUME ChangeInv, NEW r \in Requests, NEW a, NEW right, RequestEmailChange(r, a, right) PROVE ChangeInv'
<1>1. PICK x : x = [Waiting EXCEPT !.at = "count", !.address = a, !.right = right]
    BY Zenon
<1>2. /\ x = [p \in Parts |-> x[p]] /\ x.won = FALSE /\ x.answer = "none" /\ x.at = "count" /\ x.guess = 0
    BY <1>1, Zenon DEF Waiting, Parts
<1>3. Begin(r, "request", x) /\ UNCHANGED <<code, counter, checked>>
    BY <1>1, Zenon DEF RequestEmailChange
<1>4. PICK y : Becomes(r, y) /\ Fine(req[r], y, code)
    BY <1>2, <1>3, BeginsWell, Zenon DEF Whole, Reauth
<1>5. QED
    BY <1>3, <1>4, NoWrite, Zenon

LEMMA PasswordStep == ASSUME ChangeInv, NEW r \in Requests, NEW right, ChangePassword(r, right) PROVE ChangeInv'
<1>1. PICK x : x = [Waiting EXCEPT !.at = "count", !.right = right]
    BY Zenon
<1>2. /\ x = [p \in Parts |-> x[p]] /\ x.won = FALSE /\ x.answer = "none" /\ x.at = "count" /\ x.guess = 0
    BY <1>1, Zenon DEF Waiting, Parts
<1>3. Begin(r, "password", x) /\ UNCHANGED <<code, counter, checked>>
    BY <1>1, Zenon DEF ChangePassword
<1>4. PICK y : Becomes(r, y) /\ Fine(req[r], y, code)
    BY <1>2, <1>3, BeginsWell, Zenon DEF Whole, Reauth
<1>5. QED
    BY <1>3, <1>4, NoWrite, Zenon

LEMMA ResendStep == ASSUME ChangeInv, NEW r \in Requests, ResendEmailChange(r) PROVE ChangeInv'
<1>1. PICK x : x = [Waiting EXCEPT !.at = "pending"]
    BY Zenon
<1>2. /\ x = [p \in Parts |-> x[p]] /\ x.won = FALSE /\ x.answer = "none" /\ x.at = "pending" /\ x.guess = 0
    BY <1>1, Zenon DEF Waiting, Parts
<1>3. Begin(r, "resend", x) /\ UNCHANGED <<code, counter, checked>>
    BY <1>1, Zenon DEF ResendEmailChange
<1>4. PICK y : Becomes(r, y) /\ Fine(req[r], y, code)
    BY <1>2, <1>3, BeginsWell, Zenon DEF Whole, Reauth
<1>5. QED
    BY <1>3, <1>4, NoWrite, Zenon

LEMMA ConfirmStep == ASSUME ChangeInv, NEW r \in Requests, NEW guess \in {0} \cup DOMAIN code, ConfirmEmailChange(r, guess) PROVE ChangeInv'
<1>1. PICK x : x = [Waiting EXCEPT !.at = "latest", !.guess = guess]
    BY Zenon
<1>2. /\ x = [p \in Parts |-> x[p]] /\ x.won = FALSE /\ x.answer = "none" /\ x.at = "latest" /\ x.guess = guess
    BY <1>1, Zenon DEF Waiting, Parts
<1>3. Begin(r, "confirm", x) /\ UNCHANGED <<code, counter, checked>>
    BY <1>1, Zenon DEF ConfirmEmailChange
<1>4. guess # 0 => guess \in 1..Len(code) /\ code[guess].sent
    BY RowsAre, Zenon DEF ConfirmEmailChange, ChangeInv
<1>5. PICK y : Becomes(r, y) /\ Fine(req[r], y, code)
    BY <1>2, <1>3, <1>4, BeginsWell, Zenon DEF Whole, Reauth
<1>6. QED
    BY <1>3, <1>5, NoWrite, Zenon

LEMMA CancelStep == ASSUME ChangeInv, NEW r \in Requests, CancelEmailChange(r) PROVE ChangeInv'
<1>1. PICK x : x = [Waiting EXCEPT !.at = "done", !.answer = "granted"]
    BY Zenon
<1>2. /\ x = [p \in Parts |-> x[p]] /\ x.won = FALSE /\ x.answer = "granted" /\ x.at = "done" /\ x.guess = 0
    BY <1>1, Zenon DEF Waiting, Parts
<1>3. Begin(r, "cancel", x) /\ code' = EndStanding /\ UNCHANGED <<counter, checked>>
    BY <1>1, Zenon DEF CancelEmailChange
<1>4. PICK y : Becomes(r, y) /\ Fine(req[r], y, code)
    BY <1>2, <1>3, BeginsWell, Zenon DEF Whole, Reauth
<1>5. Rows(code) /\ Grows(code')
    BY <1>3, EndedRows, Zenon DEF ChangeInv
<1>6. Whole(y) /\ Runs(y) /\ Points(y, code') /\ Calmly(req[r], y)
    BY <1>4, <1>5, PointsStay, Zenon DEF Fine
<1>7. Counts'
    BY <1>3, Zenon DEF ChangeInv, Counts
<1>8. QED
    BY <1>4, <1>5, <1>6, <1>7, QuietChange, Zenon

LEMMA FailStep == ASSUME ChangeInv, NEW r \in Requests, Fail(r) PROVE ChangeInv'
<1>1. req[r].at # "done" /\ Becomes(r, Done(r, "failed")) /\ UNCHANGED <<code, counter, checked>>
    BY Zenon DEF Fail
<1>2. Fine(req[r], Done(r, "failed"), code)
    BY <1>1, DoneWell, Zenon
<1>3. QED
    BY <1>1, <1>2, NoWrite, Zenon

LEMMA MovesWell ==
    ASSUME ChangeInv, NEW r \in Requests, NEW y, y = [p \in Parts |-> y[p]], req[r].at \notin {"done", "address", "write"},
           y.at \notin {"done", "latest", "verify", "send", "write"}, y.at \in Reauth \/ y.at = "address" => req[r].at \in Reauth,
           y.op = req[r].op, y.answer = req[r].answer, y.won = req[r].won, y.guess = req[r].guess
    PROVE  Fine(req[r], y, code)
<1>1. Whole(y) /\ Runs(req[r]) /\ Points(req[r], code)
    BY Here, Zenon DEF Whole
<1>2. ~req[r].won /\ req[r].at # "done"
    BY <1>1, Zenon DEF Runs
<1>3. /\ y.at # "done" /\ y.at \notin {"latest", "verify"} /\ y.at \notin {"verify", "send"} /\ y.at # "write"
      /\ y.at \in Reauth \/ y.at = "address" => y.op # "confirm"
    BY <1>1, Zenon DEF Runs
<1>4. QED
    BY <1>1, <1>2, <1>3, GoesOn, Zenon

LEMMA FindCounterStep == ASSUME ChangeInv, NEW r \in Requests, FindCounter(r) PROVE ChangeInv'
<1>1. PICK x, y : x = req[r] /\ y = [To(r, "counting") EXCEPT !.read = counter, !.when = now]
    BY Zenon
<1>2. req[r].at = "count" /\ UNCHANGED <<code, counter, checked>> /\ (Becomes(r, Done(r, "locked")) \/ Becomes(r, y))
    BY <1>1, Zenon DEF FindCounter, At
<1>3. Whole(x)
    BY <1>1, Here, Zenon
<1>4. y = [p \in Parts |-> y[p]] /\ y.at = "counting" /\ y.op = x.op /\ y.answer = x.answer /\ y.won = x.won /\ y.guess = x.guess
    BY <1>1, <1>3, Zenon DEF To, Whole, Parts
<1>5. Fine(req[r], y, code)
    BY <1>1, <1>2, <1>4, MovesWell, Zenon DEF Reauth
<1>6. Fine(req[r], Done(r, "locked"), code)
    BY <1>2, DoneWell, Zenon
<1>7. QED
    BY <1>2, <1>5, <1>6, NoWrite, Zenon

LEMMA ConfirmedWell == ASSUME ChangeInv, NEW r \in Requests, req[r].at \in {"clear", "clearing"} PROVE Fine(req[r], Confirmed(r), code)
<1>1. PICK x, y : x = req[r] /\ y = [To(r, "address") EXCEPT !.read = NoCounter, !.round = 1]
    BY Zenon
<1>2. Whole(x)
    BY <1>1, Here, Zenon
<1>3. y = [p \in Parts |-> y[p]] /\ y.at = "address" /\ y.op = x.op /\ y.answer = x.answer /\ y.won = x.won /\ y.guess = x.guess
    BY <1>1, <1>2, Zenon DEF To, Whole, Parts
<1>4. Fine(req[r], y, code)
    BY <1>1, <1>3, MovesWell, Zenon DEF Reauth
<1>5. Fine(req[r], Done(r, "granted"), code)
    BY DoneWell, Zenon
<1>6. QED
    BY <1>1, <1>4, <1>5, Zenon DEF Confirmed

LEMMA FindToClearStep == ASSUME ChangeInv, NEW r \in Requests, FindToClear(r) PROVE ChangeInv'
<1>1. PICK x, y : x = req[r] /\ y = [To(r, "clearing") EXCEPT !.read = counter]
    BY Zenon
<1>2. req[r].at = "clear" /\ UNCHANGED <<code, counter, checked>> /\ (Becomes(r, Confirmed(r)) \/ Becomes(r, y))
    BY <1>1, Zenon DEF FindToClear, At
<1>3. Whole(x)
    BY <1>1, Here, Zenon
<1>4. y = [p \in Parts |-> y[p]] /\ y.at = "clearing" /\ y.op = x.op /\ y.answer = x.answer /\ y.won = x.won /\ y.guess = x.guess
    BY <1>1, <1>3, Zenon DEF To, Whole, Parts
<1>5. Fine(req[r], y, code)
    BY <1>1, <1>2, <1>4, MovesWell, Zenon DEF Reauth
<1>6. Fine(req[r], Confirmed(r), code)
    BY <1>2, ConfirmedWell, Zenon
<1>7. QED
    BY <1>2, <1>5, <1>6, NoWrite, Zenon

\* The codes stay as they are; the counter counts.
LEMMA CounterWrite ==
    ASSUME ChangeInv, NEW r \in Requests, NEW y, Becomes(r, y), Fine(req[r], y, code), code' = code, Counts'
    PROVE  ChangeInv'
<1>1. Grows(code')
    BY SameStays, Zenon DEF ChangeInv
<1>2. Whole(y) /\ Runs(y) /\ Points(y, code') /\ Calmly(req[r], y)
    BY Zenon DEF Fine
<1>3. QED
    BY <1>1, <1>2, QuietChange, Zenon

LEMMA CountedRight ==
    ASSUME Counts, NEW t, counter' = Counted(counter, t), checked' = IF Fresh(counter) THEN 1 ELSE checked + 1
    PROVE  Counts'
<1>1. PICK n : n = IF counter.until # 0 THEN 1 ELSE counter.failures + 1
    BY Zenon
<1>2. counter' = [found |-> TRUE, failures |-> n, until |-> IF n >= After THEN t + For ELSE 0]
    BY <1>1, Zenon DEF Counted
<1>3. counter'.found /\ counter'.failures = n
    BY <1>2
<1>4. n \in Nat /\ n > 0
    BY <1>1 DEF Counts
<1>5. checked' = n
    BY <1>1 DEF Counts, Fresh
<1>6. QED
    BY <1>3, <1>4, <1>5, Zenon DEF Counts

LEMMA SaveCountStep == ASSUME ChangeInv, NEW r \in Requests, SaveCount(r) PROVE ChangeInv'
<1>1. req[r].at = "counting" /\ code' = code
    BY Zenon DEF SaveCount, At
<1>2. CASE /\ ~SameCounter(r) /\ Becomes(r, Again(r, "count", Rounds)) /\ UNCHANGED <<counter, checked>>
    <2>1. Fine(req[r], Again(r, "count", Rounds), code)
        BY <1>1, AgainWell, Zenon
    <2>2. UNCHANGED <<code, counter, checked>>
        BY <1>1, <1>2, Zenon
    <2>3. QED
        BY <1>2, <2>1, <2>2, NoWrite, Zenon
<1>3. CASE /\ SameCounter(r)
           /\ counter' = Counted(req[r].read, req[r].when)
           /\ checked' = IF Fresh(counter) THEN 1 ELSE checked + 1
           /\ Becomes(r, IF req[r].right
                         THEN [To(r, "clear") EXCEPT !.right = FALSE, !.read = NoCounter, !.when = 0, !.round = 1]
                         ELSE Done(r, "wrong"))
    <2>1. Counts'
        <3>1. counter' = Counted(counter, req[r].when) /\ Counts
            BY <1>3, Zenon DEF SameCounter, ChangeInv
        <3>2. checked' = IF Fresh(counter) THEN 1 ELSE checked + 1
            BY <1>3, Zenon
        <3>3. QED
            BY <3>1, <3>2, CountedRight, Zenon
    <2>2. PICK x, y : x = req[r] /\ y = [To(r, "clear") EXCEPT !.right = FALSE, !.read = NoCounter, !.when = 0, !.round = 1]
        BY Zenon
    <2>3. Whole(x)
        BY <2>2, Here, Zenon
    <2>4. y = [p \in Parts |-> y[p]] /\ y.at = "clear" /\ y.op = x.op /\ y.answer = x.answer /\ y.won = x.won /\ y.guess = x.guess
        BY <2>2, <2>3, Zenon DEF To, Whole, Parts
    <2>5. Fine(req[r], y, code)
        BY <1>1, <2>2, <2>4, MovesWell, Zenon DEF Reauth
    <2>6. Fine(req[r], Done(r, "wrong"), code)
        BY <1>1, DoneWell, Zenon
    <2>7. Becomes(r, y) \/ Becomes(r, Done(r, "wrong"))
        BY <1>3, <2>2, Zenon
    <2>8. QED
        BY <1>1, <2>1, <2>5, <2>6, <2>7, CounterWrite, Zenon
<1>4. QED
    BY <1>2, <1>3, Zenon DEF SaveCount

LEMMA SaveClearStep == ASSUME ChangeInv, NEW r \in Requests, SaveClear(r) PROVE ChangeInv'
<1>1. req[r].at = "clearing" /\ code' = code /\ checked' = checked
    BY Zenon DEF SaveClear, At
<1>2. CASE ~SameCounter(r) /\ Becomes(r, Again(r, "clear", Rounds)) /\ UNCHANGED counter
    <2>1. Fine(req[r], Again(r, "clear", Rounds), code)
        BY <1>1, AgainWell, Zenon
    <2>2. UNCHANGED <<code, counter, checked>>
        BY <1>1, <1>2, Zenon
    <2>3. QED
        BY <1>2, <2>1, <2>2, NoWrite, Zenon
<1>3. CASE SameCounter(r) /\ counter' = [NoCounter EXCEPT !.found = TRUE] /\ Becomes(r, Confirmed(r))
    <2>1. counter'.failures = 0 /\ counter'.found
        BY <1>3, Zenon DEF NoCounter
    <2>2. Counts'
        BY <2>1 DEF Counts
    <2>3. Fine(req[r], Confirmed(r), code)
        BY <1>1, ConfirmedWell, Zenon
    <2>4. QED
        BY <1>1, <1>3, <2>2, <2>3, CounterWrite, Zenon
<1>4. QED
    BY <1>2, <1>3, Zenon DEF SaveClear

LEMMA CheckCooldownStep == ASSUME ChangeInv, NEW r \in Requests, CheckCooldown(r) PROVE ChangeInv'
<1>1. PICK x, y : x = req[r] /\ y = [To(r, "cap") EXCEPT !.when = now]
    BY Zenon
<1>2. req[r].at = "cooldown" /\ UNCHANGED <<code, counter, checked>> /\ (Becomes(r, Done(r, "refused")) \/ Becomes(r, y))
    BY <1>1, Zenon DEF CheckCooldown, At
<1>3. Whole(x)
    BY <1>1, Here, Zenon
<1>4. y = [p \in Parts |-> y[p]] /\ y.at = "cap" /\ y.op = x.op /\ y.answer = x.answer /\ y.won = x.won /\ y.guess = x.guess
    BY <1>1, <1>3, Zenon DEF To, Whole, Parts
<1>5. Fine(req[r], y, code)
    BY <1>1, <1>2, <1>4, MovesWell, Zenon DEF Reauth
<1>6. Fine(req[r], Done(r, "refused"), code)
    BY <1>2, DoneWell, Zenon
<1>7. QED
    BY <1>2, <1>5, <1>6, NoWrite, Zenon

LEMMA CheckCapStep == ASSUME ChangeInv, NEW r \in Requests, CheckCap(r) PROVE ChangeInv'
<1>1. req[r].at = "cap" /\ UNCHANGED <<code, counter, checked>> /\ (Becomes(r, Done(r, "refused")) \/ Becomes(r, To(r, "issue")))
    BY Zenon DEF CheckCap, At
<1>2. Fine(req[r], To(r, "issue"), code)
    BY <1>1, ToWell, Zenon
<1>3. Fine(req[r], Done(r, "refused"), code)
    BY <1>1, DoneWell, Zenon
<1>4. QED
    BY <1>1, <1>2, <1>3, NoWrite, Zenon

\* The table grows, and the request goes on over the new one.
LEMMA TableWrite ==
    ASSUME ChangeInv, NEW r \in Requests, NEW y, Becomes(r, y), Fine(req[r], y, code'), Grows(code'), UNCHANGED <<counter, checked>>
    PROVE  ChangeInv'
<1>1. Counts'
    BY Zenon DEF ChangeInv, Counts
<1>2. Whole(y) /\ Runs(y) /\ Points(y, code') /\ Calmly(req[r], y)
    BY Zenon DEF Fine
<1>3. QED
    BY <1>1, <1>2, QuietChange, Zenon

LEMMA FineOver ==
    ASSUME ChangeInv, NEW x, NEW y, Fine(x, y, code), Grows(code')
    PROVE  Fine(x, y, code')
<1>1. Rows(code)
    BY Zenon DEF ChangeInv
<1>2. QED
    BY <1>1, PointsStay, Zenon DEF Fine

LEMMA IssueStep == ASSUME ChangeInv, NEW r \in Requests, Issue(r) PROVE ChangeInv'
<1>1. PICK x, y, n : x = req[r] /\ n = Len(code) + 1 /\ y = [To(r, "send") EXCEPT !.code = n, !.when = 0]
    BY Zenon
<1>2. PICK row : row = NewCode(req[r].address, req[r].when)
    BY Zenon
<1>3. req[r].at = "issue" /\ Becomes(r, y) /\ code' = Append(EndStanding, row) /\ UNCHANGED <<counter, checked>>
    BY <1>1, <1>2, Zenon DEF Issue, At
<1>4. WholeRow(row) /\ row.attempts = 0 /\ row.state # "used"
    BY <1>2, Zenon DEF NewCode, WholeRow, RowParts
<1>5. Rows(code)
    BY Zenon DEF ChangeInv
<1>6. Grows(code') /\ Len(code') = n
    BY <1>1, <1>3, <1>4, <1>5, IssuedRows, Zenon
<1>7. n \in 1..Len(code')
    BY <1>1, <1>5, <1>6, RowsAre
<1>8. Whole(x) /\ Runs(x) /\ Points(x, code')
    BY <1>1, <1>5, <1>6, Here, PointsStay, Zenon
<1>9. /\ y = [p \in Parts |-> y[p]] /\ y.at = "send" /\ y.op = x.op /\ y.answer = x.answer /\ y.won = x.won /\ y.guess = x.guess
      /\ y.code = n
    BY <1>1, <1>8, Zenon DEF To, Whole, Parts
<1>10. ~x.won /\ x.at # "done"
    BY <1>1, <1>3, <1>8, Zenon DEF Runs
<1>11. y.at # "done" /\ y.at \notin {"latest", "verify"} /\ y.at \notin Reauth /\ y.at # "address" /\ y.at # "write"
    BY <1>9, Zenon DEF Reauth
<1>12. Whole(y)
    BY <1>9, Zenon DEF Whole
<1>13. Fine(x, y, code')
    BY <1>7, <1>8, <1>9, <1>10, <1>11, <1>12, GoesOn, Zenon
<1>14. QED
    BY <1>1, <1>3, <1>6, <1>13, TableWrite, Zenon

LEMMA SendCodeStep == ASSUME ChangeInv, NEW r \in Requests, SendCode(r) PROVE ChangeInv'
<1>1. req[r].at = "send" /\ UNCHANGED <<counter, checked>> /\ Rows(code)
    BY Zenon DEF SendCode, At, ChangeInv
<1>2. CASE Becomes(r, To(r, "undo")) /\ UNCHANGED code
    <2>1. Fine(req[r], To(r, "undo"), code)
        BY <1>1, ToWell, Zenon
    <2>2. UNCHANGED <<code, counter, checked>>
        BY <1>1, <1>2, Zenon
    <2>3. QED
        BY <1>2, <2>1, <2>2, NoWrite, Zenon
<1>3. CASE code' = [code EXCEPT ![req[r].code].sent = TRUE] /\ Becomes(r, Done(r, "granted"))
    <2>1. req[r].code \in 1..Len(code)
        BY <1>1, Here, Zenon DEF Points
    <2>2. Grows(code')
        BY <1>1, <1>3, <2>1, SentRows, Zenon
    <2>3. Fine(req[r], Done(r, "granted"), code)
        BY <1>1, DoneWell, Zenon
    <2>4. Fine(req[r], Done(r, "granted"), code')
        BY <2>2, <2>3, FineOver, Zenon
    <2>5. QED
        BY <1>1, <1>3, <2>2, <2>4, TableWrite, Zenon
<1>4. QED
    BY <1>2, <1>3, Zenon DEF SendCode

LEMMA UndoStep == ASSUME ChangeInv, NEW r \in Requests, Undo(r) PROVE ChangeInv'
<1>1. req[r].at = "undo" /\ code' = EndStanding /\ Becomes(r, Done(r, "refused")) /\ UNCHANGED <<counter, checked>> /\ Rows(code)
    BY Zenon DEF Undo, At, ChangeInv
<1>2. Grows(code')
    BY <1>1, EndedRows, Zenon
<1>3. Fine(req[r], Done(r, "refused"), code)
    BY <1>1, DoneWell, Zenon
<1>4. Fine(req[r], Done(r, "refused"), code')
    BY <1>2, <1>3, FineOver, Zenon
<1>5. QED
    BY <1>1, <1>2, <1>4, TableWrite, Zenon

LEMMA ReadLatestStep == ASSUME ChangeInv, NEW r \in Requests, ReadLatest(r) PROVE ChangeInv'
<1>1. PICK x, c, y : x = req[r] /\ c = Len(code) /\ y = [To(r, "verify") EXCEPT !.code = c, !.attempts = code[c].attempts]
    BY Zenon
<1>2. /\ req[r].at = "latest" /\ UNCHANGED <<code, counter, checked>>
      /\ Becomes(r, Done(r, "refused")) \/ (c # 0 /\ Becomes(r, y))
    BY <1>1, Zenon DEF ReadLatest, At
<1>3. Whole(x) /\ Runs(x) /\ Points(x, code)
    BY <1>1, Here, Zenon
<1>4. /\ y = [p \in Parts |-> y[p]] /\ y.at = "verify" /\ y.op = x.op /\ y.answer = x.answer /\ y.won = x.won /\ y.guess = x.guess
      /\ y.code = c
    BY <1>1, <1>3, Zenon DEF To, Whole, Parts
<1>5. ~x.won /\ x.at # "done" /\ x.op = "confirm"
    BY <1>1, <1>2, <1>3, Zenon DEF Runs
<1>6. Fine(req[r], Done(r, "refused"), code)
    BY <1>2, DoneWell, Zenon
<1>7. ASSUME c # 0 PROVE Fine(req[r], y, code)
    <2>1. y.code \in 1..Len(code)
        BY <1>1, <1>4, <1>7, RowsAre DEF ChangeInv
    <2>2. Whole(y) /\ y.at # "done" /\ y.at \notin Reauth /\ y.at # "address" /\ y.at # "write"
        BY <1>4, Zenon DEF Whole, Reauth
    <2>3. /\ y.op = x.op /\ y.answer = x.answer /\ y.won = x.won /\ y.guess = x.guess /\ y.op = "confirm"
          /\ ~(y.at \in Reauth \/ y.at = "address")
        BY <1>4, <1>5, <2>2, Zenon
    <2>4. Fine(x, y, code)
        BY ONLY <1>3, <1>5, <2>1, <2>2, <2>3, GoesOn, Zenon
    <2>5. QED
        BY <1>1, <2>4, Zenon
<1>8. QED
    BY <1>2, <1>6, <1>7, NoWrite, Zenon

LEMMA ReadPendingStep == ASSUME ChangeInv, NEW r \in Requests, ReadPending(r) PROVE ChangeInv'
<1>1. PICK x, y : x = req[r] /\ y = [To(r, "cooldown") EXCEPT !.address = code[Len(code)].target]
    BY Zenon
<1>2. req[r].at = "pending" /\ UNCHANGED <<code, counter, checked>> /\ (Becomes(r, Done(r, "refused")) \/ Becomes(r, y))
    BY <1>1, Zenon DEF ReadPending, At
<1>3. Whole(x)
    BY <1>1, Here, Zenon
<1>4. y = [p \in Parts |-> y[p]] /\ y.at = "cooldown" /\ y.op = x.op /\ y.answer = x.answer /\ y.won = x.won /\ y.guess = x.guess
    BY <1>1, <1>3, Zenon DEF To, Whole, Parts
<1>5. Fine(req[r], y, code)
    BY <1>1, <1>2, <1>4, MovesWell, Zenon DEF Reauth
<1>6. Fine(req[r], Done(r, "refused"), code)
    BY <1>2, DoneWell, Zenon
<1>7. QED
    BY <1>2, <1>5, <1>6, NoWrite, Zenon

LEMMA CheckNewEmailStep == ASSUME ChangeInv, NEW r \in Requests, CheckNewEmail(r) PROVE ChangeInv'
<1>1. PICK x, at, y : x = req[r] /\ at = (IF x.op = "confirm" THEN "write" ELSE "cooldown") /\ y = To(r, at)
    BY Zenon
<1>2. req[r].at = "address" /\ UNCHANGED <<code, counter, checked>> /\ (Becomes(r, Done(r, "refused")) \/ Becomes(r, y))
    BY <1>1, Zenon DEF CheckNewEmail, At
<1>3. Whole(x) /\ Runs(x) /\ Points(x, code)
    BY <1>1, Here, Zenon
<1>4. /\ y = [p \in Parts |-> y[p]] /\ y.at = at /\ y.op = x.op /\ y.answer = x.answer /\ y.won = x.won /\ y.guess = x.guess
      /\ y.code = x.code /\ y.address = x.address
    BY <1>1, <1>3, Zenon DEF To, Whole, Parts
<1>5. x.won => at = "write"
    BY <1>1, <1>2, <1>3, Zenon DEF Runs
<1>6. /\ at # "done" /\ at \notin {"latest", "verify"} /\ at \notin {"verify", "send"} /\ x.at # "done"
      /\ at \notin Reauth /\ at # "address" /\ (at = "write" => x.won)
    BY <1>1, <1>2, <1>3, Zenon DEF Reauth, Runs
<1>7. Whole(y)
    BY <1>4, Zenon DEF Whole
<1>8. Fine(x, y, code)
    BY <1>3, <1>4, <1>5, <1>6, <1>7, GoesOn, Zenon
<1>9. Fine(req[r], Done(r, "refused"), code)
    BY <1>2, DoneWell, Zenon
<1>10. QED
    BY <1>1, <1>2, <1>8, <1>9, NoWrite, Zenon

LEMMA WriteEmailStep == ASSUME ChangeInv, NEW r \in Requests, WriteEmail(r) PROVE ChangeInv'
<1>1. PICK answer : answer = (IF req[r].address \in others THEN "refused" ELSE "granted")
    BY Zenon
<1>2. req[r].at = "write" /\ Becomes(r, Done(r, answer)) /\ UNCHANGED <<code, counter, checked>>
    BY <1>1, Zenon DEF WriteEmail, At
<1>3. answer # "mismatch"
    BY <1>1, Zenon
<1>4. Fine(req[r], Done(r, answer), code)
    BY <1>2, <1>3, DoneWell, Zenon
<1>5. QED
    BY <1>2, <1>4, NoWrite, Zenon

-----------------------------------------------------------------------------
(* The step that compares a code.                                            *)

\* One row is verified: it counts one guess more, or is used.
Apart(rows, c) == \A d \in 1..Len(code) : d # c => rows[d] = code[d]

LEMMA VerifiedRows ==
    ASSUME Rows(code), NEW c \in 1..Len(code), NEW new, WholeRow(new), new.target = code[c].target, code[c].sent => new.sent,
           NEW next, next = [code EXCEPT ![c] = new]
    PROVE  /\ Rows(next) /\ Len(next) = Len(code) /\ next[c] = new
           /\ Apart(next, c)
           /\ \A x : Points(x, code) => Points(x, next)
<1>1. PICK n : n = Len(code)
    BY Zenon
<1>2. n \in Nat /\ DOMAIN code = 1..n
    BY <1>1, RowsAre, Zenon
<1>3. code = [d \in 1..n |-> code[d]]
    BY <1>2 DEF Rows
<1>4. /\ next = [d \in 1..n |-> next[d]] /\ DOMAIN next = 1..n /\ next[c] = new
      /\ \A d \in 1..n : d # c => next[d] = code[d]
    BY <1>1, <1>2, <1>3, Zenon
<1>5. (\E S : next \in Seq(S)) /\ Len(next) = n
    BY <1>2, <1>4, Listed, Zenon
<1>6. \A d \in 1..n : WholeRow(next[d])
    BY <1>1, <1>4, Zenon DEF Rows
<1>7. Rows(next)
    BY <1>5, <1>6, Zenon DEF Rows
<1>8. \A d \in 1..n : next[d].target = code[d].target /\ (code[d].sent => next[d].sent)
    BY <1>1, <1>4, Zenon
<1>9. \A x : Points(x, code) => Points(x, next)
    BY <1>1, <1>5, <1>8, Zenon DEF Points
<1>10. QED
    BY <1>1, <1>4, <1>5, <1>7, <1>9, Zenon DEF Apart

LEMMA OneMore ==
    ASSUME NEW c, NEW r, r \notin Missed(c), NEW n, Cardinality(Missed(c)) = n
    PROVE  Cardinality(Missed(c) \cup {r}) = n + 1
BY Few, FS_AddElement, Zenon

LEMMA FirstOne ==
    ASSUME NEW c, NEW r, r \notin Winners(c), Cardinality(Winners(c)) = 0
    PROVE  Cardinality(Winners(c) \cup {r}) = 1
<1>1. Cardinality(Winners(c) \cup {r}) = Cardinality(Winners(c)) + 1
    BY Few, FS_AddElement, Zenon
<1>2. QED
    BY <1>1

\* The request that typed the code wins it.
LEMMA MatchStep ==
    ASSUME ChangeInv, NEW r \in Requests, req[r].at = "verify", NEW c, c = req[r].code, SameCode(r), Matches(r),
           code' = [code EXCEPT ![c].state = "used"],
           Becomes(r, [To(r, "address") EXCEPT !.won = TRUE, !.address = code[c].target, !.attempts = 0, !.round = 1]),
           UNCHANGED <<counter, checked>>
    PROVE  ChangeInv'
<1>1. PICK x, y, old, new : /\ x = req[r] /\ old = code[c] /\ new = [old EXCEPT !.state = "used"]
                            /\ y = [To(r, "address") EXCEPT !.won = TRUE, !.address = code[c].target, !.attempts = 0, !.round = 1]
    BY Zenon
<1>2. Whole(x) /\ Runs(x) /\ Points(x, code) /\ Rows(code)
    BY <1>1, Here, Zenon DEF ChangeInv
<1>3. c \in 1..Len(code) /\ x.op = "confirm" /\ ~x.won /\ x.answer # "mismatch" /\ x.guess = c
    BY <1>1, <1>2, Zenon DEF Points, Runs, Matches
<1>4. WholeRow(old) /\ old.state = "standing"
    BY <1>1, <1>2, <1>3, Zenon DEF Rows, SameCode, Standing
<1>5. /\ new = [p \in RowParts |-> new[p]] /\ new.state = "used" /\ new.target = old.target
      /\ new.sent = old.sent /\ new.attempts = old.attempts
    BY <1>1, <1>4, Zenon DEF WholeRow, RowParts
<1>6. code' = [code EXCEPT ![c] = new]
    BY <1>1, Zenon
<1>7. WholeRow(new) /\ new.target = code[c].target /\ (code[c].sent => new.sent)
    BY <1>1, <1>4, <1>5, Zenon DEF WholeRow
<1>8. /\ Rows(code') /\ Len(code') = Len(code) /\ code'[c] = new
      /\ Apart(code', c)
      /\ \A z : Points(z, code) => Points(z, code')
    <2>1. Rows(code) /\ c \in 1..Len(code)
        BY <1>2, <1>3, Zenon
    <2>2. QED
        BY ONLY <2>1, <1>6, <1>7, VerifiedRows, Zenon
<1>9. /\ y = [p \in Parts |-> y[p]] /\ y.at = "address" /\ y.op = x.op /\ y.answer = x.answer /\ y.won = TRUE
      /\ y.guess = x.guess /\ y.code = x.code /\ y.address = old.target
    BY <1>1, <1>2, Zenon DEF To, Whole, Parts
<1>10. Whole(y) /\ Runs(y)
    BY <1>3, <1>9, Zenon DEF Whole, Runs, Reauth
<1>11. Points(y, code')
    <2>1. c # 0
        BY <1>2, <1>3, RowsAre
    <2>2. y.guess = c /\ y.code = c /\ y.address = old.target
        BY <1>1, <1>3, <1>9, Zenon
    <2>3. code[c].sent
        BY <1>2, <1>3, <2>1, Zenon DEF Points
    <2>4. code'[c].target = old.target /\ code'[c].sent
        BY <1>1, <1>5, <1>8, <2>3, Zenon
    <2>5. QED
        BY <1>3, <1>8, <2>1, <2>2, <2>4, Zenon DEF Points
<1>12. /\ req' = [q \in Requests |-> req'[q]]
       /\ \A q \in Requests : Whole(req'[q]) /\ Runs(req'[q]) /\ Points(req'[q], code')
       /\ req'[r] = y /\ \A q \in Requests : q # r => req'[q] = req[q]
    BY <1>1, <1>8, <1>10, <1>11, OthersGoOn, Zenon
<1>a. req[r].answer # "mismatch" /\ y.answer # "mismatch" /\ ~req[r].won /\ y.won /\ y.code = c
    BY <1>1, <1>3, <1>9, Zenon
<1>b. req'[r] = y /\ \A q \in Requests : q # r => req'[q] = req[q]
    BY <1>12, Zenon
<1>13. \A d : Missed(d)' = Missed(d)
    BY ONLY r \in Requests, <1>a, <1>b, Zenon DEF Missed
<1>14. \A d : d # c => Winners(d)' = Winners(d)
    BY ONLY r \in Requests, <1>a, <1>b, Zenon DEF Winners
<1>15. Winners(c)' = Winners(c) \cup {r} /\ r \notin Winners(c)
    BY ONLY r \in Requests, <1>a, <1>b, Zenon DEF Winners
<1>16. ASSUME NEW d \in 1..Len(code') PROVE Costs(d)' /\ Once(d)'
    <2>1. d \in 1..Len(code)
        BY <1>8, <1>16, Zenon
    <2>2. Costs(d) /\ Once(d)
        BY <2>1, Zenon DEF ChangeInv
    <2>3. CASE d # c
        BY <1>8, <1>13, <1>14, <2>1, <2>2, <2>3, Zenon DEF Costs, Once, Apart
    <2>4. CASE d = c
        <3>1. Costs(c)'
            BY <1>1, <1>5, <1>8, <1>13, <2>2, <2>4, Zenon DEF Costs
        <3>2. Cardinality(Winners(c)) = 0
            BY <1>1, <1>4, <2>2, <2>4 DEF Once
        <3>3. Cardinality(Winners(c)') = 1
            <4>1. Cardinality(Winners(c) \cup {r}) = 1
                BY ONLY <1>15, <3>2, FirstOne, Zenon
            <4>2. QED
                BY ONLY <1>15, <4>1, Zenon
        <3>4. Once(c)'
            BY <1>5, <1>8, <3>3, Zenon DEF Once
        <3>5. QED
            BY <2>4, <3>1, <3>4, Zenon
    <2>5. QED
        BY <2>3, <2>4, Zenon
<1>17. Counts'
    BY Zenon DEF ChangeInv, Counts
<1>18. QED
    BY <1>8, <1>12, <1>16, <1>17, Zenon DEF ChangeInv

\* A wrong guess costs the code one attempt, and is answered.
LEMMA MismatchStep ==
    ASSUME ChangeInv, NEW r \in Requests, req[r].at = "verify", NEW c, c = req[r].code, SameCode(r),
           NEW n, n = req[r].attempts + 1, NEW old, old = code[c],
           NEW new, new = [old EXCEPT !.attempts = n, !.state = IF n >= Attempts THEN "ended" ELSE @],
           code' = [code EXCEPT ![c] = new], Becomes(r, Done(r, "mismatch")), UNCHANGED <<counter, checked>>
    PROVE  ChangeInv'
<1>1. PICK x, y : x = req[r] /\ y = Done(r, "mismatch")
    BY Zenon
<1>2. Whole(x) /\ Runs(x) /\ Points(x, code) /\ Rows(code)
    BY <1>1, Here, Zenon DEF ChangeInv
<1>3. c \in 1..Len(code) /\ ~x.won /\ x.answer # "mismatch"
    BY <1>1, <1>2, Zenon DEF Points, Runs
<1>4. WholeRow(old) /\ old.state = "standing" /\ old.attempts = req[r].attempts
    BY <1>2, <1>3, Zenon DEF Rows, SameCode, Standing
<1>5. n = old.attempts + 1 /\ n \in Nat
    BY <1>4 DEF WholeRow
<1>6. /\ new = [p \in RowParts |-> new[p]] /\ new.state # "used" /\ new.target = old.target
      /\ new.sent = old.sent /\ new.attempts = n
    BY <1>4, Zenon DEF WholeRow, RowParts
<1>7. WholeRow(new) /\ new.target = code[c].target /\ (code[c].sent => new.sent)
    BY <1>5, <1>6, Zenon DEF WholeRow
<1>8. /\ Rows(code') /\ Len(code') = Len(code) /\ code'[c] = new
      /\ Apart(code', c)
      /\ \A z : Points(z, code) => Points(z, code')
    <2>1. Rows(code) /\ c \in 1..Len(code) /\ code' = [code EXCEPT ![c] = new]
        BY <1>2, <1>3, Zenon
    <2>2. QED
        BY ONLY <2>1, <1>7, VerifiedRows, Zenon
<1>9. /\ y = [p \in Parts |-> y[p]] /\ y.at = "done" /\ y.answer = "mismatch" /\ y.won = x.won
      /\ y.guess = 0 /\ y.code = x.code
    <2>1. y = [Waiting EXCEPT !.at = "done", !.answer = "mismatch", !.won = x.won, !.code = x.code, !.guess = 0, !.address = None]
        BY <1>1, <1>3, Zenon DEF Done, Ended
    <2>2. QED
        BY <2>1, Zenon DEF Waiting, Parts
<1>10. Whole(y) /\ Runs(y)
    BY <1>9, Zenon DEF Whole, Runs, Reauth
<1>11. Points(y, code')
    BY <1>1, <1>3, <1>8, <1>9, Zenon DEF Points
<1>12. /\ req' = [q \in Requests |-> req'[q]]
       /\ \A q \in Requests : Whole(req'[q]) /\ Runs(req'[q]) /\ Points(req'[q], code')
       /\ req'[r] = y /\ \A q \in Requests : q # r => req'[q] = req[q]
    BY <1>1, <1>8, <1>10, <1>11, OthersGoOn, Zenon
<1>a. req[r].answer # "mismatch" /\ y.answer = "mismatch" /\ ~req[r].won /\ ~y.won /\ y.code = c
    BY <1>1, <1>3, <1>9, Zenon
<1>b. req'[r] = y /\ \A q \in Requests : q # r => req'[q] = req[q]
    BY <1>12, Zenon
<1>13. \A d : Winners(d)' = Winners(d)
    BY ONLY r \in Requests, <1>a, <1>b, Zenon DEF Winners
<1>14. \A d : d # c => Missed(d)' = Missed(d)
    BY ONLY r \in Requests, <1>a, <1>b, Zenon DEF Missed
<1>15. Missed(c)' = Missed(c) \cup {r} /\ r \notin Missed(c)
    BY ONLY r \in Requests, <1>a, <1>b, Zenon DEF Missed
<1>16. ASSUME NEW d \in 1..Len(code') PROVE Costs(d)' /\ Once(d)'
    <2>1. d \in 1..Len(code)
        BY <1>8, <1>16, Zenon
    <2>2. Costs(d) /\ Once(d)
        BY <2>1, Zenon DEF ChangeInv
    <2>3. CASE d # c
        BY <1>8, <1>13, <1>14, <2>1, <2>2, <2>3, Zenon DEF Costs, Once, Apart
    <2>4. CASE d = c
        <3>1. Cardinality(Missed(c)) = old.attempts
            BY <2>2, <2>4, Zenon DEF Costs
        <3>2. Cardinality(Missed(c)') = old.attempts + 1
            BY ONLY <1>15, <3>1, OneMore, Zenon
        <3>3. Costs(c)'
            BY <1>5, <1>6, <1>8, <3>2, Zenon DEF Costs
        <3>4. Once(c)'
            <4>1. Cardinality(Winners(c)) = 0
                BY <1>4, <2>2, <2>4, Zenon DEF Once
            <4>2. QED
                BY <1>6, <1>8, <1>13, <4>1, Zenon DEF Once
        <3>5. QED
            BY <2>4, <3>3, <3>4, Zenon
    <2>5. QED
        BY <2>3, <2>4, Zenon
<1>17. Counts'
    BY Zenon DEF ChangeInv, Counts
<1>18. QED
    BY <1>8, <1>12, <1>16, <1>17, Zenon DEF ChangeInv

LEMMA SaveVerificationStep == ASSUME ChangeInv, NEW r \in Requests, SaveVerification(r) PROVE ChangeInv'
<1> DEFINE c == req[r].code
           n == req[r].attempts + 1
           new == [code[c] EXCEPT !.attempts = n, !.state = IF n >= Attempts THEN "ended" ELSE @]
<1>2. req[r].at = "verify" /\ UNCHANGED <<counter, checked>>
    BY Zenon DEF SaveVerification, At
<1>3. CASE ~SameCode(r) /\ Becomes(r, Again(r, "latest", VerifyRounds)) /\ UNCHANGED code
    <2>1. Fine(req[r], Again(r, "latest", VerifyRounds), code)
        BY <1>2, AgainWell, Zenon
    <2>2. UNCHANGED <<code, counter, checked>>
        BY <1>2, <1>3, Zenon
    <2>3. QED
        BY <1>3, <2>1, <2>2, NoWrite, Zenon
<1>4. CASE /\ SameCode(r) /\ Matches(r)
           /\ code' = [code EXCEPT ![c].state = "used"]
           /\ Becomes(r, [To(r, "address") EXCEPT !.won = TRUE, !.address = code[c].target, !.attempts = 0, !.round = 1])
    BY <1>2, <1>4, MatchStep, Zenon
<1>5. CASE /\ SameCode(r) /\ ~Matches(r)
           /\ code' = [code EXCEPT ![c].attempts = n, ![c].state = IF n >= Attempts THEN "ended" ELSE @]
           /\ Becomes(r, Done(r, "mismatch"))
    <2>1. code' = [code EXCEPT ![c] = new]
        BY <1>5, Zenon
    <2>2. PICK d, m, old, row : d = c /\ m = n /\ old = code[d] /\ row = new
        BY Zenon
    <2>3. /\ d = req[r].code /\ m = req[r].attempts + 1
          /\ row = [old EXCEPT !.attempts = m, !.state = IF m >= Attempts THEN "ended" ELSE @]
        BY <2>2, Zenon
    <2>4. code' = [code EXCEPT ![d] = row]
        BY <2>1, <2>2, Zenon
    <2>5. old = code[d]
        BY <2>2, Zenon
    <2>6. req[r].at = "verify" /\ SameCode(r) /\ Becomes(r, Done(r, "mismatch")) /\ UNCHANGED <<counter, checked>>
        BY <1>2, <1>5, Zenon
    <2>7. QED
        BY ONLY ChangeInv, r \in Requests, <2>3, <2>4, <2>5, <2>6, MismatchStep, Zenon
<1>6. QED
    BY <1>3, <1>4, <1>5, Zenon DEF SaveVerification

-----------------------------------------------------------------------------
(* Every behaviour.                                                          *)

LEMMA StillStep == ASSUME ChangeInv, UNCHANGED <<code, counter, checked, req>> PROVE ChangeInv'
<1>1. code' = code /\ counter' = counter /\ checked' = checked /\ req' = req
    BY Zenon
<1>2. \A c : Missed(c)' = Missed(c) /\ Winners(c)' = Winners(c)
    BY <1>1, Zenon DEF Missed, Winners
<1>3. \A c \in 1..Len(code') : Costs(c)' /\ Once(c)'
    BY <1>1, <1>2, Zenon DEF ChangeInv, Costs, Once
<1>4. Counts'
    BY <1>1, Zenon DEF ChangeInv, Counts
<1>5. Rows(code') /\ req' = [r \in Requests |-> req'[r]]
    BY <1>1, Zenon DEF ChangeInv
<1>6. \A r \in Requests : Whole(req'[r]) /\ Runs(req'[r]) /\ Points(req'[r], code')
    BY <1>1, Zenon DEF ChangeInv
<1>7. QED
    BY <1>3, <1>4, <1>5, <1>6, Zenon DEF ChangeInv

LEMMA ChangeStarts == Init => ChangeInv
<1> SUFFICES ASSUME Init PROVE ChangeInv
    BY Zenon
<1>1. Whole(Waiting) /\ Waiting.at = "idle" /\ Waiting.won = FALSE /\ Waiting.answer = "none" /\ Waiting.guess = 0
    BY Zenon DEF Waiting, Whole, Parts
<1>2. req = [r \in Requests |-> Waiting]
    BY Zenon DEF Init
<1>3. req = [r \in Requests |-> req[r]] /\ \A r \in Requests : req[r] = Waiting
    BY <1>2, Zenon
<1>4. Runs(Waiting) /\ Points(Waiting, code)
    <2>1. PICK x : x = Waiting
        BY Zenon
    <2>2. x.at = "idle" /\ x.won = FALSE /\ x.answer = "none" /\ x.guess = 0
        BY <1>1, <2>1, Zenon
    <2>3. Runs(x) /\ Points(x, code)
        BY <2>2, Zenon DEF Runs, Points, Reauth
    <2>4. QED
        BY <2>1, <2>3, Zenon
<1>5. \A r \in Requests : Whole(req[r]) /\ Runs(req[r]) /\ Points(req[r], code)
    BY <1>1, <1>3, <1>4, Zenon
<1>6. Rows(code) /\ \A c \in 1..Len(code) : code[c].attempts = 0 /\ code[c].state # "used"
    <2>1. CASE code = <<>>
        <3>1. code \in Seq({}) /\ Len(code) = 0
            BY <2>1
        <3>2. QED
            BY <3>1 DEF Rows
    <2>2. ASSUME NEW a, code = <<[NewCode(a, 1) EXCEPT !.sent = TRUE]>>
          PROVE  Rows(code) /\ \A c \in 1..Len(code) : code[c].attempts = 0 /\ code[c].state # "used"
        <3>1. PICK row : row = [NewCode(a, 1) EXCEPT !.sent = TRUE]
            BY Zenon
        <3>2. WholeRow(row) /\ row.attempts = 0 /\ row.state # "used"
            BY <3>1, Zenon DEF NewCode, WholeRow, RowParts
        <3>3. code = <<row>>
            BY <2>2, <3>1, Zenon
        <3>4. code \in Seq({row}) /\ Len(code) = 1 /\ code[1] = row
            BY <3>3
        <3>5. \A c \in 1..Len(code) : code[c] = row
            BY <3>4
        <3>6. QED
            BY <3>2, <3>4, <3>5, Zenon DEF Rows
    <2>3. QED
        BY <2>1, <2>2, Zenon DEF Init
<1>7. \A c : Missed(c) = {} /\ Winners(c) = {}
    <2>1. \A r \in Requests : req[r].answer # "mismatch" /\ ~req[r].won
        BY <1>1, <1>3, Zenon
    <2>2. QED
        BY <2>1, Zenon DEF Missed, Winners
<1>8. Cardinality({}) = 0
    BY FS_EmptySet, Zenon
<1>9. \A c \in 1..Len(code) : Costs(c) /\ Once(c)
    BY <1>6, <1>7, <1>8, Zenon DEF Costs, Once
<1>10. Counts
    BY Zenon DEF Init, Counts, NoCounter
<1>11. QED
    BY <1>3, <1>5, <1>6, <1>9, <1>10, Zenon DEF ChangeInv

LEMMA RequestSteps == ASSUME ChangeInv, NEW r \in Requests, Step(r) PROVE ChangeInv'
<1>1. /\ (\E a \in Addresses, right \in BOOLEAN : RequestEmailChange(r, a, right)) => ChangeInv'
      /\ (\E right \in BOOLEAN : ChangePassword(r, right)) => ChangeInv'
      /\ (\E guess \in {0} \cup DOMAIN code : ConfirmEmailChange(r, guess)) => ChangeInv'
    BY RequestStep, PasswordStep, ConfirmStep, Zenon
<1>2. /\ ResendEmailChange(r) => ChangeInv'
      /\ ReadPending(r) => ChangeInv'
      /\ CancelEmailChange(r) => ChangeInv'
      /\ Fail(r) => ChangeInv'
    BY ResendStep, ReadPendingStep, CancelStep, FailStep, Zenon
<1>3. /\ FindCounter(r) => ChangeInv'
      /\ SaveCount(r) => ChangeInv'
      /\ FindToClear(r) => ChangeInv'
      /\ SaveClear(r) => ChangeInv'
    BY FindCounterStep, SaveCountStep, FindToClearStep, SaveClearStep, Zenon
<1>4. /\ CheckNewEmail(r) => ChangeInv'
      /\ CheckCooldown(r) => ChangeInv'
      /\ CheckCap(r) => ChangeInv'
      /\ Issue(r) => ChangeInv'
    BY CheckNewEmailStep, CheckCooldownStep, CheckCapStep, IssueStep, Zenon
<1>5. /\ SendCode(r) => ChangeInv'
      /\ Undo(r) => ChangeInv'
      /\ ReadLatest(r) => ChangeInv'
    BY SendCodeStep, UndoStep, ReadLatestStep, Zenon
<1>6. /\ SaveVerification(r) => ChangeInv'
      /\ WriteEmail(r) => ChangeInv'
    BY SaveVerificationStep, WriteEmailStep, Zenon
<1>7. QED
    BY <1>1, <1>2, <1>3, <1>4, <1>5, <1>6, Zenon DEF Step

LEMMA ChangeSteps == ASSUME ChangeInv, [Next]_vars PROVE ChangeInv'
<1>1. ASSUME NEW a, TakeAddress(a) PROVE ChangeInv'
    BY <1>1, StillStep, Zenon DEF TakeAddress
<1>2. CASE Tick
    BY <1>2, StillStep, Zenon DEF Tick
<1>3. CASE UNCHANGED vars
    BY <1>3, StillStep, Zenon DEF vars
<1>4. QED
    BY <1>1, <1>2, <1>3, RequestSteps, Zenon DEF Next

LEMMA ChangesHold == ChangeInv => AddressChanged
<1> SUFFICES ASSUME ChangeInv PROVE AddressChanged
    BY Zenon
<1>1. DOMAIN code = 1..Len(code)
    BY RowsAre, Zenon DEF ChangeInv
<1>2. GuessesCost
    BY <1>1, Zenon DEF GuessesCost, ChangeInv, Costs, Missed
<1>3. ConsumedOnce
    BY <1>1, Zenon DEF ConsumedOnce, ChangeInv, Once, Winners
<1>4. AddressProven
    BY Zenon DEF AddressProven, ChangeInv, Points, Runs
<1>5. ChecksPerLock
    BY Zenon DEF ChecksPerLock, ChangeInv, Counts
<1>6. QED
    BY <1>2, <1>3, <1>4, <1>5, Zenon DEF AddressChanged

\* However many requests ask, ask again, type, cancel and confirm passwords at once, and
\* wherever their statements fail: each wrong guess cost its code one attempt, a code is
\* consumed once and by who typed it, the address set is the one the code was mailed to, and
\* the passwords checked are what the counter counts (Codes.Issue, Codes.Verify,
\* Profile.ConfirmEmailChange, Reauth.Confirm).
THEOREM AddressesChangeRightly == Spec => []AddressChanged
<1>1. Init => ChangeInv
    BY ChangeStarts, Zenon
<1>2. ChangeInv /\ [Next]_vars => ChangeInv'
    BY ChangeSteps, Zenon
<1>3. ChangeInv => AddressChanged
    BY ChangesHold, Zenon
<1>4. QED
    BY <1>1, <1>2, <1>3, PTL DEF Spec
=============================================================================
