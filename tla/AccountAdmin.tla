----------------------------- MODULE AccountAdmin -----------------------------
(* The administration of accounts (identity/account: Admin, Profile, Users),  *)
(* its store (identity/gormstore) and the routes in front of it               *)
(* (identity/http): accounts are created and changed by forms that post every *)
(* field, each request reading the account, asking whether the address is     *)
(* free, and then writing the row, the application's extension and the        *)
(* history in one transaction.  Sessions and passwords are in SignIn, the     *)
(* e-mail change by code in EmailChange.                                      *)
EXTENDS Integers, Sequences, FiniteSets

CONSTANTS
    AccountIds,     \* ids the table hands out, in order: 1..n
    Forms,          \* what an administrator may post: a record of Fields
    OwnForms,       \* what a person may post about themselves: name and phone
    Locales,        \* languages the application offers
    AdminRequests,  \* requests in flight
    TooWide,        \* values wider than the store keeps
    InReach,        \* ids in reach of whoever asks (UserReach)
    Extended,       \* whether the application has a UserExtension
    MaxAdminOps     \* bound: requests that start

Fields == {"login", "name", "email", "phone", "locale"}

(* Ids are counted from 1; a form posts every field, and a person's own two.  *)
ASSUME AccountAdminAssumption ==
    /\ AccountIds \subseteq Nat \ {0}
    /\ \A form \in Forms : form = [f \in Fields |-> form[f]]
    /\ \A form \in OwnForms : form = [f \in {"name", "phone"} |-> form[f]]

VARIABLES
    accounts,       \* the accounts table: id -> {} or {row}
    changes,        \* the audit rows of accounts, oldest first
    admins,         \* the requests: step, what was read, what is asked
    adminOps        \* requests started

aaVars == <<accounts, changes, admins, adminOps>>

IdleAdmin == [at |-> "idle", id |-> 0, was |-> {}, form |-> {}, by |-> ""]

AdminInit ==
    /\ accounts = [a \in AccountIds |-> {}]
    /\ changes = <<>>
    /\ admins = [r \in AdminRequests |-> IdleAdmin]
    /\ adminOps = 0

-------------------------------------------------------------------------------
(* The store.                                                                 *)

(* Whether another account has the login, or the address: what the unique     *)
(* indexes refuse, and what is asked of the table to explain the refusal.     *)
loginTaken(login, except) ==
    \E a \in AccountIds \ {except} : \E row \in accounts[a] : row.login = login

emailTaken(email, except) ==
    \E a \in AccountIds \ {except} : \E row \in accounts[a] : row.email = email

(* The unique indexes refuse a write of these columns.                        *)
refused(set, id) ==
    \/ "login" \in DOMAIN set /\ loginTaken(set["login"], id)
    \/ "email" \in DOMAIN set /\ emailTaken(set["email"], id)

(* Accounts.Update: only the columns that are set are written.                *)
StoreUpdate(id, set) ==
    accounts' = [accounts EXCEPT ![id] = { [f \in Fields |-> IF f \in DOMAIN set THEN set[f] ELSE row[f]] : row \in @ }]

(* Accounts.Create: the next id of the table.                                 *)
nextId == CHOOSE a \in AccountIds : accounts[a] = {} /\ \A b \in AccountIds : b < a => accounts[b] # {}

StoreCreate(form) == accounts' = [accounts EXCEPT ![nextId] = {form}]

(* ChangeLog.Record: one row more of the account's history.                   *)
RecordChange(id, action, after) ==
    changes' = Append(changes, [account |-> id, action |-> action, after |-> after])

-------------------------------------------------------------------------------
(* The services: what a request holds between its reads and its transaction.  *)

Goes(r, next) == admins' = [admins EXCEPT ![r] = next]
Ends(r) == Goes(r, IdleAdmin)

Starts(r, next) ==
    /\ adminOps < MaxAdminOps
    /\ admins[r].at = "idle"
    /\ adminOps' = adminOps + 1
    /\ Goes(r, next)
    /\ UNCHANGED <<accounts, changes>>

(* fitAccount, fit: a value wider than the store keeps is refused.            *)
fit(form) == \A f \in DOMAIN form : form[f] \notin TooWide

(* reach: somebody out of reach answers as one who does not exist.            *)
reach(id) == id \in InReach

(* createUser, Admin.CreateWithExt up to the question whether the address is  *)
(* free.                                                                      *)
createUser(r, form) ==
    /\ fit(form)
    /\ Starts(r, [at |-> "free", id |-> 0, was |-> {}, form |-> {form}, by |-> "create"])

(* updateUser, Admin.Update: the account is read, unlocked.                   *)
updateUser(r, id, form) ==
    /\ reach(id)
    /\ fit(form)
    /\ accounts[id] # {}
    /\ Starts(r, [at |-> "diff", id |-> id, was |-> accounts[id], form |-> {form}, by |-> "update"])

(* updateProfile, Profile.UpdateDetails: likewise, by the person themselves.  *)
updateProfile(r, id, form) ==
    /\ fit(form)
    /\ accounts[id] # {}
    /\ Starts(r, [at |-> "diff", id |-> id, was |-> accounts[id], form |-> {form}, by |-> "profile"])

(* changeLocale, Users.ChangeLocale: the person's own language, which is not  *)
(* on the history.                                                            *)
changeLocale(r, id, locale) ==
    /\ accounts[id] # {}
    /\ Starts(r, [at |-> "locale", id |-> id, was |-> {}, form |-> {[locale |-> locale]}, by |-> ""])

(* diff: the fields of the form that differ from what was read.               *)
diff(was, form) == [f \in {f \in DOMAIN form : form[f] # was[f]} |-> form[f]]

Was(r) == CHOOSE row \in admins[r].was : TRUE
Form(r) == CHOOSE form \in admins[r].form : TRUE

(* What is written: an administrator's differing fields, and both of a        *)
(* person's own fields when either differs.                                   *)
Written(r) ==
    CASE admins[r].by = "update" -> diff(Was(r), Form(r))
      [] OTHER -> Form(r)

OldValuesMutant(r) == IF admins[r].by = "create" THEN Form(r) ELSE [f \in DOMAIN diff(Was(r), Form(r)) |-> Was(r)[f]]
(* What the history is told: the differing fields; all of them for a new one. *)
Told(r) == IF admins[r].by = "create" THEN Form(r) ELSE diff(Was(r), Form(r))

(* Nothing differs: nothing to write, unless the extension is given its data. *)
(* A changed address is asked about first.                                    *)
Differs(r) ==
    /\ admins[r].at = "diff"
    /\ LET told == Told(r)
           by == admins[r].by IN
       \/ /\ DOMAIN told = {}
          /\ ~(by = "update" /\ Extended)
          /\ Ends(r)
       \/ /\ DOMAIN told # {} \/ (by = "update" /\ Extended)
          /\ Goes(r, [admins[r] EXCEPT !.at = IF "email" \in DOMAIN told THEN "free" ELSE "write"])
    /\ UNCHANGED <<accounts, changes, adminOps>>

(* emailFree: refuse an address that belongs to another account.              *)
emailFree(r) ==
    /\ admins[r].at = "free"
    /\ IF emailTaken(Form(r)["email"], admins[r].id) THEN Ends(r)
       ELSE Goes(r, [admins[r] EXCEPT !.at = "write"])
    /\ UNCHANGED <<accounts, changes, adminOps>>

(* within: the row, the extension and the history are written together.       *)
UpdateWrites(r) ==
    /\ admins[r].at = "write"
    /\ admins[r].by \in {"update", "profile"}
    /\ ~refused(Written(r), admins[r].id)
    /\ StoreUpdate(admins[r].id, Written(r))
    /\ IF DOMAIN Told(r) = {} THEN UNCHANGED changes ELSE RecordChange(admins[r].id, admins[r].by, Told(r))
    /\ Ends(r)
    /\ UNCHANGED adminOps

CreateWrites(r) ==
    /\ admins[r].at = "write"
    /\ admins[r].by = "create"
    /\ ~refused(Form(r), 0)
    /\ \E a \in AccountIds : accounts[a] = {}
    /\ StoreCreate(Form(r))
    /\ RecordChange(nextId, "create", Told(r))
    /\ Ends(r)
    /\ UNCHANGED adminOps

(* stored: an index refused the write, or the extension did, and the          *)
(* transaction leaves nothing.                                                *)
Refused(r) ==
    /\ admins[r].at = "write"
    /\ refused(Written(r), admins[r].id) \/ (Extended /\ admins[r].by # "profile")
    /\ Ends(r)
    /\ UNCHANGED <<accounts, changes, adminOps>>

(* Accounts.SetLocale                                                         *)
SetLocale(r) ==
    /\ admins[r].at = "locale"
    /\ StoreUpdate(admins[r].id, Form(r))
    /\ Ends(r)
    /\ UNCHANGED <<changes, adminOps>>

AdminNext ==
    \E r \in AdminRequests :
        \/ \E form \in Forms : createUser(r, form)
        \/ \E id \in AccountIds :
             \/ \E form \in Forms : updateUser(r, id, form)
             \/ \E form \in OwnForms : updateProfile(r, id, form)
             \/ \E locale \in Locales : changeLocale(r, id, locale)
        \/ Differs(r) \/ emailFree(r)
        \/ UpdateWrites(r) \/ CreateWrites(r) \/ Refused(r) \/ SetLocale(r)

AdminSpec == AdminInit /\ [][AdminNext]_aaVars

-------------------------------------------------------------------------------
(* What the history says a field of an account is now: what the last row      *)
(* that names the field set it to.                                            *)
Naming(id, f) == {i \in DOMAIN changes : changes[i].account = id /\ f \in DOMAIN changes[i].after}

HistorySays(id, f) ==
    \A row \in accounts[id] :
        /\ Naming(id, f) # {}
        /\ changes[CHOOSE i \in Naming(id, f) : \A j \in Naming(id, f) : j <= i].after[f] = row[f]

(* No two accounts have one login or one address, whichever requests found    *)
(* the address free before either wrote it (emailFree, then the transaction). *)
NamesApart ==
    \A a, b \in AccountIds : \A x \in accounts[a], y \in accounts[b] :
        a # b => x.login # y.login /\ x.email # y.email

(* The history explains every account's login and address: what the last row  *)
(* that names them set is what they are, whatever stale form was posted       *)
(* meanwhile and however the requests interleaved (Admin.Update writes only   *)
(* what it puts on the history).                                              *)
HistoryTells == \A id \in AccountIds : \A f \in {"login", "email"} : HistorySays(id, f)

(* What UpdateDetails says of itself: "what changed is on the account's       *)
(* history" (profile.go), so the history explains the name and the phone too. *)
DetailsTold == \A id \in AccountIds : \A f \in {"name", "phone"} : HistorySays(id, f)

\* No two accounts share a login or an address, and the history explains both, whatever
\* stale forms are posted at once (Admin.Create, Update, ChangeEmail).
AccountsTold == NamesApart /\ HistoryTells
=============================================================================
