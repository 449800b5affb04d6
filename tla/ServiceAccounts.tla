--------------------------- MODULE ServiceAccounts ---------------------------
(***************************************************************************)
(* Service accounts and their API keys (identity/serviceaccount) over the  *)
(* SQL store, and the daily notices about keys that expire or went unused. *)
(* A change reads the account, and writes in a transaction of its own      *)
(* together with its line of the audit trail; authentication reads the key *)
(* and then the account.                                                   *)
(*                                                                         *)
(* Time is counted per key: `left` to the expiry (Never: none), `idle`     *)
(* since the last use or the creation, which stops at UnusedAfter.         *)
(***************************************************************************)
EXTENDS Naturals, FiniteSets, TLC

CONSTANTS SaReqs,          \* requests in progress together
          NoticeWorkers,   \* processes that run the daily notices
          AccountIds, KeyIds, Tenants,
          Owners,          \* the people the directory knows
          Actors,          \* who asks: [id, person, manage, revoke, view] (view: [all, tenants])
          MaxActiveKeys, ExpiryWarning, UnusedAfter, LongestLife,
          CountsMatched,   \* an insert refused as a duplicate reports an affected row (MySQL, clientFoundRows)
          MaxSaOps         \* bound of the instance

VARIABLES saAccounts,  \* account id -> [tenant, owner, deactivated], of the ids that exist
          saKeys,      \* key id -> [account, left, idle, revokedBy], of the ids that exist
          claims,      \* the recorded notices, <<key, kind>>
          published,   \* <<key, kind>> -> how many events were published
          saTrail,     \* the audit trail, a set of [entity, id, action] (how often is left out)
          saReq, nw, saOps

saVars == <<saAccounts, saKeys, claims, published, saTrail, saReq, nw, saOps>>

Never == LongestLife + 1
Kinds == {"expiring", "unused"}
SaIdle == [pc |-> "idle"]

(* Nobody is 0; a deactivation and a revocation record who did it (a service is 0, so the   *)
(* fact itself is kept in a set of at most one).                                            *)
AccountActive(a) == a.deactivated = {}
(* Usable: not revoked and not expired. *)
Usable(k) == k.revokedBy = {} /\ k.left > 0

SaNothingYet ==
    /\ claims = {}
    /\ published = [n \in KeyIds \X Kinds |-> 0]
    /\ saReq = [r \in SaReqs |-> SaIdle]
    /\ nw = [w \in NoticeWorkers |-> SaIdle]
    /\ saOps = 0
SaInit == saAccounts = <<>> /\ saKeys = <<>> /\ saTrail = {} /\ SaNothingYet

-----------------------------------------------------------------------------
(* Who may do what. *)

(* Sees: an account of a tenant named, or any account. *)
Sees(view, account) == view.all \/ (account.tenant > 0 /\ account.tenant \in view.tenants)
(* List: the accounts the visibility reaches. *)
SaList(view) == {a \in DOMAIN saAccounts : view.all \/ saAccounts[a].tenant \in view.tenants}
(* find: an account that is not seen is not found. *)
Found(actor, a) == a \in DOMAIN saAccounts /\ Sees(actor.view, saAccounts[a])
(* manager: holds the permission and is a person. *)
manager(actor) == actor.manage /\ actor.person
revoker(actor) == actor.revoke
(* checkPlaces: the tenant and the owner exist. *)
checkPlaces(in) == in.tenant \in {0} \cup Tenants /\ in.owner \in Owners
(* keyExpiry: in the future and within the longest life, or never. *)
keyExpiry(left) == left = Never \/ left \in 1..LongestLife

ActiveKeys(a) == Cardinality({k \in DOMAIN saKeys : saKeys[k].account = a /\ Usable(saKeys[k])})

SaStep(r, next) == saReq' = [saReq EXCEPT ![r] = next] /\ UNCHANGED nw
SaTrailed(entity, id, action) == saTrail' = saTrail \cup {[entity |-> entity, id |-> id, action |-> action]}
SaCount == saOps < MaxSaOps /\ saOps' = saOps + 1

-----------------------------------------------------------------------------
(* Accounts. *)

SaCreate(r, actor, in) ==
    /\ saReq[r].pc = "idle" /\ SaCount
    /\ manager(actor) /\ checkPlaces(in)
    /\ \E a \in AccountIds \ DOMAIN saAccounts :
        /\ saAccounts' = (a :> [tenant |-> in.tenant, owner |-> in.owner, deactivated |-> {}]) @@ saAccounts
        /\ SaTrailed("service_accounts", a, "create")
    /\ UNCHANGED <<saKeys, claims, published, saReq, nw>>

(* Update and Deactivate read the account ... *)
SaRead(r, actor, a, op) ==
    /\ saReq[r].pc = "idle" /\ SaCount
    /\ manager(actor) /\ Found(actor, a)
    /\ op.kind = "update" => checkPlaces(op)
    /\ op.kind = "deactivate" => AccountActive(saAccounts[a])     \* twice keeps the first
    /\ SaStep(r, [pc |-> op.kind, id |-> a, by |-> actor.id, read |-> saAccounts[a], in |-> op])
    /\ UNCHANGED <<saAccounts, saKeys, claims, published, saTrail>>

(* ... and the store writes the name, tenant, owner, update and deactivation of the copy. *)
StoreUpdate(a, after) == saAccounts' = [saAccounts EXCEPT ![a] = after]
SaUpdate(r) ==
    /\ saReq[r].pc = "update"
    /\ StoreUpdate(saReq[r].id, [saReq[r].read EXCEPT !.tenant = saReq[r].in.tenant, !.owner = saReq[r].in.owner])
    /\ SaTrailed("service_accounts", saReq[r].id, "update")
    /\ SaStep(r, SaIdle)
    /\ UNCHANGED <<saKeys, claims, published, saOps>>
Deactivate(r) ==
    /\ saReq[r].pc = "deactivate"
    /\ StoreUpdate(saReq[r].id, [saReq[r].read EXCEPT !.deactivated = {saReq[r].by}])
    /\ SaTrailed("service_accounts", saReq[r].id, "deactivate")
    /\ SaStep(r, SaIdle)
    /\ UNCHANGED <<saKeys, claims, published, saOps>>

-----------------------------------------------------------------------------
(* Keys. *)

(* keyTarget and CreateKey: an active account with room for a key ... *)
keyTarget(r, actor, a, left) ==
    /\ saReq[r].pc = "idle" /\ SaCount
    /\ manager(actor) /\ Found(actor, a) /\ AccountActive(saAccounts[a])
    /\ keyExpiry(left)
    /\ ActiveKeys(a) < MaxActiveKeys
    /\ DOMAIN saKeys # KeyIds                                   \* bound of the instance
    /\ SaStep(r, [pc |-> "key", id |-> a, by |-> actor.id, left |-> left])
    /\ UNCHANGED <<saAccounts, saKeys, claims, published, saTrail>>
(* ... and storeKey. *)
storeKey(r) ==
    /\ saReq[r].pc = "key"
    /\ \E k \in KeyIds \ DOMAIN saKeys :
        /\ saKeys' = (k :> [account |-> saReq[r].id, left |-> saReq[r].left, idle |-> 0, revokedBy |-> {}]) @@ saKeys
        /\ SaTrailed("service_account_keys", k, "create")
    /\ SaStep(r, SaIdle)
    /\ UNCHANGED <<saAccounts, claims, published, saOps>>

(* keyToRevoke, and the revocation of a key that was not revoked when it was read. *)
keyToRevoke(r, actor, k) ==
    /\ saReq[r].pc = "idle" /\ SaCount
    /\ revoker(actor) /\ k \in DOMAIN saKeys /\ Found(actor, saKeys[k].account)
    /\ saKeys[k].revokedBy = {}
    /\ SaStep(r, [pc |-> "revoke", id |-> k, by |-> IF actor.person THEN actor.id ELSE 0])
    /\ UNCHANGED <<saAccounts, saKeys, claims, published, saTrail>>
StoreRevokeKey(k, by) == saKeys' = [saKeys EXCEPT ![k].revokedBy = IF @ = {} THEN {by} ELSE @]
RevokeKey(r) ==
    /\ saReq[r].pc = "revoke"
    /\ StoreRevokeKey(saReq[r].id, saReq[r].by)
    /\ SaTrailed("service_account_keys", saReq[r].id, "revoke")
    /\ SaStep(r, SaIdle)
    /\ UNCHANGED <<saAccounts, claims, published, saOps>>

(* Authenticate: the key by the hash of the secret, then its account, then the last use. *)
FindByKeyHash(r, k) ==
    /\ saReq[r].pc = "idle" /\ SaCount
    /\ k \in DOMAIN saKeys
    /\ SaStep(r, [pc |-> "auth", id |-> k, key |-> saKeys[k]])
    /\ UNCHANGED <<saAccounts, saKeys, claims, published, saTrail>>
Allowed(key) == Usable(key) /\ AccountActive(saAccounts[key.account])
Authenticate(r) ==
    /\ saReq[r].pc = "auth"
    /\ \/ Allowed(saReq[r].key) /\ saKeys' = [saKeys EXCEPT ![saReq[r].id].idle = 0]
       \/ UNCHANGED saKeys          \* refused, used within the minute, or the last use is not recorded
    /\ SaStep(r, SaIdle)
    /\ UNCHANGED <<saAccounts, claims, published, saTrail, saOps>>

-----------------------------------------------------------------------------
(* The daily notices. *)

Notices(k) ==
    {kind \in Kinds : /\ Usable(k)
                      /\ kind = "expiring" => k.left <= ExpiryWarning
                      /\ kind = "unused" => k.idle >= UnusedAfter}
WorkingKeys == {k \in DOMAIN saKeys : Usable(saKeys[k]) /\ AccountActive(saAccounts[saKeys[k].account])}
Due == {n \in WorkingKeys \X Kinds : n[2] \in Notices(saKeys[n[1]])}

(* Send reads the working keys, and then what they were told about. *)
SendReads(w) ==
    /\ nw[w].pc = "idle" /\ Due \ claims # {}
    /\ nw' = [nw EXCEPT ![w] = [pc |-> "tell", todo |-> Due \ claims]]
    /\ UNCHANGED <<saAccounts, saKeys, claims, published, saTrail, saReq, saOps>>

(* A slip: the event is published whether or not the claim was won. *)
TellAnywayMutant(w) ==
    /\ nw[w].pc = "tell"
    /\ \E n \in nw[w].todo :
        /\ claims' = claims \cup {n}
        /\ published' = [published EXCEPT ![n] = @ + 1]
        /\ nw' = [nw EXCEPT ![w].todo = @ \ {n}]
    /\ UNCHANGED <<saAccounts, saKeys, saTrail, saReq, saOps>>
(* ClaimNotice: won when the insert affected a row, or reports one for the row that is there.  *)
Claimed(n) == n \notin claims \/ CountsMatched
(* tell: the claim and the event are one transaction; a claim that is not won tells nothing. *)
tell(w) ==
    /\ nw[w].pc = "tell"
    /\ \E n \in nw[w].todo :
        /\ claims' = claims \cup {n}
        /\ published' = IF Claimed(n) THEN [published EXCEPT ![n] = @ + 1] ELSE published
        /\ nw' = [nw EXCEPT ![w].todo = @ \ {n}]
    /\ UNCHANGED <<saAccounts, saKeys, saTrail, saReq, saOps>>
(* A notice that fails is left for the next run. *)
TellFails(w) ==
    /\ nw[w].pc = "tell"
    /\ \E n \in nw[w].todo : nw' = [nw EXCEPT ![w].todo = @ \ {n}]
    /\ UNCHANGED <<saAccounts, saKeys, claims, published, saTrail, saReq, saOps>>
SendDone(w) ==
    /\ nw[w].pc = "tell" /\ nw[w].todo = {}
    /\ nw' = [nw EXCEPT ![w] = SaIdle]
    /\ UNCHANGED <<saAccounts, saKeys, claims, published, saTrail, saReq, saOps>>

(* A day passes. *)
Older(k) ==
    [k EXCEPT !.left = IF @ = Never \/ @ = 0 THEN @ ELSE @ - 1, !.idle = IF @ < UnusedAfter THEN @ + 1 ELSE @]
SaTick ==
    /\ saKeys # <<>>
    /\ saKeys' = [k \in DOMAIN saKeys |-> Older(saKeys[k])]
    /\ UNCHANGED <<saAccounts, claims, published, saTrail, saReq, nw, saOps>>

SaNext ==
    \/ \E r \in SaReqs, actor \in Actors :
        \/ \E tenant \in Tenants \cup {0}, owner \in Owners : SaCreate(r, actor, [tenant |-> tenant, owner |-> owner])
        \/ \E a \in AccountIds :
            \/ \E tenant \in Tenants \cup {0}, owner \in Owners :
                SaRead(r, actor, a, [kind |-> "update", tenant |-> tenant, owner |-> owner])
            \/ SaRead(r, actor, a, [kind |-> "deactivate"])
            \/ \E left \in 1..Never : keyTarget(r, actor, a, left)
        \/ \E k \in KeyIds : keyToRevoke(r, actor, k)
    \/ \E r \in SaReqs :
        \/ \E k \in KeyIds : FindByKeyHash(r, k)
        \/ SaUpdate(r) \/ Deactivate(r) \/ storeKey(r) \/ RevokeKey(r) \/ Authenticate(r)
    \/ \E w \in NoticeWorkers : SendReads(w) \/ tell(w) \/ TellFails(w) \/ SendDone(w)
    \/ SaTick

(* The workers run again and again, and a notice does not fail for ever. *)
SaFairness ==
    \A w \in NoticeWorkers : WF_saVars(SendReads(w)) /\ SF_saVars(tell(w)) /\ WF_saVars(SendDone(w))
SaSpec == SaInit /\ [][SaNext]_saVars /\ SaFairness

-----------------------------------------------------------------------------
(* Each condition of a key is announced at most once, and exactly when it is recorded, with *)
(* any number of processes running the notices and with notices that fail.                  *)
NoticedOnce == \A n \in KeyIds \X Kinds : published[n] = IF n \in claims THEN 1 ELSE 0

(* The first revocation of a key is kept, and a key never works again after it. *)
RevokedForGood ==
    [][\A k \in DOMAIN saKeys : saKeys[k].revokedBy # {} => saKeys'[k].revokedBy = saKeys[k].revokedBy]_saVars

(* A key that stays in a condition it was not told about is told. *)
OwnersTold == \A n \in KeyIds \X Kinds : n \in Due ~> (n \in claims \/ n \notin Due)

(* Deactivating an account is final: no other change makes its keys work again. *)
DeactivatedStays ==
    [][\A a \in DOMAIN saAccounts : ~AccountActive(saAccounts[a]) => ~AccountActive(saAccounts'[a])]_saVars
=============================================================================
