------------------------------- MODULE Authz -------------------------------
(***************************************************************************)
(* Role and access administration running beside the decisions it governs: *)
(* the store of custom roles and bindings (authz/gormstore), the cache of  *)
(* effective access each process keeps (authz/cache.go), the engine's load *)
(* of a subject's access in several queries (authz/engine.go), and the     *)
(* administration of authz.Admin and access/admin with its three moments:  *)
(* the check of the actor's rights, the write, and the eviction.           *)
(*                                                                         *)
(* An operation is a record in req: pc says which moment comes next.       *)
(* Other subjects' requests, and other processes over the same database,   *)
(* run between any two moments.                                            *)
(***************************************************************************)
EXTENDS AuthzRules

CONSTANTS
    Procs,        \* instances of the application, each with its own cache
    AdminProcs,   \* those among them that administration is routed to
    Reqs,         \* requests that may be in flight
    Drafts,       \* the definitions a custom role may be given
    StartRoles, StartBindings,                  \* what the store holds at first
    SeedBindings, \* what Seed is called with
    MaxOps,       \* bound: operations started
    MaxBindings   \* bound: binding ids handed out

Bindings == [id : Nat, subject : Subjects, role : Refs, scope : Scopes]

\* Ids are handed out from 1 on.
ASSUME AuthzAssumption ==
    /\ RoleIds \subseteq Nat \ {0} /\ AdminProcs \subseteq Procs
    /\ StartBindings \subseteq Bindings /\ SeedBindings \subseteq Bindings

VARIABLES
    roles,     \* custom role id -> role, or NoRole
    bindings,  \* set of [id, subject, role (a reference), scope]
    nextId,    \* the next binding id (auto-increment)
    nextRole,  \* the next custom role id (auto-increment)
    cache,     \* process -> subject -> entry, or NoEntry
    epoch,     \* process -> evictions so far
    own,       \* process -> subject -> the request holding its own-change lock, or None
    req,       \* request -> what it is doing
    ops,       \* operations started (bounded)
    byOthers   \* history: subjects whose access somebody else changed

storeVars == <<roles, bindings, nextId, nextRole>>
cacheVars == <<cache, epoch>>
authzVars == <<roles, bindings, nextId, nextRole, cache, epoch, own, req, ops, byOthers>>

None == "none"
NoEntry == [eff |-> {}, roleIDs |-> {0}, lag |-> FALSE]

Idle == [op |-> "idle"]

-----------------------------------------------------------------------------
(* What the store holds, and the access it amounts to. *)

\* The subject's access as the store stands.
AccessNow(s) == BuildAll(roles, BindingsFor(bindings, s))

\* Effective as an administrative check meets it: the entry, or a fresh load.
EffectiveAt(p, s) == IF cache[p][s] # NoEntry THEN cache[p][s].eff ELSE AccessNow(s)

\* The fresh load leaves an entry behind.
Loaded(p, s) ==
    IF cache[p][s] # NoEntry THEN cache
    ELSE [cache EXCEPT ![p][s] = [eff |-> AccessNow(s), roleIDs |-> RoleIDsOf(BindingsFor(bindings, s)), lag |-> FALSE]]

-----------------------------------------------------------------------------
(* authz/cache.go *)

Evict(c, p, who) == [c EXCEPT ![p] = [s \in Subjects |-> IF s \in who THEN NoEntry ELSE c[p][s]]]

EvictRole(c, p, id) ==
    [c EXCEPT ![p] = [s \in Subjects |-> IF id \in c[p][s].roleIDs THEN NoEntry ELSE c[p][s]]]

Bump(p) == epoch' = [epoch EXCEPT ![p] = @ + 1]

\* The time to live has passed: get drops the entry.
Expire(p, s) ==
    /\ cache[p][s] # NoEntry
    /\ cache' = [cache EXCEPT ![p][s] = NoEntry]
    /\ UNCHANGED <<storeVars, epoch, own, req, ops, byOthers>>

-----------------------------------------------------------------------------
(* A decision: Engine.Effective, one query at a time. *)

Free(r) == req[r] = Idle /\ ops < MaxOps

Start(r, record) ==
    /\ Free(r)
    /\ ops' = ops + 1
    /\ req' = [req EXCEPT ![r] = record]

\* Cache.get finds nothing (a hit changes nothing); Cache.begin notes the epoch.
CacheGet(r, p, s) ==
    /\ cache[p][s] = NoEntry
    /\ Start(r, [op |-> "decide", pc |-> "bindings", proc |-> p, actor |-> s, epoch |-> epoch[p],
                 todo |-> {}, seen |-> <<>>, eff |-> {}, roleIDs |-> {}, lag |-> FALSE])
    /\ UNCHANGED <<storeVars, cacheVars, own, byOthers>>

LoadBindings(r) ==
    /\ req[r].op = "decide" /\ req[r].pc = "bindings"
    /\ req' = [req EXCEPT ![r].pc = "roles", ![r].todo = BindingsFor(bindings, req[r].actor)]
    /\ UNCHANGED <<storeVars, cacheVars, own, ops, byOthers>>

\* The role a load uses for a reference: one it has looked up already, or the
\* store's as it is now.
RoleMet(d, ref) == IF ref \in DOMAIN d.seen THEN d.seen[ref] ELSE LookupRole(roles, ref)

\* build's loop: one binding.  A role that is found is kept for the bindings
\* that follow; one that is not is asked for again.
BuildNext(d, b) ==
    LET role == RoleMet(d, b.role)
        kept == IF ValidRef(b.role) /\ role # NoRole THEN {b.role} ELSE {}
    IN  [d EXCEPT !.todo = d.todo \ {b},
                  !.seen = [ref \in DOMAIN d.seen \cup kept |-> RoleMet(d, ref)],
                  !.roleIDs = d.roleIDs \cup RoleIDsOf({b}),
                  !.eff = d.eff \cup Clauses(b, role)]

LoadRole(r) ==
    /\ req[r].op = "decide" /\ req[r].pc = "roles"
    /\ \E b \in req[r].todo :
         /\ \A other \in req[r].todo : b.id <= other.id
         /\ req' = [req EXCEPT ![r] = BuildNext(req[r], b)]
    /\ UNCHANGED <<storeVars, cacheVars, own, ops, byOthers>>

\* Mutant: what was loaded is stored whatever was evicted meanwhile.
AnyEpochMutant(d) == TRUE

SameEpoch(d) == d.epoch = epoch[d.proc]

\* Cache.put refuses what was loaded across an eviction.
CachePut(r) ==
    /\ req[r].op = "decide" /\ req[r].pc = "roles" /\ req[r].todo = {}
    /\ LET d == req[r] IN
       cache' = IF ~SameEpoch(d) THEN cache
                ELSE [cache EXCEPT ![d.proc][d.actor] = [eff |-> d.eff, roleIDs |-> d.roleIDs, lag |-> d.lag]]
    /\ req' = [req EXCEPT ![r] = Idle]
    /\ UNCHANGED <<storeVars, epoch, own, ops, byOthers>>

\* A query fails: the error is answered and nothing is cached.
LoadFails(r) ==
    /\ req[r].op = "decide"
    /\ req' = [req EXCEPT ![r] = Idle]
    /\ UNCHANGED <<storeVars, cacheVars, own, ops, byOthers>>

-----------------------------------------------------------------------------
(* Administration.  check: the actor's rights; own: the last-admin check     *)
(* under the actor's own lock; write: the store's transaction; evict.        *)

\* A request begins with the check of the actor's rights, which leaves their
\* access cached, and goes on to pc or ends with a refusal.
Begin(r, op, p, a, args, allowed, pc) ==
    /\ Start(r, IF ~allowed THEN Idle
                ELSE [op |-> op, pc |-> pc, proc |-> p, actor |-> a, args |-> args, moved |-> {}])
    /\ cache' = Loaded(p, a)
    /\ UNCHANGED <<storeVars, epoch, own, byOthers>>

Doing(r, op, pc) == req[r].op = op /\ req[r].pc = pc

\* Roles.Create and Update, then Admin.SaveRole as far as the own lock.
SaveRoleCheck(r, p, a, eff, id, draft) ==
    Begin(r, "save", p, a, [id |-> id, draft |-> draft],
          /\ id # 0 => roles[id] # NoRole
          /\ Require(eff, ManageRoles)
          /\ CanSaveRole(eff, draft),
          IF id = 0 THEN "write" ELSE "own")

\* Roles.Delete (DeleteRoles) and Admin.DeleteRole (ManageRoles).
DeleteRoleCheck(r, p, a, eff, id, perm) ==
    Begin(r, "delete", p, a, [id |-> id, perm |-> perm],
          /\ roles[id] # NoRole
          /\ Require(eff, perm)
          /\ BindingsForRole(bindings, id) = {}, "write")

\* Bindings.Bind and the checks of Admin.Bind.
BindCheck(r, p, a, eff, b) == Begin(r, "bind", p, a, b, Accepts(roles, eff, a, b), "write")

UnbindCheck(r, p, a, eff, b) ==
    Begin(r, "unbind", p, a, b,
          /\ GateExists(b.subject.kind) /\ b.subject \in Known
          /\ Require(eff, GateOf(b.subject.kind))
          /\ BindingCheck(b.subject, b.scope)
          /\ MayUnbind(roles, eff, a, b, GateOf(b.subject.kind)),
          IF b.subject = a THEN "own" ELSE "write")

\* Mutant: the check takes no lock.
NoLockMutant(p, a) == TRUE

OwnLock(p, a) == own[p][a] = None

\* ownLock and keepsAccess: what the actor would hold after the change, from
\* the store as it is now.
OwnCheck(r) ==
    /\ req[r] # Idle /\ req[r].op \in {"save", "unbind"} /\ req[r].pc = "own"
    /\ OwnLock(req[r].proc, req[r].actor)
    /\ LET a     == req[r].args
           mine  == BindingsFor(bindings, req[r].actor)
           kind  == IF req[r].op = "save" THEN "user" ELSE a.subject.kind
           after == IF req[r].op = "save" THEN BuildAll([roles EXCEPT ![a.id] = a.draft], mine)
                    ELSE BuildAll(roles, mine \ {a})
           keeps == /\ req[r].op = "save" => roles[a.id] # NoRole
                    /\ KeepsAccess(EffectiveAt(req[r].proc, req[r].actor), after, ProtectedOf(kind))
       IN  /\ req' = [req EXCEPT ![r] = IF keeps THEN [@ EXCEPT !.pc = "write"] ELSE Idle]
           /\ own' = IF keeps THEN [own EXCEPT ![req[r].proc][req[r].actor] = r] ELSE own
    /\ cache' = Loaded(req[r].proc, req[r].actor)
    /\ UNCHANGED <<storeVars, epoch, ops, byOthers>>

-----------------------------------------------------------------------------
(* The writes: gormstore, one transaction each, and what it changes. *)

Unlock(r) == [own EXCEPT ![req[r].proc] = [s \in Subjects |-> IF own[req[r].proc][s] = r THEN None ELSE own[req[r].proc][s]]]

\* History: the subjects whose access a write changes, and those whose rows it
\* touches, so that what was read of them before does not fit what is read after.
Changed(newRoles, newBindings) ==
    {s \in Subjects : BuildAll(newRoles, BindingsFor(newBindings, s)) # AccessNow(s)}
Touched(newRoles, newBindings) ==
    {s \in Subjects : \/ BindingsFor(newBindings, s) # BindingsFor(bindings, s)
                      \/ \E b \in BindingsFor(bindings, s) : LookupRole(newRoles, b.role) # LookupRole(roles, b.role)}

\* A refused write ends the request; nothing is evicted.
WriteRefused(r) ==
    /\ req' = [req EXCEPT ![r] = Idle]
    /\ own' = Unlock(r)
    /\ UNCHANGED <<storeVars, cacheVars, ops, byOthers>>

\* The commit.  History: other processes' entries and loads now lag behind.
Write(r, newRoles, newBindings, saved) ==
    LET hit == Touched(newRoles, newBindings)
        p   == req[r].proc
    IN  /\ roles' = newRoles /\ bindings' = newBindings
        /\ cache' = [q \in Procs |-> [s \in Subjects |->
                       IF q # p /\ s \in hit /\ cache[q][s] # NoEntry
                       THEN [cache[q][s] EXCEPT !.lag = TRUE] ELSE cache[q][s]]]
        /\ req' = [x \in Reqs |->
                     IF x = r THEN [req[r] EXCEPT !.pc = "evict", !.args = saved]
                     ELSE IF req[x].op = "decide" /\ req[x].proc # p /\ req[x].actor \in hit
                          THEN [req[x] EXCEPT !.lag = TRUE] ELSE req[x]]
        /\ byOthers' = byOthers \cup (Changed(newRoles, newBindings) \ {req[r].actor})
        /\ UNCHANGED <<epoch, own, ops>>


LoadRoleForUpdate(id) == roles[id] # NoRole

SaveRoleWrite(r) ==
    /\ Doing(r, "save", "write")
    /\ LET a == req[r].args IN
       IF a.id = 0
       THEN /\ nextRole \in RoleIds
            /\ nextRole' = nextRole + 1
            /\ Write(r, [roles EXCEPT ![nextRole] = a.draft], bindings, [a EXCEPT !.id = nextRole])
            /\ UNCHANGED nextId
       ELSE IF ~LoadRoleForUpdate(a.id) THEN WriteRefused(r)
       ELSE Write(r, [roles EXCEPT ![a.id] = a.draft], bindings, a) /\ UNCHANGED <<nextId, nextRole>>

DeleteRoleWrite(r) ==
    /\ Doing(r, "delete", "write")
    /\ LET id == req[r].args.id IN
       IF ~LoadRoleForUpdate(id) \/ BindingsForRole(bindings, id) # {} THEN WriteRefused(r)
       ELSE Write(r, [roles EXCEPT ![id] = NoRole], bindings, req[r].args) /\ UNCHANGED <<nextId, nextRole>>

Same(b, x) == b.subject = x.subject /\ b.role = x.role /\ b.scope = x.scope

\* Bindings a replacement has deleted and not committed: their rows are locked.
InTx(d) == d.op = "replace" /\ d.pc # "evict"
LockedIds == UNION {{b.id : b \in req[x].args.done} : x \in {y \in Reqs : InTx(req[y])}}

\* An identical binding is refused: by the count, or by the unique index.
BindWrite(r) ==
    /\ req[r] # Idle /\ req[r].op \in {"bind", "seed"} /\ req[r].pc = "write"
    /\ nextId <= MaxBindings
    /\ LET b == req[r].args IN
       IF \E x \in bindings : Same(b, x)
       THEN IF req[r].op = "seed"
            THEN req' = [req EXCEPT ![r].pc = "evict"] /\ UNCHANGED <<storeVars, cacheVars, own, ops, byOthers>>
            ELSE WriteRefused(r)
       ELSE /\ Write(r, roles, bindings \cup {[b EXCEPT !.id = nextId]}, b)
            /\ nextId' = nextId + 1
            /\ UNCHANGED nextRole

UnbindWrite(r) ==
    /\ Doing(r, "unbind", "write")
    /\ req[r].args.id \notin LockedIds
    /\ IF req[r].args \notin bindings THEN WriteRefused(r)
       ELSE Write(r, roles, bindings \ {req[r].args}, req[r].args) /\ UNCHANGED <<nextId, nextRole>>

\* The subjects a change evicts, and the custom role whose holders it evicts.
EvictedSubjects(d) == IF d.op = "replace" THEN {b.subject : b \in d.moved}
                      ELSE IF d.op \in {"bind", "unbind", "seed"} THEN {d.args.subject} ELSE {}
EvictedRole(d) == IF d.op \in {"save", "delete", "replace"} THEN d.args.id ELSE 0

\* The last step of every write: the process forgets what the change touched.
Evicting(d) == d.op \notin {"idle", "decide"} /\ d.pc = "evict"
EvictAfter(r) ==
    /\ Evicting(req[r])
    /\ LET p == req[r].proc
       IN  cache' = Evict(EvictRole(cache, p, EvictedRole(req[r])), p, EvictedSubjects(req[r]))
    /\ Bump(req[r].proc)
    /\ own' = Unlock(r)
    /\ req' = [req EXCEPT ![r] = Idle]
    /\ UNCHANGED <<storeVars, ops, byOthers>>

-----------------------------------------------------------------------------
(* Roles.Replace: every holder of a custom role gets a predefined one. *)

\* The role, the predefined one, the right, and the bindings read before the
\* transaction begins.
ReplaceCheck(r, p, a, eff, id, with) ==
    LET moved == BindingsForRole(bindings, id)
    IN  /\ Start(r, IF roles[id] = NoRole \/ ~Require(eff, ManageRoles) THEN Idle
                    ELSE [op |-> "replace", pc |-> IF moved = {} THEN "commit" ELSE "begin", proc |-> p, actor |-> a,
                          args |-> [id |-> id, with |-> with, done |-> {}, view |-> {}], moved |-> moved])
        /\ cache' = Loaded(p, a)
        /\ UNCHANGED <<storeVars, epoch, own, byOthers>>

\* What the transaction's snapshot, taken with its first query, shows of the
\* actor's access and of the role replaced.
TxSnapshot(d) == [eff |-> AccessNow(d.actor), roleIDs |-> RoleIDsOf(BindingsFor(bindings, d.actor)), role |-> roles[d.args.id]]
ViewOfTx(d) == IF d.pc = "begin" THEN TxSnapshot(d) ELSE d.args.view

\* Effective inside the transaction: the entry, or a load from the snapshot, which
\* is cached under the epoch of the moment.  History: such an entry lags when the
\* store has moved on.
EffectiveInTx(d, view) == IF cache[d.proc][d.actor] # NoEntry THEN cache[d.proc][d.actor].eff ELSE view.eff
LoadedInTx(d, view) ==
    IF cache[d.proc][d.actor] # NoEntry THEN cache
    ELSE [cache EXCEPT ![d.proc][d.actor] =
            [eff |-> view.eff, roleIDs |-> view.roleIDs,
             lag |-> ~(view.eff = AccessNow(d.actor) /\ view.roleIDs = RoleIDsOf(BindingsFor(bindings, d.actor)))]]

\* The holders' turn comes in the order of their bindings.
Turn(d) == {b \in d.moved \ d.args.done : \A x \in d.moved \ d.args.done : b.id <= x.id}

\* A query of the loop: the request goes on as next, or, refused, rolls back
\* (Idle); who is evicted before anything is committed.
InTxStep(r, view, next, who) ==
    /\ req' = [req EXCEPT ![r] = next]
    /\ cache' = Evict(LoadedInTx(req[r], view), req[r].proc, who)
    /\ IF who = {} THEN UNCHANGED epoch ELSE Bump(req[r].proc)
    /\ UNCHANGED <<storeVars, own, ops, byOthers>>

\* checkRebind and the Bind of one holder; the role held already is no refusal,
\* and evicts nothing.
ReplaceBind(r) ==
    /\ Doing(r, "replace", "begin") \/ Doing(r, "replace", "bind")
    /\ \E b \in Turn(req[r]) :
         LET d    == req[r]
             view == ViewOfTx(d)
             to   == [b EXCEPT !.role = KeyRef(d.args.with)]
             may  == MayBind(roles, EffectiveInTx(d, view), d.actor, to, ManageBindings)
             held == \E x \in bindings : Same(to, x)
         IN  IF ~BindingCheck(b.subject, b.scope) \/ b.subject = d.actor
             THEN req' = [req EXCEPT ![r] = Idle] /\ UNCHANGED <<storeVars, cacheVars, own, ops, byOthers>>
             ELSE InTxStep(r, view, IF may THEN [d EXCEPT !.pc = "unbind", !.args = [@ EXCEPT !.view = view]] ELSE Idle,
                           IF may /\ ~held THEN {b.subject} ELSE {})

\* The Unbind of one holder, which waits for whoever deletes the same row; a
\* binding gone meanwhile refuses.
ReplaceUnbind(r) ==
    /\ Doing(r, "replace", "unbind")
    /\ \E b \in Turn(req[r]) :
         LET d    == req[r]
             view == d.args.view
             done == d.args.done \cup {b}
             may  == /\ b \in bindings
                     /\ MayUnbind([roles EXCEPT ![d.args.id] = view.role], EffectiveInTx(d, view), d.actor, b, ManageBindings)
         IN  /\ b.id \notin LockedIds
             /\ InTxStep(r, view,
                         IF may THEN [d EXCEPT !.pc = IF done = d.moved THEN "commit" ELSE "bind", !.args = [@ EXCEPT !.done = done]]
                         ELSE Idle,
                         IF may THEN {b.subject} ELSE {})

\* The new bindings, ids in the order of the old ones; one the holder already
\* has stays as it is.
Rebound(moved, with) ==
    LET fresh == {b \in moved : ~\E x \in bindings : Same([b EXCEPT !.role = KeyRef(with)], x)}
    IN  {[b EXCEPT !.role = KeyRef(with), !.id = nextId + Cardinality({y \in fresh : y.id < b.id})] : b \in fresh}

ReplaceCommit(r) ==
    /\ Doing(r, "replace", "commit")
    /\ LET new == Rebound(req[r].moved, req[r].args.with) IN
       /\ nextId + Cardinality(new) <= MaxBindings + 1
       /\ Write(r, roles, (bindings \ req[r].moved) \cup new, req[r].args)
       /\ nextId' = nextId + Cardinality(new)
       /\ UNCHANGED nextRole

-----------------------------------------------------------------------------
(* The operations callers start, with the inputs they may name. *)

AuthzInit ==
    /\ roles = StartRoles
    /\ bindings = StartBindings
    /\ nextId = 1 + Cardinality(StartBindings)
    /\ nextRole = 1 + Cardinality({i \in RoleIds : StartRoles[i] # NoRole})
    /\ cache = [p \in Procs |-> [s \in Subjects |-> NoEntry]]
    /\ epoch = [p \in Procs |-> 0]
    /\ own = [p \in Procs |-> [s \in Subjects |-> None]]
    /\ req = [r \in Reqs |-> Idle]
    /\ ops = 0
    /\ byOthers = {}

Decide(r) == \E p \in Procs, s \in Subjects : CacheGet(r, p, s)

SaveRole(r) == \E p \in AdminProcs, a \in Subjects : LET eff == EffectiveAt(p, a) IN
    \E id \in {0} \cup RoleIds, d \in Drafts : SaveRoleCheck(r, p, a, eff, id, d)

DeleteRole(r) == \E p \in AdminProcs, a \in Subjects : LET eff == EffectiveAt(p, a) IN
    \E id \in RoleIds, perm \in {ManageRoles, DeleteRoles} : DeleteRoleCheck(r, p, a, eff, id, perm)

Bind(r) == \E p \in AdminProcs, a \in Subjects : LET eff == EffectiveAt(p, a) IN
    \E s \in Subjects, ref \in Refs, scope \in Scopes :
        BindCheck(r, p, a, eff, [id |-> 0, subject |-> s, role |-> ref, scope |-> scope])

Unbind(r) == \E p \in AdminProcs, a \in Subjects : LET eff == EffectiveAt(p, a) IN
    \E b \in bindings : UnbindCheck(r, p, a, eff, b)

Replace(r) == \E p \in AdminProcs, a \in Subjects : LET eff == EffectiveAt(p, a) IN
    \E id \in RoleIds, key \in DOMAIN Predefined : ReplaceCheck(r, p, a, eff, id, key)

\* Seed binds without asking for anybody's rights, and evicts even when the
\* binding was there.
Seed(r) == \E p \in AdminProcs, b \in SeedBindings :
    /\ Start(r, [op |-> "seed", pc |-> "write", proc |-> p, actor |-> [kind |-> "system", id |-> 0], args |-> b,
                 moved |-> {}])
    /\ UNCHANGED <<storeVars, cacheVars, own, byOthers>>

AuthzNext ==
    \/ \E p \in Procs, s \in Subjects : Expire(p, s)
    \/ \E r \in Reqs :
         \/ Free(r) /\ (Decide(r) \/ SaveRole(r) \/ DeleteRole(r) \/ Bind(r) \/ Seed(r) \/ Unbind(r) \/ Replace(r))
         \/ LoadBindings(r) \/ LoadRole(r) \/ CachePut(r) \/ LoadFails(r)
         \/ SaveRoleWrite(r) \/ DeleteRoleWrite(r) \/ BindWrite(r) \/ UnbindWrite(r)
         \/ OwnCheck(r) \/ EvictAfter(r)
         \/ ReplaceBind(r) \/ ReplaceUnbind(r) \/ ReplaceCommit(r)

AuthzSpec == AuthzInit /\ [][AuthzNext]_authzVars

-----------------------------------------------------------------------------
(* Properties *)

\* The cache never serves access that this process's own administration has
\* changed: an entry equals what the store amounts to, unless the change is
\* between its commit and an eviction that will drop this very entry, another
\* process made it, or the entry was loaded inside a replacement's transaction
\* whose snapshot the store had left behind (which the time to live bounds both).
\* Engine.Effective, Cache.put, Evict, EvictRole, Roles.Replace.
CacheFresh ==
    \A p \in Procs, s \in Subjects :
      \/ cache[p][s] = NoEntry
      \/ cache[p][s].lag
      \/ cache[p][s].eff = AccessNow(s)
      \/ \E r \in Reqs : /\ Evicting(req[r]) /\ req[r].proc = p
                        /\ (s \in EvictedSubjects(req[r]) \/ EvictedRole(req[r]) \in cache[p][s].roleIDs)

\* Nobody removes their own last way to manage access, by one request or by
\* several at once: who could at the start, and whom nobody else has touched,
\* still can.  Admin.ownLock, keepsAccess (administration in one process).
OwnAccessKept ==
    \A s \in Subjects \ byOthers :
      Grants(BuildAll(StartRoles, BindingsFor(StartBindings, s)), ManageBindings) # {} =>
        Grants(AccessNow(s), ManageBindings) # {}

\* A system permission nobody was given when the system started is never
\* obtained through roles, bindings or replacements.  CanSaveRole, CanBind.
NoSystemGrant ==
    LET held(rs, bs) == UNION {{c.perm : c \in BuildAll(rs, BindingsFor(bs, s))} : s \in Subjects}
    IN  (held(roles, bindings) \ held(StartRoles, StartBindings \cup SeedBindings)) \cap IsSystem = {}

\* A deleted role never comes back to life, so a binding that was written while
\* its role was being deleted never grants anything: a save that checked the
\* role before the deletion does not write it again.  replaceRole's locked read,
\* auto-increment ids.
DeletedStaysDeleted ==
    [][\A i \in RoleIds : i < nextRole /\ roles[i] = NoRole => roles'[i] = NoRole]_authzVars
=============================================================================
