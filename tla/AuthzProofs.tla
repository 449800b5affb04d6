----------------------------- MODULE AuthzProofs -----------------------------
(***************************************************************************)
(* Proofs about Authz: a cache of access is fresh but for what its own     *)
(* process is about to evict, what other processes changed and what a      *)
(* replacement's transaction read of the past, for any number of           *)
(* processes, requests, subjects, roles and bindings.                      *)
(***************************************************************************)
EXTENDS Authz, TLAPS

\* What a load, an administrative request and an entry consist of.
LoadParts == {"op", "pc", "proc", "actor", "epoch", "todo", "seen", "eff", "roleIDs", "lag"}
LoadShape(d) == d = [part \in LoadParts |-> d[part]]
TaskShape(d) ==
  d = [op |-> d.op, pc |-> d.pc, proc |-> d.proc, actor |-> d.actor, args |-> d.args, moved |-> d.moved]
BindingShape(b) == b = [id |-> b.id, subject |-> b.subject, role |-> b.role, scope |-> b.scope] /\ b.subject \in Subjects
EntryShape(e) == e = [eff |-> e.eff, roleIDs |-> e.roleIDs, lag |-> e.lag]

Ops == {"save", "delete", "bind", "unbind", "seed", "replace"}

\* The arguments of a request: a binding, or a role's id.
ArgsOf(op, pc, args, moved) ==
  /\ op \in {"bind", "unbind", "seed"} => BindingShape(args)
  /\ op = "save" => args = [id |-> args.id, draft |-> args.draft]
  /\ op \in {"save", "delete", "replace"} /\ pc = "evict" => args.id # 0
  /\ op \in {"delete", "replace"} => args.id # 0
  /\ op = "replace" => /\ \A b \in moved : BindingShape(b)
                       /\ args = [id |-> args.id, with |-> args.with, done |-> args.done, view |-> args.view]
Task(d) == d.op \in Ops /\ TaskShape(d) /\ d.proc \in Procs /\ (d.op = "seed" \/ d.actor \in Subjects) /\ ArgsOf(d.op, d.pc, d.args, d.moved)

Load(d) ==
  /\ d.op = "decide" /\ LoadShape(d) /\ d.proc \in Procs /\ d.actor \in Subjects /\ d.epoch \in Nat /\ d.epoch <= epoch[d.proc]
  /\ d.pc \in {"bindings", "roles"}
  /\ d.pc = "bindings" => d.eff = {} /\ d.roleIDs = {} /\ DOMAIN d.seen = {}

\* A change of the subject's bindings, or of a role among ids, waits for its
\* eviction in process p.
Rebinding(p, s) == \E r \in Reqs : Evicting(req[r]) /\ req[r].proc = p /\ s \in EvictedSubjects(req[r])
Redefining(p, ids) == \E r \in Reqs : Evicting(req[r]) /\ req[r].proc = p /\ EvictedRole(req[r]) \in ids

\* What has been built of a subject's access out of a set of its bindings.
Built(p, done, ids, eff, seen) ==
  /\ ids = RoleIDsOf(done)
  /\ \/ Redefining(p, ids)
     \/ /\ eff = BuildAll(roles, done)
        /\ \A ref \in DOMAIN seen : /\ seen[ref] = LookupRole(roles, ref)
                                    /\ \E b \in done : ValidRef(b.role) /\ b.role = ref

\* A load that will be cached has read what the store holds now, or what it
\* read will be evicted.
LoadFresh(d) ==
  (d.pc = "roles" /\ d.epoch = epoch[d.proc] /\ ~d.lag) =>
     \/ Rebinding(d.proc, d.actor)
     \/ /\ d.todo \in SUBSET BindingsFor(bindings, d.actor)
        /\ Built(d.proc, BindingsFor(bindings, d.actor) \ d.todo, d.roleIDs, d.eff, d.seen)
EntryFresh(p, s, e) ==
  \/ e = NoEntry
  \/ e.lag
  \/ Rebinding(p, s)
  \/ Built(p, BindingsFor(bindings, s), e.roleIDs, e.eff, <<>>)

StoreInv == (\A b \in bindings : BindingShape(b)) /\ epoch \in [Procs -> Nat]
ReqInv == /\ req = [r \in Reqs |-> req[r]]
          /\ \A r \in Reqs : req[r] = Idle \/ (Load(req[r]) /\ LoadFresh(req[r])) \/ Task(req[r])
Calm(c) == /\ c = [p \in Procs |-> [s \in Subjects |-> c[p][s]]]
           /\ \A p \in Procs, s \in Subjects : EntryShape(c[p][s]) /\ EntryFresh(p, s, c[p][s])
FreshInv == StoreInv /\ ReqInv /\ Calm(cache)

-----------------------------------------------------------------------------
LEMMA SameBuild ==
    ASSUME NEW one, NEW two, NEW S, \A b \in S : ValidRef(b.role) => LookupRole(one, b.role) = LookupRole(two, b.role)
    PROVE  BuildAll(one, S) = BuildAll(two, S)
<1>1. \A b \in S : BuildOne(one, b) = BuildOne(two, b)
    BY Zenon DEF BuildOne, Clauses
<1>2. QED
    BY <1>1, Zenon DEF BuildAll

LEMMA PartsIn ==
    /\ "op" \in LoadParts /\ "pc" \in LoadParts /\ "proc" \in LoadParts /\ "actor" \in LoadParts /\ "epoch" \in LoadParts
    /\ "todo" \in LoadParts /\ "seen" \in LoadParts /\ "eff" \in LoadParts /\ "roleIDs" \in LoadParts /\ "lag" \in LoadParts
BY Zenon DEF LoadParts

LEMMA LagFields ==
    ASSUME NEW d, LoadShape(d), NEW e, e = [d EXCEPT !.lag = TRUE]
    PROVE  /\ LoadShape(e) /\ e.op = d.op /\ e.pc = d.pc /\ e.proc = d.proc /\ e.actor = d.actor /\ e.epoch = d.epoch
           /\ e.lag /\ e.todo = d.todo /\ e.seen = d.seen /\ e.roleIDs = d.roleIDs /\ e.eff = d.eff
<1>1. LoadShape(e)
    BY Zenon DEF LoadShape
<1>2. /\ e.op = d.op /\ e.pc = d.pc /\ e.proc = d.proc /\ e.actor = d.actor /\ e.epoch = d.epoch
      /\ e.todo = d.todo /\ e.seen = d.seen /\ e.roleIDs = d.roleIDs /\ e.eff = d.eff
    BY <1>1, PartsIn, Zenon DEF LoadShape
<1>3. e.lag
    BY PartsIn, Zenon DEF LoadShape
<1>4. QED
    BY <1>1, <1>2, <1>3, Zenon

LEMMA NewFields ==
    ASSUME NEW p, NEW a, NEW n, NEW e,
           e = [op |-> "decide", pc |-> "bindings", proc |-> p, actor |-> a, epoch |-> n,
                todo |-> {}, seen |-> <<>>, eff |-> {}, roleIDs |-> {}, lag |-> FALSE]
    PROVE  /\ LoadShape(e) /\ e.op = "decide" /\ e.pc = "bindings" /\ e.proc = p /\ e.actor = a /\ e.epoch = n
           /\ e.seen = <<>> /\ e.roleIDs = {} /\ e.eff = {}
<1>1. DOMAIN e = LoadParts
    BY Zenon DEF LoadParts
<1>2. LoadShape(e)
    BY <1>1, Zenon DEF LoadShape
<1>3. QED
    BY <1>2, Zenon

LEMMA LagEntry == ASSUME NEW e, EntryShape(e), NEW f, f = [e EXCEPT !.lag = TRUE] PROVE EntryShape(f) /\ f.lag
BY Zenon DEF EntryShape

-----------------------------------------------------------------------------
\* A cache stays calm when entries are dropped, and when one is loaded.
LEMMA NoEntryFresh == EntryShape(NoEntry) /\ \A p, s : EntryFresh(p, s, NoEntry)
BY Zenon DEF EntryShape, NoEntry, EntryFresh

LEMMA ForgetCalm ==
    ASSUME NEW c, Calm(c), NEW p \in Procs, NEW who, NEW f,
           f = [c EXCEPT ![p] = [s \in Subjects |-> IF s \in who THEN NoEntry ELSE c[p][s]]]
    PROVE  Calm(f)
<1>1. \A q \in Procs : f[q] = IF q = p THEN [s \in Subjects |-> IF s \in who THEN NoEntry ELSE c[p][s]] ELSE c[q]
    BY Zenon DEF Calm
<1>2. \A q \in Procs, s \in Subjects : f[q][s] = NoEntry \/ f[q][s] = c[q][s]
    BY <1>1
<1>3. f = [q \in Procs |-> f[q]]
    BY Zenon DEF Calm
<1>4. \A q \in Procs : f[q] = [s \in Subjects |-> f[q][s]]
    BY <1>1, Zenon DEF Calm
<1>5. f = [q \in Procs |-> [s \in Subjects |-> f[q][s]]]
    BY <1>3, <1>4, Zenon
<1>6. \A q \in Procs, s \in Subjects : EntryShape(f[q][s]) /\ EntryFresh(q, s, f[q][s])
    BY <1>2, NoEntryFresh, Zenon DEF Calm
<1>7. QED
    BY <1>5, <1>6, Zenon DEF Calm

LEMMA EvictCalm == ASSUME NEW c, Calm(c), NEW p \in Procs, NEW who PROVE Calm(Evict(c, p, who))
BY ForgetCalm, Zenon DEF Evict

LEMMA StoredCalm ==
    ASSUME NEW c, Calm(c), NEW p \in Procs, NEW a \in Subjects, NEW e, EntryShape(e), EntryFresh(p, a, e), NEW f,
           f = [c EXCEPT ![p][a] = e]
    PROVE  Calm(f)
<1>1. f = [q \in Procs |-> f[q]]
    BY Zenon DEF Calm
<1>2. \A q \in Procs : f[q] = IF q = p THEN [c[p] EXCEPT ![a] = e] ELSE c[q]
    BY Zenon DEF Calm
<1>3. \A q \in Procs : c[q] = [s \in Subjects |-> c[q][s]]
    BY Zenon DEF Calm
<1>4. ASSUME NEW q \in Procs PROVE f[q] = [s \in Subjects |-> f[q][s]]
    <2>1. CASE q = p
        <3>1. f[q] = [s \in Subjects |-> [c[p] EXCEPT ![a] = e][s]]
            BY <2>1, <1>2, <1>3, ZenonT(30)
        <3>2. QED
            BY <3>1
    <2>2. CASE q # p
        BY <2>2, <1>2, <1>3
    <2>3. QED
        BY <2>1, <2>2, Zenon
<1>5. \A q \in Procs, s \in Subjects : f[q][s] = c[q][s] \/ (q = p /\ s = a /\ f[q][s] = e)
    BY <1>2, <1>3
<1>6. f = [q \in Procs |-> [s \in Subjects |-> f[q][s]]]
    BY <1>1, <1>4, ZenonT(30)
<1>7. \A q \in Procs, s \in Subjects : EntryShape(f[q][s]) /\ EntryFresh(q, s, f[q][s])
    BY <1>5, Zenon DEF Calm
<1>8. QED
    BY <1>6, <1>7, Zenon DEF Calm

LEMMA LoadedCalm == ASSUME Calm(cache), NEW p \in Procs, NEW a \in Subjects PROVE Calm(Loaded(p, a))
<1>1. PICK e : e = [eff |-> AccessNow(a), roleIDs |-> RoleIDsOf(BindingsFor(bindings, a)), lag |-> FALSE]
    BY ZenonT(30)
<1>2. e.roleIDs = RoleIDsOf(BindingsFor(bindings, a)) /\ e.eff = BuildAll(roles, BindingsFor(bindings, a)) /\ EntryShape(e)
    BY <1>1, Zenon DEF AccessNow, EntryShape
<1>3. DOMAIN <<>> = {}
    OBVIOUS
<1>4. EntryFresh(p, a, e)
    BY <1>2, <1>3, Zenon DEF EntryFresh, Built
<1>5. Calm([cache EXCEPT ![p][a] = e])
    BY <1>2, <1>4, StoredCalm, Zenon
<1>6. QED
    BY <1>1, <1>5, Zenon DEF Loaded

-----------------------------------------------------------------------------
\* Steps that leave the store as it is.
LEMMA NextReq ==
    ASSUME NEW x, NEW e, e = req'[x], e = Idle \/ (Load(e)' /\ LoadFresh(e)') \/ Task(e)
    PROVE  (req[x] = Idle \/ (Load(req[x]) /\ LoadFresh(req[x])) \/ Task(req[x]))'
<1>1. Load(e)' => Load(req[x])'
    BY Zenon DEF Load
<1>2. LoadFresh(e)' => LoadFresh(req[x])'
    BY Zenon DEF LoadFresh
<1>3. Task(e) => Task(req[x])'
    BY Zenon DEF Task
<1>4. QED
    BY <1>1, <1>2, <1>3, Zenon DEF Idle

LEMMA NextCalm ==
    ASSUME cache' = [p \in Procs |-> [s \in Subjects |-> cache'[p][s]]],
           \A p \in Procs, s \in Subjects : \E e : e = cache'[p][s] /\ EntryShape(e) /\ EntryFresh(p, s, e)'
    PROVE  Calm(cache)'
<1>1. ASSUME NEW p \in Procs, NEW s \in Subjects PROVE EntryShape(cache[p][s])' /\ EntryFresh(p, s, cache[p][s])'
    <2>1. PICK e : e = cache'[p][s] /\ EntryShape(e) /\ EntryFresh(p, s, e)'
        BY Zenon
    <2>2. QED
        BY <2>1, Zenon DEF EntryFresh, EntryShape
<1>2. QED
    BY <1>1, Zenon DEF Calm

LEMMA QuietStep ==
    ASSUME FreshInv, NEW r \in Reqs, NEW d, req' = [req EXCEPT ![r] = d], ~Evicting(req[r]),
           roles' = roles, bindings' = bindings, epoch' \in [Procs -> Nat],
           \A q \in Procs : epoch'[q] = epoch[q] \/ epoch'[q] = epoch[q] + 1,
           NEW c, Calm(c), cache' = c, d = Idle \/ (Load(d) /\ LoadFresh(d)) \/ Task(d)
    PROVE  FreshInv'
<1>1. req' = [x \in Reqs |-> req'[x]] /\ req'[r] = d /\ \A x \in Reqs : x # r => req'[x] = req[x]
    BY Zenon DEF FreshInv, ReqInv
<1>2. \A x \in Reqs : Evicting(req[x]) => req'[x] = req[x]
    BY <1>1, Zenon
<1>3. \A p, s : Rebinding(p, s) => Rebinding(p, s)'
    BY <1>2, Zenon DEF Rebinding
<1>4. \A p, ids : Redefining(p, ids) => Redefining(p, ids)'
    BY <1>2, Zenon DEF Redefining
<1>5. \A p, done, ids, eff, seen : Built(p, done, ids, eff, seen) => Built(p, done, ids, eff, seen)'
    BY <1>4 DEF Built
<1>6. StoreInv'
    BY Zenon DEF FreshInv, StoreInv
<1>7. ASSUME NEW e, Load(e), LoadFresh(e) PROVE Load(e)' /\ LoadFresh(e)'
    <2>1. Load(e)' /\ (e.epoch = epoch'[e.proc] => e.epoch = epoch[e.proc])
        <3>1. e.proc \in Procs /\ epoch[e.proc] \in Nat /\ epoch'[e.proc] \in Nat /\ e.epoch \in Nat /\ e.epoch <= epoch[e.proc]
              /\ (epoch'[e.proc] = epoch[e.proc] \/ epoch'[e.proc] = epoch[e.proc] + 1)
            BY <1>7, Zenon DEF Load, FreshInv, StoreInv
        <3>2. e.epoch <= epoch'[e.proc] /\ (e.epoch = epoch'[e.proc] => e.epoch = epoch[e.proc])
            BY <3>1
        <3>3. QED
            BY <3>1, <3>2, <1>7, Zenon DEF Load
    <2>2. LoadFresh(e)'
        BY <1>7, <2>1, <1>3, <1>5, Zenon DEF LoadFresh
    <2>3. QED
        BY <2>1, <2>2, Zenon
<1>8. ReqInv'
    <2>1. ASSUME NEW x \in Reqs PROVE (req[x] = Idle \/ (Load(req[x]) /\ LoadFresh(req[x])) \/ Task(req[x]))'
        <3>1. PICK e : e = req'[x]
            BY Zenon
        <3>2. e = Idle \/ (Load(e) /\ LoadFresh(e)) \/ Task(e)
            BY <3>1, <1>1, Zenon DEF FreshInv, ReqInv
        <3>3. QED
            BY <3>1, <3>2, <1>7, NextReq, Zenon
    <2>2. QED
        BY <1>1, <2>1, Zenon DEF ReqInv
<1>9. Calm(cache)'
    <2>1. \A p \in Procs, s \in Subjects : EntryFresh(p, s, c[p][s]) => \E e : e = c[p][s] /\ EntryFresh(p, s, e)'
        BY <1>3, <1>5, Zenon DEF EntryFresh
    <2>2. QED
        BY <2>1, NextCalm, Zenon DEF Calm
<1>10. QED
    BY <1>6, <1>8, <1>9, Zenon DEF FreshInv

-----------------------------------------------------------------------------
\* The eviction drops what it waited for, and voids the loads under way.
LEMMA EvictStep ==
    ASSUME FreshInv, NEW r \in Reqs, EvictAfter(r)
    PROVE  FreshInv'
<1>0. PICK p, who, id : p = req[r].proc /\ who = EvictedSubjects(req[r]) /\ id = EvictedRole(req[r])
    BY Zenon
<1>1. p \in Procs
    BY <1>0 DEF EvictAfter, Evicting, FreshInv, ReqInv, Load, Task, Idle
<1>2. req' = [x \in Reqs |-> req'[x]] /\ req'[r] = Idle /\ \A x \in Reqs : x # r => req'[x] = req[x]
    BY Zenon DEF EvictAfter, FreshInv, ReqInv
<1>3. StoreInv' /\ epoch'[p] = epoch[p] + 1 /\ \A q \in Procs : q # p => epoch'[q] = epoch[q]
    BY <1>0, <1>1 DEF EvictAfter, Bump, FreshInv, StoreInv, storeVars
<1>4. UNCHANGED <<roles, bindings>> /\ cache' = Evict(EvictRole(cache, p, id), p, who)
    BY <1>0, Zenon DEF EvictAfter, storeVars
<1>5. \A q, s : q # p /\ Rebinding(q, s) => Rebinding(q, s)'
    BY <1>0, <1>2, Zenon DEF Rebinding
<1>6. \A q, ids : q # p /\ Redefining(q, ids) => Redefining(q, ids)'
    BY <1>0, <1>2, Zenon DEF Redefining
<1>7. ASSUME NEW s, Rebinding(p, s), s \notin who PROVE Rebinding(p, s)'
    <2>1. PICK x \in Reqs : Evicting(req[x]) /\ req[x].proc = p /\ s \in EvictedSubjects(req[x])
        BY <1>7, Zenon DEF Rebinding
    <2>2. req'[x] = req[x]
        BY <2>1, <1>7, <1>0, <1>2, Zenon
    <2>3. QED
        BY <2>1, <2>2, Zenon DEF Rebinding
<1>8. ASSUME NEW ids, Redefining(p, ids), id \notin ids PROVE Redefining(p, ids)'
    <2>1. PICK x \in Reqs : Evicting(req[x]) /\ req[x].proc = p /\ EvictedRole(req[x]) \in ids
        BY <1>8, Zenon DEF Redefining
    <2>2. req'[x] = req[x]
        BY <2>1, <1>8, <1>0, <1>2, Zenon
    <2>3. QED
        BY <2>1, <2>2, Zenon DEF Redefining
<1>9. \A q, done, ids, eff, seen : q # p /\ Built(q, done, ids, eff, seen) => Built(q, done, ids, eff, seen)'
    BY <1>6, <1>4 DEF Built
<1>10. \A done, ids, eff, seen : Built(p, done, ids, eff, seen) => Built(p, done, ids, eff, seen)' \/ id \in ids
    BY <1>8, <1>4, Zenon DEF Built
<1>11. ASSUME NEW e, Load(e), LoadFresh(e) PROVE Load(e)' /\ LoadFresh(e)'
    <2>1. e.proc \in Procs /\ epoch[e.proc] \in Nat /\ epoch'[e.proc] \in Nat /\ e.epoch \in Nat /\ e.epoch <= epoch[e.proc]
        BY <1>11, <1>3, Zenon DEF Load, FreshInv, StoreInv
    <2>2. CASE e.proc = p
        <3>1. e.epoch < epoch'[e.proc]
            BY <2>1, <2>2, <1>3
        <3>2. e.epoch <= epoch'[e.proc] /\ e.epoch # epoch'[e.proc]
            BY <3>1, <2>1
        <3>3. QED
            BY <3>2, <1>11, Zenon DEF Load, LoadFresh
    <2>3. CASE e.proc # p
        <3>1. epoch'[e.proc] = epoch[e.proc]
            BY <2>1, <2>3, <1>3, Zenon
        <3>2. Load(e)'
            BY <3>1, <1>11, Zenon DEF Load
        <3>3. LoadFresh(e)'
            BY <3>1, <2>3, <1>11, <1>4, <1>5, <1>9, Zenon DEF LoadFresh
        <3>4. QED
            BY <3>2, <3>3, Zenon
    <2>4. QED
        BY <2>2, <2>3, Zenon
<1>12. ReqInv'
    <2>1. ASSUME NEW x \in Reqs PROVE (req[x] = Idle \/ (Load(req[x]) /\ LoadFresh(req[x])) \/ Task(req[x]))'
        <3>1. PICK e : e = req'[x]
            BY Zenon
        <3>2. e = Idle \/ (Load(e) /\ LoadFresh(e)) \/ Task(e)
            BY <3>1, <1>2, Zenon DEF FreshInv, ReqInv
        <3>3. QED
            BY <3>1, <3>2, <1>11, NextReq, Zenon
    <2>2. QED
        BY <1>2, <2>1, Zenon DEF ReqInv
<1>13. Calm(cache)'
    <2> DEFINE g == EvictRole(cache, p, id)
               f == Evict(g, p, who)
    <2>1. /\ \A q \in Procs : g[q] = IF q = p THEN [s \in Subjects |-> IF id \in cache[p][s].roleIDs THEN NoEntry ELSE cache[p][s]]
                                   ELSE cache[q]
          /\ g = [q \in Procs |-> g[q]]
        BY Zenon DEF EvictRole, FreshInv, Calm
    <2>2. /\ \A q \in Procs : f[q] = IF q = p THEN [s \in Subjects |-> IF s \in who THEN NoEntry ELSE g[p][s]]
                                   ELSE g[q]
          /\ f = [q \in Procs |-> f[q]]
        BY <2>1, Zenon DEF Evict
    <2>3. \A q \in Procs : f[q] = [s \in Subjects |-> f[q][s]]
        <3>1. \A q \in Procs : cache[q] = [s \in Subjects |-> cache[q][s]]
            BY Zenon DEF FreshInv, Calm
        <3> HIDE DEF f, g
        <3>2. f[p] = [s \in Subjects |-> f[p][s]]
            BY <2>2, <1>1, Zenon
        <3>3. QED
            BY <3>1, <3>2, <2>1, <2>2, Zenon
    <2>4. ASSUME NEW q \in Procs, NEW s \in Subjects PROVE
              \/ f[q][s] = NoEntry
              \/ f[q][s] = cache[q][s] /\ (q = p => s \notin who /\ id \notin cache[q][s].roleIDs)
        <3> HIDE DEF f, g
        <3>1. CASE q = p
            BY <3>1, <2>1, <2>2
        <3>2. CASE q # p
            BY <3>2, <2>1, <2>2, Zenon
        <3>3. QED
            BY <3>1, <3>2, Zenon
    <2>5. ASSUME NEW q \in Procs, NEW s \in Subjects PROVE \E e : e = f[q][s] /\ EntryShape(e) /\ EntryFresh(q, s, e)'
        <3>1. PICK e : e = f[q][s]
            BY Zenon
        <3>2. CASE e = NoEntry
            BY <3>1, <3>2, NoEntryFresh, Zenon DEF EntryFresh
        <3>3. CASE e = cache[q][s] /\ (q = p => s \notin who /\ id \notin cache[q][s].roleIDs)
            <4>1. EntryShape(e) /\ EntryFresh(q, s, e)
                BY <3>3, Zenon DEF FreshInv, Calm
            <4>2. EntryFresh(q, s, e)'
                <5>1. CASE q = p
                    BY <5>1, <4>1, <3>3, <1>4, <1>7, <1>10, Zenon DEF EntryFresh
                <5>2. CASE q # p
                    BY <5>2, <4>1, <3>3, <1>4, <1>5, <1>9, Zenon DEF EntryFresh
                <5>3. QED
                    BY <5>1, <5>2, Zenon
            <4>3. QED
                BY <3>1, <4>1, <4>2, Zenon
        <3>4. QED
            BY <2>4, <3>1, <3>2, <3>3, Zenon
    <2>6. f = [q \in Procs |-> [s \in Subjects |-> f[q][s]]]
        BY <2>2, <2>3, Zenon
    <2>7. cache' = f
        BY <1>4, Zenon
    <2> HIDE DEF f, g
    <2>8. QED
        BY <2>5, <2>6, <2>7, NextCalm, Zenon
<1>14. QED
    BY <1>3, <1>12, <1>13, Zenon DEF FreshInv

-----------------------------------------------------------------------------
\* A write: what it changes waits for the eviction in its own process, and is
\* marked as lagging in the others.
LEMMA WriteStep ==
    ASSUME FreshInv, NEW r \in Reqs, Task(req[r]), ~Evicting(req[r]), NEW nr, NEW nb, NEW saved, Write(r, nr, nb, saved),
           \A b \in nb : BindingShape(b),
           NEW d, d = req'[r], Task(d), Evicting(d), d.proc = req[r].proc,
           \A s \in Subjects : BindingsFor(nb, s) # BindingsFor(bindings, s) => s \in EvictedSubjects(d),
           \A ref : LookupRole(nr, ref) # LookupRole(roles, ref) => ref.id = EvictedRole(d) /\ ref.id # 0
    PROVE  FreshInv'
<1>0. PICK p, hit : p = req[r].proc /\ hit = Touched(nr, nb)
    BY Zenon
<1>1. Evicting(d) /\ d.proc = p /\ p \in Procs
    BY <1>0, Zenon DEF Task
<1>2. roles' = nr /\ bindings' = nb /\ epoch' = epoch
    BY Zenon DEF Write
<1>3. req' = [x \in Reqs |-> req'[x]] /\ req'[r] = d
      /\ \A x \in Reqs \ {r} : req'[x] = IF req[x].op = "decide" /\ req[x].proc # p /\ req[x].actor \in hit
                                        THEN [req[x] EXCEPT !.lag = TRUE] ELSE req[x]
    BY <1>0, Zenon DEF Write
<1>4. /\ cache' = [q \in Procs |-> [s \in Subjects |-> cache'[q][s]]]
      /\ \A q \in Procs, s \in Subjects : cache'[q][s] = IF q # p /\ s \in hit /\ cache[q][s] # NoEntry
                                                       THEN [cache[q][s] EXCEPT !.lag = TRUE] ELSE cache[q][s]
    BY <1>0, Zenon DEF Write
<1>5. StoreInv'
    BY <1>2, Zenon DEF FreshInv, StoreInv
<1>6. \A x \in Reqs : Evicting(req[x]) => req'[x] = req[x]
    BY <1>3, Zenon DEF Evicting
<1>7. \A q, s : Rebinding(q, s) => Rebinding(q, s)'
    BY <1>6, Zenon DEF Rebinding
<1>8. \A q, ids : Redefining(q, ids) => Redefining(q, ids)'
    BY <1>6, Zenon DEF Redefining
<1>9. \A s \in EvictedSubjects(d) : Rebinding(p, s)'
    BY <1>1, <1>3, Zenon DEF Rebinding
<1>10. \A ids : EvictedRole(d) \in ids => Redefining(p, ids)'
    BY <1>1, <1>3, Zenon DEF Redefining
<1>11. \A s \in Subjects \ hit : /\ BindingsFor(nb, s) = BindingsFor(bindings, s)
                              /\ \A b \in BindingsFor(bindings, s) : LookupRole(nr, b.role) = LookupRole(roles, b.role)
    BY <1>0, Zenon DEF Touched
<1>12. ASSUME NEW q \in Procs, NEW s \in Subjects, q = p \/ s \notin hit, NEW done, done \in SUBSET BindingsFor(bindings, s),
              NEW ids, NEW eff, NEW seen, Built(q, done, ids, eff, seen)
       PROVE  Built(q, done, ids, eff, seen)'
    <2>1. CASE Redefining(q, ids)'
        BY <1>12, <2>1, Zenon DEF Built
    <2>2. CASE ~Redefining(q, ids)'
        <3>1. ~Redefining(q, ids)
            BY <2>2, <1>8, Zenon
        <3>2. ids = RoleIDsOf(done) /\ eff = BuildAll(roles, done)
            BY <3>1, <1>12, Zenon DEF Built
        <3>3. ASSUME NEW b \in done, ValidRef(b.role) PROVE LookupRole(nr, b.role) = LookupRole(roles, b.role)
            <4>1. CASE s \notin hit
                BY <4>1, <1>11, <1>12, Zenon
            <4>2. CASE q = p
                <5>1. b.role.id # 0 => b.role.id \in ids
                    BY <3>2, <3>3, Zenon DEF RoleIDsOf
                <5>2. EvictedRole(d) \notin ids
                    BY <4>2, <2>2, <1>10, Zenon
                <5>3. QED
                    BY <5>1, <5>2, Zenon
            <4>3. QED
                BY <4>1, <4>2, <1>12, Zenon
        <3>4. BuildAll(nr, done) = BuildAll(roles, done)
            BY <3>3, SameBuild, Zenon
        <3>5. \A ref \in DOMAIN seen : seen[ref] = LookupRole(nr, ref) /\ \E b \in done : ValidRef(b.role) /\ b.role = ref
            BY <3>1, <3>3, <1>12, SMTT(20) DEF Built
        <3>6. QED
            BY <3>2, <3>4, <3>5, <1>2, ZenonT(30) DEF Built
    <2>3. QED
        BY <2>1, <2>2, Zenon
<1>13. ASSUME NEW e, Load(e), LoadFresh(e), e.proc = p \/ e.actor \notin hit PROVE Load(e)' /\ LoadFresh(e)'
    <2>1. Load(e)'
        BY <1>13, <1>2, Zenon DEF Load
    <2>2. CASE Rebinding(e.proc, e.actor)'
        BY <2>1, <2>2, Zenon DEF LoadFresh
    <2>3. CASE ~Rebinding(e.proc, e.actor)'
        <3>1. e.proc \in Procs /\ e.actor \in Subjects
            BY <1>13, Zenon DEF Load
        <3>2. ~Rebinding(e.proc, e.actor) /\ BindingsFor(nb, e.actor) = BindingsFor(bindings, e.actor)
            BY <3>1, <2>3, <1>7, <1>9, <1>11, <1>13, Zenon
        <3>3. SUFFICES ASSUME e.pc = "roles", e.epoch = epoch[e.proc], ~e.lag
                       PROVE  /\ e.todo \in SUBSET BindingsFor(nb, e.actor)
                              /\ Built(e.proc, BindingsFor(nb, e.actor) \ e.todo, e.roleIDs, e.eff, e.seen)'
            BY <2>1, <1>2, Zenon DEF LoadFresh
        <3>4. /\ e.todo \in SUBSET BindingsFor(bindings, e.actor)
              /\ Built(e.proc, BindingsFor(bindings, e.actor) \ e.todo, e.roleIDs, e.eff, e.seen)
            BY <3>2, <3>3, <1>13, ZenonT(30) DEF LoadFresh
        <3>5. PICK done : done = BindingsFor(bindings, e.actor) \ e.todo
            BY ZenonT(30)
        <3>6. Built(e.proc, done, e.roleIDs, e.eff, e.seen)'
            BY <3>1, <3>4, <3>5, <1>12, <1>13, Zenon
        <3>7. QED
            BY <3>2, <3>4, <3>5, <3>6, Zenon
    <2>4. QED
        BY <2>1, <2>2, <2>3, ZenonT(30)
<1>14. ReqInv'
    <2>1. ASSUME NEW x \in Reqs PROVE (req[x] = Idle \/ (Load(req[x]) /\ LoadFresh(req[x])) \/ Task(req[x]))'
        <3>1. PICK e : e = req'[x]
            BY Zenon
        <3>2. CASE x = r
            BY <3>1, <3>2, <1>3, NextReq, Zenon
        <3>3. CASE x # r /\ Load(req[x]) /\ LoadFresh(req[x]) /\ (req[x].proc = p \/ req[x].actor \notin hit)
            <4>1. e = req[x]
                BY <3>1, <3>3, <1>3, Zenon
            <4>2. QED
                BY <4>1, <3>1, <3>3, <1>13, NextReq, ZenonT(30)
        <3>4. CASE x # r /\ Load(req[x]) /\ ~(req[x].proc = p \/ req[x].actor \notin hit)
            <4>1. e = [req[x] EXCEPT !.lag = TRUE]
                BY <3>1, <3>4, <1>3, Zenon DEF Load
            <4>2. Load(e)' /\ e.lag
                BY <4>1, <3>4, <1>2, LagFields, SMTT(20) DEF Load
            <4>3. LoadFresh(e)'
                BY <4>2, Zenon DEF LoadFresh
            <4>4. QED
                BY <4>2, <4>3, <3>1, NextReq, Zenon
        <3>5. CASE x # r /\ (req[x] = Idle \/ Task(req[x]))
            <4>1. e = req[x]
                BY <3>1, <3>5, <1>3, Zenon DEF Task, Ops, Idle
            <4>2. QED
                BY <4>1, <3>1, <3>5, NextReq, Zenon
        <3>6. QED
            BY <3>2, <3>3, <3>4, <3>5, Zenon DEF FreshInv, ReqInv
    <2>2. QED
        BY <1>3, <2>1, Zenon DEF ReqInv
<1>15. Calm(cache)'
    <2>1. ASSUME NEW q \in Procs, NEW s \in Subjects PROVE \E e : e = cache'[q][s] /\ EntryShape(e) /\ EntryFresh(q, s, e)'
        <3>1. PICK e, o : e = cache'[q][s] /\ o = cache[q][s]
            BY Zenon
        <3>2. EntryShape(o) /\ EntryFresh(q, s, o)
            BY <3>1, Zenon DEF FreshInv, Calm
        <3>3. CASE q # p /\ s \in hit /\ o # NoEntry
            <4>1. e = [o EXCEPT !.lag = TRUE]
                BY <3>1, <3>3, <1>4, Zenon
            <4>2. EntryShape(e) /\ e.lag
                BY <4>1, <3>2, LagEntry, Zenon
            <4>3. EntryFresh(q, s, e)'
                BY <4>2, Zenon DEF EntryFresh
            <4>4. QED
                BY <3>1, <4>2, <4>3, Zenon
        <3>4. CASE o = NoEntry
            <4>1. e = o
                BY <3>1, <3>4, <1>4, ZenonT(30)
            <4>2. EntryFresh(q, s, e)'
                BY <4>1, <3>4, Zenon DEF EntryFresh, NoEntry
            <4>3. QED
                BY <3>1, <3>2, <4>1, <4>2, ZenonT(30)
        <3>5. CASE q = p \/ s \notin hit
            <4>1. e = o
                BY <3>1, <3>5, <1>4, ZenonT(30)
            <4>2. CASE Rebinding(q, s)' \/ o.lag \/ o = NoEntry
                BY <4>1, <4>2, <3>1, <3>2, Zenon DEF EntryFresh, NoEntry
            <4>3. CASE ~(Rebinding(q, s)' \/ o.lag \/ o = NoEntry)
                <5>1. ~Rebinding(q, s) /\ BindingsFor(nb, s) = BindingsFor(bindings, s)
                    BY <4>3, <3>5, <1>7, <1>9, <1>11, ZenonT(30)
                <5>2. PICK done : done = BindingsFor(bindings, s)
                    BY Zenon
                <5>3. Built(q, done, o.roleIDs, o.eff, <<>>)
                    BY <5>1, <5>2, <4>3, <3>2, ZenonT(30) DEF EntryFresh
                <5>4. Built(q, done, o.roleIDs, o.eff, <<>>)'
                    BY <5>2, <5>3, <3>5, <1>12, Zenon
                <5>5. QED
                    BY <5>1, <5>2, <5>4, <4>1, <3>1, <3>2, <1>2, ZenonT(30) DEF EntryFresh
            <4>4. QED
                BY <4>2, <4>3, ZenonT(30)
        <3>6. QED
            BY <3>3, <3>4, <3>5, Zenon
    <2>2. QED
        BY <2>1, <1>4, NextCalm, Zenon
<1>16. QED
    BY <1>5, <1>14, <1>15, Zenon DEF FreshInv

-----------------------------------------------------------------------------
(* The cases of a step.                                                      *)

LEMMA SameEpochs == ASSUME FreshInv, epoch' = epoch PROVE epoch' \in [Procs -> Nat] /\ \A q \in Procs : epoch'[q] = epoch[q] \/ epoch'[q] = epoch[q] + 1
BY Zenon DEF FreshInv, StoreInv

LEMMA BumpEpochs ==
    ASSUME FreshInv, NEW p \in Procs, Bump(p)
    PROVE  epoch' \in [Procs -> Nat] /\ \A q \in Procs : epoch'[q] = epoch[q] \/ epoch'[q] = epoch[q] + 1
BY DEF FreshInv, StoreInv, Bump

LEMMA ExpireStep ==
    ASSUME FreshInv, NEW p \in Procs, NEW s \in Subjects, Expire(p, s)
    PROVE  FreshInv'
<1>1. PICK c : c = [cache EXCEPT ![p][s] = NoEntry]
    BY Zenon
<1>2. Calm(c) /\ cache' = c /\ UNCHANGED <<roles, bindings, epoch, req>>
    BY <1>1, StoredCalm, NoEntryFresh, Zenon DEF FreshInv, Expire, storeVars
<1>3. StoreInv'
    BY <1>2, Zenon DEF FreshInv, StoreInv
<1>4. ReqInv'
    BY <1>2 DEF FreshInv, ReqInv, Load, LoadFresh, Rebinding, Built, Redefining
<1>5. Calm(cache)'
    BY <1>2 DEF Calm, EntryFresh, Rebinding, Built, Redefining
<1>6. QED
    BY <1>3, <1>4, <1>5, Zenon DEF FreshInv

LEMMA GetStep ==
    ASSUME FreshInv, NEW r \in Reqs, NEW p \in Procs, NEW s \in Subjects, CacheGet(r, p, s)
    PROVE  FreshInv'
<1>1. PICK d : d = [op |-> "decide", pc |-> "bindings", proc |-> p, actor |-> s, epoch |-> epoch[p],
                    todo |-> {}, seen |-> <<>>, eff |-> {}, roleIDs |-> {}, lag |-> FALSE]
    BY ZenonT(30)
<1>2. /\ LoadShape(d) /\ d.op = "decide" /\ d.pc = "bindings" /\ d.proc = p /\ d.actor = s /\ d.epoch = epoch[p]
      /\ d.seen = <<>> /\ d.roleIDs = {} /\ d.eff = {}
    BY <1>1, NewFields
<1>3. req' = [req EXCEPT ![r] = d] /\ req[r] = Idle /\ UNCHANGED <<roles, bindings, cache, epoch>>
    BY <1>1, Zenon DEF CacheGet, Start, Free, storeVars, cacheVars
<1>4. Load(d) /\ LoadFresh(d)
    <2>1. DOMAIN <<>> = {} /\ epoch[p] \in Nat /\ epoch[p] <= epoch[p]
        BY DEF FreshInv, StoreInv
    <2>2. QED
        BY <1>2, <2>1, Zenon DEF Load, LoadFresh
<1>5. ~Evicting(req[r])
    BY <1>3 DEF Evicting, Idle
<1>6. QED
    BY <1>3, <1>4, <1>5, SameEpochs, QuietStep, ZenonT(30) DEF FreshInv

LEMMA LoadingIs ==
    ASSUME FreshInv, NEW r \in Reqs, req[r].op = "decide"
    PROVE  Load(req[r]) /\ LoadFresh(req[r]) /\ ~Evicting(req[r])
BY DEF FreshInv, ReqInv, Task, Ops, Idle, Evicting

LEMMA LoadFailsStep == ASSUME FreshInv, NEW r \in Reqs, LoadFails(r) PROVE FreshInv'
<1>1. PICK d : d = Idle
    BY Zenon
<1>2. req' = [req EXCEPT ![r] = d] /\ UNCHANGED <<roles, bindings, cache, epoch>> /\ ~Evicting(req[r])
    BY <1>1, LoadingIs, Zenon DEF LoadFails, storeVars, cacheVars
<1>3. QED
    BY <1>1, <1>2, SameEpochs, QuietStep, Zenon DEF FreshInv

LEMMA LoadBindingsStep == ASSUME FreshInv, NEW r \in Reqs, LoadBindings(r) PROVE FreshInv'
<1>0. PICK o, todo : o = req[r] /\ todo = BindingsFor(bindings, o.actor)
    BY Zenon
<1>1. PICK d : d = [o EXCEPT !.pc = "roles", !.todo = todo]
    BY Zenon
<1>2. req' = [req EXCEPT ![r] = d] /\ UNCHANGED <<roles, bindings, cache, epoch>> /\ o.pc = "bindings"
    BY <1>0, <1>1, Zenon DEF LoadBindings, storeVars, cacheVars, FreshInv, ReqInv
<1>3. Load(o) /\ ~Evicting(req[r])
    BY <1>0, LoadingIs, Zenon DEF LoadBindings
<1>4. /\ LoadShape(d) /\ d.op = o.op /\ d.pc = "roles" /\ d.proc = o.proc /\ d.actor = o.actor /\ d.epoch = o.epoch
      /\ d.lag = o.lag /\ d.todo = todo /\ d.seen = o.seen /\ d.roleIDs = o.roleIDs /\ d.eff = o.eff
    <2>1. LoadShape(o)
        BY <1>3, Zenon DEF Load
    <2>2. QED
        <3>1. LoadShape(d)
            BY <2>1, <1>1, ZenonT(30) DEF LoadShape
        <3>2. QED
            BY <3>1, <2>1, <1>1, PartsIn, ZenonT(30) DEF LoadShape
<1>5. Load(d)
    BY <1>3, <1>4, Zenon DEF Load
<1>6. LoadFresh(d)
    <2>1. BindingsFor(bindings, d.actor) \ d.todo = {} /\ d.todo \in SUBSET BindingsFor(bindings, d.actor)
        BY <1>0, <1>4, Zenon
    <2>2. d.eff = {} /\ d.roleIDs = {} /\ DOMAIN d.seen = {}
        BY <1>2, <1>3, <1>4, ZenonT(30) DEF Load
    <2>3. RoleIDsOf({}) = {} /\ BuildAll(roles, {}) = {}
        BY Zenon DEF RoleIDsOf, BuildAll
    <2>4. QED
        BY <2>1, <2>2, <2>3, Zenon DEF LoadFresh, Built
<1>7. QED
    BY <1>2, <1>3, <1>5, <1>6, SameEpochs, QuietStep, ZenonT(30) DEF FreshInv

LEMMA LoadRoleStep == ASSUME FreshInv, NEW r \in Reqs, LoadRole(r) PROVE FreshInv'
<1>0. PICK o : o = req[r]
    BY Zenon
<1>1. Load(o) /\ LoadFresh(o) /\ ~Evicting(req[r]) /\ o.pc = "roles" /\ UNCHANGED <<roles, bindings, cache, epoch>>
    BY <1>0, LoadingIs, Zenon DEF LoadRole, storeVars, cacheVars
<1>a. PICK b \in o.todo : req' = [req EXCEPT ![r] = BuildNext(o, b)]
    BY <1>0, ZenonT(30) DEF LoadRole
<1>2. PICK d, role, todo, seen, ids, eff :
          /\ role = RoleMet(o, b.role)
          /\ todo = o.todo \ {b}
          /\ seen = [ref \in DOMAIN o.seen \cup (IF ValidRef(b.role) /\ role # NoRole THEN {b.role} ELSE {}) |-> RoleMet(o, ref)]
          /\ ids = o.roleIDs \cup RoleIDsOf({b})
          /\ eff = o.eff \cup Clauses(b, role)
          /\ d = [o EXCEPT !.todo = todo, !.seen = seen, !.roleIDs = ids, !.eff = eff]
          /\ req' = [req EXCEPT ![r] = d]
    BY <1>a, Zenon DEF BuildNext
<1>3. /\ LoadShape(d) /\ d.op = o.op /\ d.pc = o.pc /\ d.proc = o.proc /\ d.actor = o.actor /\ d.epoch = o.epoch
      /\ d.lag = o.lag /\ d.todo = todo /\ d.seen = seen /\ d.roleIDs = ids /\ d.eff = eff
    <2>1. LoadShape(o)
        BY <1>1, Zenon DEF Load
    <2>2. QED
        <3>0. d = [o EXCEPT !.todo = todo, !.seen = seen, !.roleIDs = ids, !.eff = eff]
            BY <1>2, Zenon
        <3>1. LoadShape(d)
            BY <2>1, <3>0, ZenonT(30) DEF LoadShape
        <3>2. QED
            BY <3>0, <3>1, <2>1, PartsIn, ZenonT(30) DEF LoadShape
<1>4. Load(d)
    BY <1>1, <1>3, Zenon DEF Load
<1>5. LoadFresh(d)
    <2>1. SUFFICES ASSUME o.epoch = epoch[o.proc], ~o.lag, ~Rebinding(o.proc, o.actor)
                   PROVE  /\ todo \in SUBSET BindingsFor(bindings, o.actor)
                          /\ Built(o.proc, BindingsFor(bindings, o.actor) \ todo, ids, eff, seen)
        BY <1>3, Zenon DEF LoadFresh
    <2>2. PICK all, done : all = BindingsFor(bindings, o.actor) /\ done = all \ o.todo
        BY ZenonT(30)
    <2>3. o.todo \in SUBSET all /\ Built(o.proc, done, o.roleIDs, o.eff, o.seen)
        BY <2>1, <2>2, <1>1, Zenon DEF LoadFresh
    <2>4. all \ todo = done \cup {b} /\ todo \in SUBSET all
        BY <2>2, <2>3, <1>2, Zenon
    <2>5. ids = RoleIDsOf(done \cup {b})
        BY <2>3, <1>2 DEF Built, RoleIDsOf
    <2>6. CASE Redefining(o.proc, o.roleIDs)
        <3>1. Redefining(o.proc, ids)
            BY <2>6, <1>2, Zenon DEF Redefining
        <3>2. QED
            BY <3>1, <2>2, <2>4, <2>5, Zenon DEF Built
    <2>7. CASE ~Redefining(o.proc, o.roleIDs)
        <3>1. /\ o.eff = BuildAll(roles, done)
              /\ \A ref \in DOMAIN o.seen : /\ o.seen[ref] = LookupRole(roles, ref)
                                            /\ \E x \in done : ValidRef(x.role) /\ x.role = ref
            BY <2>3, <2>7, Zenon DEF Built
        <3>2. \A ref : RoleMet(o, ref) = LookupRole(roles, ref)
            BY <3>1, Zenon DEF RoleMet
        <3>3. eff = BuildAll(roles, done) \cup BuildOne(roles, b)
            BY <3>1, <3>2, <1>2, Zenon DEF BuildOne
        <3>4. eff = BuildAll(roles, done \cup {b})
            BY <3>3, Zenon DEF BuildAll
        <3>5. \A ref \in DOMAIN seen : /\ seen[ref] = LookupRole(roles, ref)
                                      /\ \E x \in done \cup {b} : ValidRef(x.role) /\ x.role = ref
            BY <3>1, <3>2, <1>2, Zenon
        <3>6. QED
            BY <3>4, <3>5, <2>2, <2>4, <2>5, ZenonT(30) DEF Built
    <2>8. QED
        BY <2>6, <2>7, Zenon
<1>6. QED
    BY <1>1, <1>2, <1>4, <1>5, SameEpochs, QuietStep, ZenonT(30) DEF FreshInv

LEMMA CachePutStep == ASSUME FreshInv, NEW r \in Reqs, CachePut(r) PROVE FreshInv'
<1>1. PICK o, d, e, c : o = req[r] /\ d = Idle /\ e = [eff |-> o.eff, roleIDs |-> o.roleIDs, lag |-> o.lag] /\ c = cache'
    BY ZenonT(30)
<1>2. Load(o) /\ LoadFresh(o) /\ ~Evicting(req[r]) /\ o.pc = "roles" /\ o.todo = {} /\ UNCHANGED <<roles, bindings, epoch>>
    BY <1>1, LoadingIs, Zenon DEF CachePut, storeVars
<1>3. c = (IF o.epoch # epoch[o.proc] THEN cache ELSE [cache EXCEPT ![o.proc][o.actor] = e]) /\ req' = [req EXCEPT ![r] = d]
    BY <1>1, Zenon DEF CachePut, SameEpoch
<1>4. Calm(c)
    <2>1. CASE o.epoch # epoch[o.proc]
        BY <2>1, <1>3, Zenon DEF FreshInv
    <2>2. CASE o.epoch = epoch[o.proc]
        <3>1. EntryShape(e) /\ e.eff = o.eff /\ e.roleIDs = o.roleIDs
            BY <1>1, Zenon DEF EntryShape
        <3>2. o.lag => e.lag
            BY <1>1, Zenon
        <3>3. EntryFresh(o.proc, o.actor, e)
            <4>1. BindingsFor(bindings, o.actor) \ o.todo = BindingsFor(bindings, o.actor)
                BY <1>2, Zenon
            <4>2. \/ o.lag
                  \/ Rebinding(o.proc, o.actor)
                  \/ Built(o.proc, BindingsFor(bindings, o.actor), o.roleIDs, o.eff, o.seen)
                BY <4>1, <2>2, <1>2, Zenon DEF LoadFresh
            <4>3. DOMAIN <<>> = {}
                OBVIOUS
            <4>4. Built(o.proc, BindingsFor(bindings, o.actor), o.roleIDs, o.eff, o.seen) => Built(o.proc, BindingsFor(bindings, o.actor), o.roleIDs, o.eff, <<>>)
                BY <4>3, Zenon DEF Built
            <4>5. QED
                BY <3>1, <3>2, <4>2, <4>4, Zenon DEF EntryFresh
        <3>4. QED
            BY <3>1, <3>3, <2>2, <1>2, <1>3, StoredCalm, ZenonT(30) DEF Load, FreshInv
    <2>3. QED
        BY <2>1, <2>2, Zenon
<1>5. QED
    BY <1>1, <1>2, <1>3, <1>4, SameEpochs, QuietStep, ZenonT(30)

LEMMA AdminStart ==
    ASSUME FreshInv, NEW r \in Reqs, NEW p \in Procs, NEW a \in Subjects, NEW d, d = Idle \/ Task(d), Start(r, d),
           cache' = Loaded(p, a), UNCHANGED <<roles, bindings, epoch>>
    PROVE  FreshInv'
<1>1. PICK c : c = Loaded(p, a)
    BY Zenon
<1>2. Calm(c)
    BY <1>1, LoadedCalm, Zenon DEF FreshInv
<1>3. ~Evicting(req[r])
    BY DEF Start, Free, Evicting, Idle
<1>4. QED
    BY <1>1, <1>2, <1>3, SameEpochs, QuietStep, Zenon DEF Start

LEMMA TaskIs ==
    ASSUME NEW op \in Ops, NEW pc, NEW p \in Procs, NEW a, op = "seed" \/ a \in Subjects, NEW args, NEW moved, ArgsOf(op, pc, args, moved), NEW d,
           d = [op |-> op, pc |-> pc, proc |-> p, actor |-> a, args |-> args, moved |-> moved]
    PROVE  Task(d)
<1>1. TaskShape(d) /\ d.op = op /\ d.pc = pc /\ d.proc = p /\ d.actor = a /\ d.args = args /\ d.moved = moved
    BY Zenon DEF TaskShape
<1>2. QED
    BY <1>1, Zenon DEF Task

LEMMA BeginStep ==
    ASSUME FreshInv, NEW r \in Reqs, NEW op \in Ops, NEW p \in Procs, NEW a \in Subjects, NEW args, NEW allowed, NEW pc,
           Begin(r, op, p, a, args, allowed, pc), ArgsOf(op, pc, args, {})
    PROVE  FreshInv'
<1>1. PICK t : t = [op |-> op, pc |-> pc, proc |-> p, actor |-> a, args |-> args, moved |-> {}]
    BY ZenonT(30)
<1>2. PICK d : d = IF ~allowed THEN Idle ELSE t
    BY Zenon
<1>3. d = Idle \/ d = t
    BY <1>2, Zenon
<1>4. Task(t)
    BY <1>1, TaskIs, Zenon
<1>5. Start(r, d) /\ cache' = Loaded(p, a) /\ UNCHANGED <<roles, bindings, epoch>>
    BY <1>1, <1>2, ZenonT(30) DEF Begin, storeVars
<1>6. QED
    BY <1>3, <1>4, <1>5, AdminStart, Zenon

LEMMA SaveCheckStep ==
    ASSUME FreshInv, NEW r \in Reqs, NEW p \in Procs, NEW a \in Subjects, NEW eff, NEW id, NEW draft, SaveRoleCheck(r, p, a, eff, id, draft)
    PROVE  FreshInv'
<1>1. PICK args, pc : args = [id |-> id, draft |-> draft] /\ pc = IF id = 0 THEN "write" ELSE "own"
    BY ZenonT(30)
<1>2. ArgsOf("save", pc, args, {})
    BY <1>1, Zenon DEF ArgsOf
<1>3. "save" \in Ops
    BY Zenon DEF Ops
<1>4. QED
    BY <1>1, <1>2, <1>3, BeginStep, Zenon DEF SaveRoleCheck

LEMMA DeleteCheckStep ==
    ASSUME FreshInv, NEW r \in Reqs, NEW p \in Procs, NEW a \in Subjects, NEW eff, NEW id \in RoleIds, NEW perm,
           DeleteRoleCheck(r, p, a, eff, id, perm)
    PROVE  FreshInv'
<1>1. PICK args : args = [id |-> id, perm |-> perm]
    BY ZenonT(30)
<1>2. ArgsOf("delete", "write", args, {})
    BY <1>1, AuthzAssumption, Zenon DEF ArgsOf
<1>3. "delete" \in Ops
    BY Zenon DEF Ops
<1>4. QED
    BY <1>1, <1>2, <1>3, BeginStep, Zenon DEF DeleteRoleCheck

LEMMA BindCheckStep ==
    ASSUME FreshInv, NEW r \in Reqs, NEW p \in Procs, NEW a \in Subjects, NEW eff, NEW b, BindingShape(b), BindCheck(r, p, a, eff, b)
    PROVE  FreshInv'
<1>2. ArgsOf("bind", "write", b, {}) /\ "bind" \in Ops
    BY Zenon DEF ArgsOf, Ops
<1>4. QED
    BY <1>2, BeginStep, Zenon DEF BindCheck

LEMMA UnbindCheckStep ==
    ASSUME FreshInv, NEW r \in Reqs, NEW p \in Procs, NEW a \in Subjects, NEW eff, NEW b, BindingShape(b), UnbindCheck(r, p, a, eff, b)
    PROVE  FreshInv'
<1>1. PICK pc : pc = IF b.subject = a THEN "own" ELSE "write"
    BY Zenon
<1>2. ArgsOf("unbind", pc, b, {}) /\ "unbind" \in Ops
    BY Zenon DEF ArgsOf, Ops
<1>4. QED
    BY <1>1, <1>2, BeginStep, Zenon DEF UnbindCheck

LEMMA ReplaceCheckStep ==
    ASSUME FreshInv, NEW r \in Reqs, NEW p \in Procs, NEW a \in Subjects, NEW eff, NEW id \in RoleIds, NEW with,
           ReplaceCheck(r, p, a, eff, id, with)
    PROVE  FreshInv'
<1>1. PICK args, moved, pc, t : /\ args = [id |-> id, with |-> with, done |-> {}, view |-> {}]
                                /\ moved = BindingsForRole(bindings, id) /\ pc = IF moved = {} THEN "commit" ELSE "begin"
                                /\ t = [op |-> "replace", pc |-> pc, proc |-> p, actor |-> a, args |-> args, moved |-> moved]
    BY ZenonT(30)
<1>2. \A b \in moved : BindingShape(b)
    BY <1>1, Zenon DEF BindingsForRole, FreshInv, StoreInv
<1>3. args.id # 0 /\ args = [id |-> args.id, with |-> args.with, done |-> args.done, view |-> args.view]
    BY <1>1, AuthzAssumption, Zenon
<1>4. ArgsOf("replace", pc, args, moved) /\ "replace" \in Ops
    BY <1>2, <1>3, Zenon DEF ArgsOf, Ops
<1>5. Task(t)
    BY <1>1, <1>4, TaskIs, Zenon
<1>6. PICK d : d = IF roles[id] = NoRole \/ ~Require(eff, ManageRoles) THEN Idle ELSE t
    BY Zenon
<1>7. Start(r, d) /\ cache' = Loaded(p, a) /\ UNCHANGED <<roles, bindings, epoch>>
    BY <1>1, <1>6, Zenon DEF ReplaceCheck, storeVars
<1>8. QED
    BY <1>5, <1>6, <1>7, AdminStart, Zenon

LEMMA SeedStep ==
    ASSUME FreshInv, NEW r \in Reqs, Seed(r)
    PROVE  FreshInv'
<1>1. PICK p \in AdminProcs, b \in SeedBindings :
          /\ Start(r, [op |-> "seed", pc |-> "write", proc |-> p, actor |-> [kind |-> "system", id |-> 0], args |-> b, moved |-> {}])
          /\ UNCHANGED <<storeVars, cacheVars, own, byOthers>>
    BY Zenon DEF Seed
<1>2. PICK a, d : a = [kind |-> "system", id |-> 0] /\ d = [op |-> "seed", pc |-> "write", proc |-> p, actor |-> a, args |-> b, moved |-> {}]
    BY ZenonT(30)
<1>3. b \in Bindings /\ p \in Procs
    BY <1>1, AuthzAssumption, Zenon
<1>4. BindingShape(b)
    BY <1>3, Zenon DEF Bindings, BindingShape
<1>5. ArgsOf("seed", "write", b, {}) /\ "seed" \in Ops
    BY <1>4, Zenon DEF ArgsOf, Ops
<1>6. Task(d)
    BY <1>2, <1>3, <1>5, TaskIs, ZenonT(30)
<1>7. Start(r, d) /\ UNCHANGED <<roles, bindings, cache, epoch>>
    BY <1>1, <1>2, ZenonT(30) DEF storeVars, cacheVars
<1>8. ~Evicting(req[r]) /\ req' = [req EXCEPT ![r] = d]
    BY <1>7 DEF Start, Free, Evicting, Idle
<1>9. QED
    BY <1>6, <1>7, <1>8, SameEpochs, QuietStep, ZenonT(30) DEF FreshInv

-----------------------------------------------------------------------------
\* The requests under way.
LEMMA TaskNow == ASSUME FreshInv, NEW r \in Reqs, req[r].op \in Ops PROVE Task(req[r])
BY DEF FreshInv, ReqInv, Load, Idle, Ops

LEMMA MovedOn ==
    ASSUME NEW o, Task(o), NEW pc, pc # "evict", NEW d, d = [o EXCEPT !.pc = pc]
    PROVE  Task(d)
<1>1. TaskShape(o)
    BY Zenon DEF Task
<1>2. TaskShape(d) /\ d.op = o.op /\ d.pc = pc /\ d.proc = o.proc /\ d.actor = o.actor /\ d.args = o.args /\ d.moved = o.moved
    BY <1>1, Zenon DEF TaskShape
<1>3. QED
    BY <1>2, Zenon DEF Task, ArgsOf

LEMMA RefusedStep ==
    ASSUME FreshInv, NEW r \in Reqs, WriteRefused(r), ~Evicting(req[r])
    PROVE  FreshInv'
<1>1. PICK d : d = Idle
    BY Zenon
<1>2. req' = [req EXCEPT ![r] = d] /\ UNCHANGED <<roles, bindings, cache, epoch>>
    BY <1>1, Zenon DEF WriteRefused, storeVars, cacheVars
<1>3. QED
    BY <1>1, <1>2, SameEpochs, QuietStep, Zenon DEF FreshInv

LEMMA OwnCheckStep == ASSUME FreshInv, NEW r \in Reqs, OwnCheck(r) PROVE FreshInv'
<1>1. PICK o, t, c : o = req[r] /\ t = [o EXCEPT !.pc = "write"] /\ c = Loaded(o.proc, o.actor)
    BY Zenon
<1>2. Task(o) /\ ~Evicting(req[r]) /\ o.proc \in Procs /\ o.actor \in Subjects
    BY <1>1, TaskNow, Zenon DEF OwnCheck, Ops, Task, Evicting
<1>3. Calm(c)
    BY <1>1, <1>2, LoadedCalm, Zenon DEF FreshInv
<1>4. Task(t)
    BY <1>1, <1>2, MovedOn, Zenon
<1>5. PICK d : (d = t \/ d = Idle) /\ req' = [req EXCEPT ![r] = d]
    BY <1>1, ZenonT(30) DEF OwnCheck, FreshInv, ReqInv
<1>6. cache' = c /\ UNCHANGED <<roles, bindings, epoch>>
    BY <1>1, Zenon DEF OwnCheck, storeVars
<1>7. QED
    BY <1>2, <1>3, <1>4, <1>5, <1>6, SameEpochs, QuietStep, Zenon

\* What a transaction loads from its snapshot is what the store holds, or lags.
LEMMA LoadedInTxCalm ==
    ASSUME Calm(cache), NEW d, d.proc \in Procs, d.actor \in Subjects, NEW view
    PROVE  Calm(LoadedInTx(d, view))
<1>1. PICK p, a, lag, e : /\ p = d.proc /\ a = d.actor
                          /\ lag = ~(view.eff = AccessNow(a) /\ view.roleIDs = RoleIDsOf(BindingsFor(bindings, a)))
                          /\ e = [eff |-> view.eff, roleIDs |-> view.roleIDs, lag |-> lag]
    BY ZenonT(30)
<1>2. e.roleIDs = view.roleIDs /\ e.eff = view.eff /\ e.lag = lag /\ EntryShape(e)
    BY <1>1, Zenon DEF EntryShape
<1>3. DOMAIN <<>> = {}
    OBVIOUS
<1>4. EntryFresh(p, a, e)
    <2>1. CASE lag
        BY <1>2, <2>1, Zenon DEF EntryFresh
    <2>2. CASE ~lag
        <3>1. e.roleIDs = RoleIDsOf(BindingsFor(bindings, a)) /\ e.eff = BuildAll(roles, BindingsFor(bindings, a))
            BY <1>1, <1>2, <2>2, Zenon DEF AccessNow
        <3>2. QED
            BY <3>1, <1>3, Zenon DEF EntryFresh, Built
    <2>3. QED
        BY <2>1, <2>2, Zenon
<1>5. Calm([cache EXCEPT ![p][a] = e])
    BY <1>1, <1>2, <1>4, StoredCalm, Zenon
<1>6. LoadedInTx(d, view) = cache \/ LoadedInTx(d, view) = [cache EXCEPT ![p][a] = e]
    BY <1>1, Zenon DEF LoadedInTx
<1>7. QED
    BY <1>5, <1>6, Zenon

LEMMA InTxKeeps ==
    ASSUME FreshInv, NEW r \in Reqs, Task(req[r]), ~Evicting(req[r]), req[r].actor \in Subjects, NEW view, NEW next, next = Idle \/ Task(next),
           NEW who, InTxStep(r, view, next, who)
    PROVE  FreshInv'
<1>1. PICK c : c = Evict(LoadedInTx(req[r], view), req[r].proc, who)
    BY Zenon
<1>2. req[r].proc \in Procs
    BY Zenon DEF Task
<1>3. Calm(c)
    BY <1>1, <1>2, LoadedInTxCalm, EvictCalm, Zenon DEF FreshInv
<1>4. cache' = c /\ roles' = roles /\ bindings' = bindings /\ req' = [req EXCEPT ![r] = next]
    BY <1>1, Zenon DEF InTxStep, storeVars
<1>5. epoch' = epoch \/ Bump(req[r].proc)
    BY Zenon DEF InTxStep
<1>6. epoch' \in [Procs -> Nat] /\ \A q \in Procs : epoch'[q] = epoch[q] \/ epoch'[q] = epoch[q] + 1
    BY <1>2, <1>5, SameEpochs, BumpEpochs, Zenon
<1>7. QED
    BY <1>3, <1>4, <1>6, QuietStep, ZenonT(30)

\* A replacement that goes on: its arguments keep their shape.
TxArgs(args) == args = [id |-> args.id, with |-> args.with, done |-> args.done, view |-> args.view]

LEMMA TxOn ==
    ASSUME NEW o, Task(o), o.op = "replace", NEW pc, pc # "evict", NEW args, NEW d, d = [o EXCEPT !.pc = pc, !.args = args], args.id = o.args.id,
           TxArgs(args)
    PROVE  Task(d)
<1>1. TaskShape(o)
    BY Zenon DEF Task
<1>2. TaskShape(d) /\ d.op = o.op /\ d.pc = pc /\ d.proc = o.proc /\ d.actor = o.actor /\ d.args = args /\ d.moved = o.moved
    BY <1>1, Zenon DEF TaskShape
<1>3. QED
    BY <1>2, Zenon DEF Task, ArgsOf, TxArgs

LEMMA ReplaceBindStep == ASSUME FreshInv, NEW r \in Reqs, ReplaceBind(r) PROVE FreshInv'
<1>1. PICK o, args, view : o = req[r] /\ args = o.args /\ view = ViewOfTx(o)
    BY Zenon
<1>2. Task(o) /\ ~Evicting(o) /\ o.op = "replace" /\ o.proc \in Procs /\ o.actor \in Subjects
    BY <1>1, TaskNow, Zenon DEF ReplaceBind, Doing, Ops, Task, Evicting
<1>3. args = [id |-> args.id, with |-> args.with, done |-> args.done, view |-> args.view]
    BY <1>1, <1>2, Zenon DEF Task, ArgsOf
<1>4. PICK new, t : new = [args EXCEPT !.view = view] /\ t = [o EXCEPT !.pc = "unbind", !.args = new]
    BY Zenon
<1>5. TxArgs(new) /\ new.id = o.args.id
    BY <1>1, <1>3, <1>4, ZenonT(30) DEF TxArgs
<1>6. Task(t)
    <2>1. "unbind" # "evict"
        OBVIOUS
    <2>2. QED
        BY ONLY <1>2, <1>4, <1>5, <2>1, TxOn, Zenon
<1>7. \/ req' = [req EXCEPT ![r] = Idle] /\ UNCHANGED <<storeVars, cacheVars, own, ops, byOthers>>
      \/ \E next, who : (next = t \/ next = Idle) /\ InTxStep(r, view, next, who)
    <2>1. t = [o EXCEPT !.pc = "unbind", !.args = [@ EXCEPT !.view = view]]
        BY <1>1, <1>2, <1>4, Zenon DEF Task, TaskShape
    <2>2. QED
        BY <1>1, <2>1, Zenon DEF ReplaceBind
<1>8. CASE req' = [req EXCEPT ![r] = Idle] /\ UNCHANGED <<storeVars, cacheVars, own, ops, byOthers>>
    <2>1. UNCHANGED <<roles, bindings, cache, epoch>>
        BY <1>8, Zenon DEF storeVars, cacheVars
    <2>2. QED
        BY <1>1, <1>2, <1>8, <2>1, SameEpochs, QuietStep, ZenonT(30) DEF FreshInv
<1>9. QED
    BY <1>1, <1>2, <1>6, <1>7, <1>8, InTxKeeps, Zenon

LEMMA ReplaceUnbindStep == ASSUME FreshInv, NEW r \in Reqs, ReplaceUnbind(r) PROVE FreshInv'
<1>1. PICK o, args : o = req[r] /\ args = o.args
    BY Zenon
<1>2. Task(o) /\ ~Evicting(o) /\ o.op = "replace" /\ o.proc \in Procs /\ o.actor \in Subjects
    BY <1>1, TaskNow, Zenon DEF ReplaceUnbind, Doing, Ops, Task, Evicting
<1>3. args = [id |-> args.id, with |-> args.with, done |-> args.done, view |-> args.view]
    BY <1>1, <1>2, Zenon DEF Task, ArgsOf
<1>4. PICK view, pc, done, next, who :
          /\ pc \in {"commit", "bind"} /\ InTxStep(r, view, next, who)
          /\ next = Idle \/ next = [o EXCEPT !.pc = pc, !.args = [@ EXCEPT !.done = done]]
    BY <1>1, Zenon DEF ReplaceUnbind
<1>5. PICK new, t : new = [args EXCEPT !.done = done] /\ t = [o EXCEPT !.pc = pc, !.args = new]
    BY Zenon
<1>6. TxArgs(new) /\ new.id = o.args.id
    BY <1>1, <1>3, <1>5, ZenonT(30) DEF TxArgs
<1>7. Task(t)
    <2>1. pc # "evict"
        BY <1>4, Zenon
    <2>2. QED
        BY ONLY <1>2, <1>5, <1>6, <2>1, TxOn, Zenon
<1>8. next = Idle \/ next = t
    BY <1>1, <1>2, <1>4, <1>5, Zenon DEF Task, TaskShape
<1>9. QED
    BY <1>1, <1>2, <1>4, <1>7, <1>8, InTxKeeps, Zenon

\* A written request: the same, about to evict.
LEMMA Written ==
    ASSUME NEW r \in Reqs, Task(req[r]), NEW nr, NEW nb, NEW saved, Write(r, nr, nb, saved), ArgsOf(req[r].op, "evict", saved, req[r].moved)
    PROVE  \E d : /\ d = req'[r] /\ Task(d) /\ Evicting(d) /\ d.proc = req[r].proc
                  /\ d.op = req[r].op /\ d.args = saved /\ d.moved = req[r].moved
<1>1. PICK o, d : o = req[r] /\ d = req'[r]
    BY Zenon
<1>2. d = [o EXCEPT !.pc = "evict", !.args = saved]
    BY <1>1, Zenon DEF Write
<1>3. TaskShape(o)
    BY <1>1, Zenon DEF Task
<1>4. TaskShape(d) /\ d.op = o.op /\ d.pc = "evict" /\ d.proc = o.proc /\ d.actor = o.actor /\ d.args = saved /\ d.moved = o.moved
    BY <1>2, <1>3, ZenonT(30) DEF TaskShape
<1>5. Task(d)
    BY <1>1, <1>4, Zenon DEF Task
<1>6. Evicting(d)
    BY <1>4, <1>5, ZenonT(30) DEF Task, Evicting, Ops
<1>7. QED
    BY <1>1, <1>4, <1>5, <1>6, Zenon

\* Writing one custom role changes what that role's references look up.
LEMMA RoleWriteStep ==
    ASSUME FreshInv, NEW r \in Reqs, Task(req[r]), ~Evicting(req[r]), req[r].op \in {"save", "delete"},
           NEW id, id # 0, NEW role, NEW saved, saved.id = id, ArgsOf(req[r].op, "evict", saved, req[r].moved),
           Write(r, [roles EXCEPT ![id] = role], bindings, saved)
    PROVE  FreshInv'
<1>1. PICK nr, nb : nr = [roles EXCEPT ![id] = role] /\ nb = bindings
    BY ZenonT(30)
<1>2. Write(r, nr, nb, saved) /\ \A b \in nb : BindingShape(b)
    BY <1>1, Zenon DEF FreshInv, StoreInv
<1>0. r \in Reqs /\ FreshInv /\ Task(req[r]) /\ ~Evicting(req[r]) /\ ArgsOf(req[r].op, "evict", saved, req[r].moved)
    BY Zenon
<1>3. PICK d : /\ d = req'[r] /\ Task(d) /\ Evicting(d) /\ d.proc = req[r].proc
               /\ d.op = req[r].op /\ d.args = saved /\ d.moved = req[r].moved
    BY ONLY <1>0, <1>2, Written, SMTT(20)
<1>4. EvictedRole(d) = id
    BY <1>3, Zenon DEF EvictedRole
<1>5. ASSUME NEW ref, LookupRole(nr, ref) # LookupRole(roles, ref) PROVE ref.id = EvictedRole(d) /\ ref.id # 0
    <2>1. ref.id # id => LookupRole([roles EXCEPT ![id] = role], ref) = LookupRole(roles, ref)
        BY ZenonT(30) DEF LookupRole
    <2>2. QED
        BY <2>1, <1>1, <1>4, <1>5, ZenonT(30)
<1>6. \A s \in Subjects : BindingsFor(nb, s) # BindingsFor(bindings, s) => s \in EvictedSubjects(d)
    BY <1>1, ZenonT(30)
<1>7. QED
    BY ONLY <1>0, <1>2, <1>3, <1>5, <1>6, WriteStep, SMTT(20)

LEMMA SaveRoleWriteStep == ASSUME FreshInv, NEW r \in Reqs, SaveRoleWrite(r) PROVE FreshInv'
<1>1. PICK a : a = req[r].args
    BY Zenon
<1>2. Task(req[r]) /\ ~Evicting(req[r]) /\ req[r].op = "save"
    BY TaskNow, Zenon DEF SaveRoleWrite, Doing, Ops, Evicting
<1>3. a = [id |-> a.id, draft |-> a.draft]
    BY <1>1, <1>2, ZenonT(30) DEF Task, ArgsOf
<1>4. CASE a.id = 0
    <2>1. PICK saved : saved = [a EXCEPT !.id = nextRole]
        BY Zenon
    <2>2. saved = [id |-> nextRole, draft |-> a.draft] /\ saved.id = nextRole /\ saved.draft = a.draft
        BY <2>1, <1>3, Zenon
    <2>3. nextRole \in RoleIds /\ Write(r, [roles EXCEPT ![nextRole] = a.draft], bindings, saved)
        BY <1>1, <1>4, <2>1, Zenon DEF SaveRoleWrite
    <2>4. nextRole # 0
        BY <2>3, AuthzAssumption, Zenon
    <2>5. ArgsOf(req[r].op, "evict", saved, req[r].moved)
        BY <1>2, <2>2, <2>4, Zenon DEF ArgsOf
    <2>6. QED
        BY <1>2, <2>2, <2>3, <2>4, <2>5, RoleWriteStep, Zenon
<1>5. CASE a.id # 0 /\ ~LoadRoleForUpdate(a.id)
    BY <1>1, <1>2, <1>5, RefusedStep, Zenon DEF SaveRoleWrite
<1>6. CASE a.id # 0 /\ LoadRoleForUpdate(a.id)
    <2>1. Write(r, [roles EXCEPT ![a.id] = a.draft], bindings, a)
        BY <1>1, <1>6, Zenon DEF SaveRoleWrite
    <2>2. ArgsOf(req[r].op, "evict", a, req[r].moved)
        BY <1>2, <1>3, <1>6, Zenon DEF ArgsOf
    <2>3. QED
        BY <1>2, <1>6, <2>1, <2>2, RoleWriteStep, Zenon
<1>7. QED
    BY <1>4, <1>5, <1>6, Zenon

LEMMA DeleteRoleWriteStep == ASSUME FreshInv, NEW r \in Reqs, DeleteRoleWrite(r) PROVE FreshInv'
<1>1. PICK a, id : a = req[r].args /\ id = a.id
    BY Zenon
<1>2. Task(req[r]) /\ ~Evicting(req[r]) /\ req[r].op = "delete"
    BY TaskNow, Zenon DEF DeleteRoleWrite, Doing, Ops, Evicting
<1>3. id # 0 /\ ArgsOf(req[r].op, "evict", a, req[r].moved)
    BY <1>1, <1>2, Zenon DEF Task, ArgsOf
<1>4. CASE WriteRefused(r)
    BY <1>2, <1>4, RefusedStep, Zenon
<1>5. CASE Write(r, [roles EXCEPT ![id] = NoRole], bindings, a)
    BY <1>1, <1>2, <1>3, <1>5, RoleWriteStep, ZenonT(30)
<1>6. QED
    BY <1>1, <1>4, <1>5, Zenon DEF DeleteRoleWrite

\* Writing bindings changes those of the subjects the request evicts.
LEMMA BindingWriteStep ==
    ASSUME FreshInv, NEW r \in Reqs, Task(req[r]), ~Evicting(req[r]), NEW nb, NEW saved, Write(r, roles, nb, saved),
           \A b \in nb : BindingShape(b), ArgsOf(req[r].op, "evict", saved, req[r].moved),
           \A d : d.op = req[r].op /\ d.args = saved /\ d.moved = req[r].moved =>
               \A b : (b \in nb) # (b \in bindings) => b.subject \in EvictedSubjects(d)
    PROVE  FreshInv'
<1>1. PICK nr : nr = roles
    BY Zenon
<1>2. Write(r, nr, nb, saved)
    BY <1>1, Zenon
<1>0. r \in Reqs /\ FreshInv /\ Task(req[r]) /\ ~Evicting(req[r]) /\ ArgsOf(req[r].op, "evict", saved, req[r].moved)
    BY Zenon
<1>3. PICK d : /\ d = req'[r] /\ Task(d) /\ Evicting(d) /\ d.proc = req[r].proc
               /\ d.op = req[r].op /\ d.args = saved /\ d.moved = req[r].moved
    BY ONLY <1>0, <1>2, Written, SMTT(20)
<1>4. ASSUME NEW s \in Subjects, s \notin EvictedSubjects(d) PROVE BindingsFor(nb, s) = BindingsFor(bindings, s)
    <2>1. \A b : b.subject = s => (b \in nb <=> b \in bindings)
        BY <1>3, <1>4, ZenonT(30)
    <2>2. QED
        BY <2>1, Zenon DEF BindingsFor
<1>5. \A ref : LookupRole(nr, ref) # LookupRole(roles, ref) => ref.id = EvictedRole(d) /\ ref.id # 0
    BY <1>1, ZenonT(30)
<1>6. \A s \in Subjects : BindingsFor(nb, s) # BindingsFor(bindings, s) => s \in EvictedSubjects(d)
    BY <1>4, ZenonT(30)
<1>7. \A b \in nb : BindingShape(b)
    BY Zenon
<1>8. QED
    BY ONLY <1>0, <1>2, <1>3, <1>5, <1>6, <1>7, WriteStep, SMTT(20)

LEMMA BindWriteStep == ASSUME FreshInv, NEW r \in Reqs, BindWrite(r) PROVE FreshInv'
<1>1. PICK o, b : o = req[r] /\ b = o.args
    BY Zenon
<1>2. Task(o) /\ ~Evicting(o) /\ o.op \in {"bind", "seed"} /\ o.pc = "write"
    BY <1>1, TaskNow, Zenon DEF BindWrite, Ops, Evicting
<1>3. BindingShape(b) /\ ArgsOf(o.op, "evict", b, o.moved)
    BY <1>1, <1>2, Zenon DEF Task, ArgsOf
<1>4. CASE WriteRefused(r)
    BY <1>1, <1>2, <1>4, RefusedStep, Zenon
<1>5. CASE o.op = "seed" /\ req' = [req EXCEPT ![r].pc = "evict"] /\ UNCHANGED <<storeVars, cacheVars, own, ops, byOthers>>
    <2>1. PICK d : d = [o EXCEPT !.pc = "evict"]
        BY Zenon
    <2>2. req' = [req EXCEPT ![r] = d]
        BY <2>1, <1>1, <1>5, Zenon
    <2>3. TaskShape(o)
        BY <1>2, Zenon DEF Task
    <2>4. TaskShape(d) /\ d.op = o.op /\ d.pc = "evict" /\ d.proc = o.proc /\ d.actor = o.actor /\ d.args = o.args /\ d.moved = o.moved
        BY <2>1, <2>3, Zenon DEF TaskShape
    <2>5. Task(d)
        BY <2>4, <1>1, <1>2, <1>3, Zenon DEF Task
    <2>6. UNCHANGED <<roles, bindings, cache, epoch>>
        BY <1>5, Zenon DEF storeVars, cacheVars
    <2>7. QED
        BY <2>2, <2>5, <2>6, <1>1, <1>2, SameEpochs, QuietStep, Zenon DEF FreshInv
<1>6. CASE Write(r, roles, bindings \cup {[b EXCEPT !.id = nextId]}, b)
    <2>1. PICK x, nb : x = [b EXCEPT !.id = nextId] /\ nb = bindings \cup {x}
        BY Zenon
    <2>2. BindingShape(x) /\ x.subject = b.subject
        BY <2>1, <1>3, Zenon DEF BindingShape
    <2>3. \A d : d.op = o.op /\ d.args = b /\ d.moved = o.moved =>
              \A y : (y \in nb) # (y \in bindings) => y.subject \in EvictedSubjects(d)
        <3>1. \A y : (y \in nb) # (y \in bindings) => y = x
            BY <2>1
        <3>2. \A d : d.op = o.op /\ d.args = b => EvictedSubjects(d) = {b.subject}
            BY <1>2, Zenon DEF EvictedSubjects
        <3>3. QED
            BY <3>1, <3>2, <2>2, Zenon
    <2>4. \A y \in nb : BindingShape(y)
        BY <2>1, <2>2, Zenon DEF FreshInv, StoreInv
    <2>5. QED
        BY <2>1, <2>3, <2>4, <1>1, <1>2, <1>3, <1>6, BindingWriteStep, Zenon
<1>7. QED
    BY <1>1, <1>4, <1>5, <1>6, Zenon DEF BindWrite

LEMMA UnbindWriteStep == ASSUME FreshInv, NEW r \in Reqs, UnbindWrite(r) PROVE FreshInv'
<1>1. PICK o, b : o = req[r] /\ b = o.args
    BY Zenon
<1>2. Task(o) /\ ~Evicting(o) /\ o.op = "unbind"
    BY <1>1, TaskNow, Zenon DEF UnbindWrite, Doing, Ops, Evicting
<1>3. BindingShape(b) /\ ArgsOf(o.op, "evict", b, o.moved)
    BY <1>1, <1>2, ZenonT(30) DEF Task, ArgsOf
<1>4. CASE WriteRefused(r)
    BY <1>1, <1>2, <1>4, RefusedStep, Zenon
<1>5. CASE Write(r, roles, bindings \ {b}, b)
    <2>1. PICK nb : nb = bindings \ {b}
        BY Zenon
    <2>2. \A d : d.op = o.op /\ d.args = b /\ d.moved = o.moved =>
              \A y : (y \in nb) # (y \in bindings) => y.subject \in EvictedSubjects(d)
        BY <2>1, <1>2 DEF EvictedSubjects
    <2>3. \A y \in nb : BindingShape(y)
        BY <2>1, Zenon DEF FreshInv, StoreInv
    <2>4. QED
        BY <2>1, <2>2, <2>3, <1>1, <1>2, <1>3, <1>5, BindingWriteStep, Zenon
<1>6. QED
    BY <1>1, <1>4, <1>5, Zenon DEF UnbindWrite

LEMMA ReplaceCommitStep == ASSUME FreshInv, NEW r \in Reqs, ReplaceCommit(r) PROVE FreshInv'
<1>1. PICK o, a, new, nb : o = req[r] /\ a = o.args /\ new = Rebound(o.moved, a.with) /\ nb = (bindings \ o.moved) \cup new
    BY ZenonT(30)
<1>2. Task(o) /\ ~Evicting(o) /\ o.op = "replace"
    BY <1>1, TaskNow, Zenon DEF ReplaceCommit, Doing, Ops, Evicting
<1>3. ArgsOf(o.op, "evict", a, o.moved) /\ \A b \in o.moved : BindingShape(b)
    BY <1>1, <1>2, Zenon DEF Task, ArgsOf
<1>4. \A x \in new : BindingShape(x) /\ \E b \in o.moved : x.subject = b.subject
    <2>1. SUFFICES ASSUME NEW x \in new PROVE BindingShape(x) /\ \E b \in o.moved : x.subject = b.subject
        BY Zenon
    <2>2. PICK b \in o.moved : \E n : x = [b EXCEPT !.role = KeyRef(a.with), !.id = n]
        <3> DEFINE fresh == {b \in o.moved : ~\E y \in bindings : Same([b EXCEPT !.role = KeyRef(a.with)], y)}
                   Nth(b) == nextId + Cardinality({y \in fresh : y.id < b.id})
        <3>1. new = {[b EXCEPT !.role = KeyRef(a.with), !.id = Nth(b)] : b \in fresh}
            BY <1>1, Zenon DEF Rebound
        <3>2. \A b \in fresh : b \in o.moved
            BY Zenon
        <3> HIDE DEF fresh, Nth
        <3>3. PICK b \in fresh : x = [b EXCEPT !.role = KeyRef(a.with), !.id = Nth(b)]
            BY <3>1, <2>1, Zenon
        <3>4. QED
            BY <3>2, <3>3, Zenon
    <2>3. BindingShape(b)
        BY <1>3, Zenon
    <2>4. BindingShape(x) /\ x.subject = b.subject
        BY <2>2, <2>3, ZenonT(30) DEF BindingShape
    <2>5. QED
        BY <2>4, Zenon
<1>5. \A d : d.op = o.op /\ d.args = a /\ d.moved = o.moved =>
          \A y : (y \in nb) # (y \in bindings) => y.subject \in EvictedSubjects(d)
    BY <1>1, <1>2, <1>4, SMTT(20) DEF EvictedSubjects
<1>6. \A y \in nb : BindingShape(y)
    BY <1>1, <1>4, Zenon DEF FreshInv, StoreInv
<1>7. Write(r, roles, nb, a)
    BY <1>1, Zenon DEF ReplaceCommit
<1>8. QED
    BY <1>1, <1>2, <1>3, <1>5, <1>6, <1>7, BindingWriteStep, Zenon

-----------------------------------------------------------------------------
LEMMA InitFresh == AuthzInit => FreshInv
<1> SUFFICES ASSUME AuthzInit PROVE FreshInv
    BY Zenon
<1>1. StoreInv
    <2>1. \A b \in bindings : b \in Bindings
        BY AuthzAssumption, Zenon DEF AuthzInit
    <2>2. \A b \in bindings : BindingShape(b)
        BY <2>1 DEF Bindings, BindingShape
    <2>3. epoch \in [Procs -> Nat]
        BY Zenon DEF AuthzInit
    <2>4. QED
        BY <2>2, <2>3, Zenon DEF StoreInv
<1>2. ReqInv
    BY Zenon DEF AuthzInit, ReqInv
<1>3. Calm(cache)
    <2>1. \A p \in Procs, s \in Subjects : cache[p][s] = NoEntry
        BY Zenon DEF AuthzInit
    <2>2. cache = [p \in Procs |-> [s \in Subjects |-> cache[p][s]]]
        BY Zenon DEF AuthzInit
    <2>3. QED
        BY <2>1, <2>2, NoEntryFresh, Zenon DEF Calm
<1>4. QED
    BY <1>1, <1>2, <1>3, Zenon DEF FreshInv

LEMMA StutterFresh == ASSUME FreshInv, UNCHANGED authzVars PROVE FreshInv'
<1>1. UNCHANGED <<roles, bindings, cache, epoch, req>>
    BY Zenon DEF authzVars
<1>2. StoreInv'
    BY <1>1, Zenon DEF FreshInv, StoreInv
<1>3. ReqInv'
    BY <1>1, ZenonT(30) DEF FreshInv, ReqInv, Load, LoadFresh, Rebinding, Built, Redefining
<1>4. Calm(cache)'
    BY <1>1 DEF FreshInv, Calm, EntryFresh, Rebinding, Built, Redefining
<1>5. QED
    BY <1>2, <1>3, <1>4, Zenon DEF FreshInv

\* The requests that begin, one operation each.
LEMMA FirstSteps ==
    ASSUME FreshInv, NEW r \in Reqs,
           Decide(r) \/ SaveRole(r) \/ DeleteRole(r) \/ Bind(r) \/ Seed(r) \/ Unbind(r) \/ Replace(r)
    PROVE  FreshInv'
<1>0. AdminProcs \subseteq Procs
    BY AuthzAssumption, Zenon
<1>1. CASE Decide(r)
    BY <1>1, GetStep, Zenon DEF Decide
<1>2. CASE SaveRole(r)
    BY <1>0, <1>2, SaveCheckStep, Zenon DEF SaveRole
<1>3. CASE DeleteRole(r)
    BY <1>0, <1>3, DeleteCheckStep, Zenon DEF DeleteRole
<1>4. CASE Bind(r)
    <2>1. PICK p \in AdminProcs, a \in Subjects, s \in Subjects, ref \in Refs, scope \in Scopes :
              BindCheck(r, p, a, EffectiveAt(p, a), [id |-> 0, subject |-> s, role |-> ref, scope |-> scope])
        BY <1>4, Zenon DEF Bind
    <2>2. PICK b, eff : b = [id |-> 0, subject |-> s, role |-> ref, scope |-> scope] /\ eff = EffectiveAt(p, a)
        BY Zenon
    <2>3. BindingShape(b)
        BY <2>1, <2>2, Zenon DEF BindingShape
    <2>4. QED
        BY <1>0, <2>1, <2>2, <2>3, BindCheckStep, Zenon
<1>5. CASE Seed(r)
    BY <1>5, SeedStep, Zenon
<1>6. CASE Unbind(r)
    <2>1. PICK p \in AdminProcs, a \in Subjects, b \in bindings : UnbindCheck(r, p, a, EffectiveAt(p, a), b)
        BY <1>6, Zenon DEF Unbind
    <2>2. BindingShape(b)
        BY <2>1, Zenon DEF FreshInv, StoreInv
    <2>3. QED
        BY <1>0, <2>1, <2>2, UnbindCheckStep, Zenon
<1>7. CASE Replace(r)
    BY <1>0, <1>7, ReplaceCheckStep, Zenon DEF Replace
<1>8. QED
    BY <1>1, <1>2, <1>3, <1>4, <1>5, <1>6, <1>7, Zenon

LEMMA NextFresh == FreshInv /\ [AuthzNext]_authzVars => FreshInv'
<1> SUFFICES ASSUME FreshInv, [AuthzNext]_authzVars PROVE FreshInv'
    BY Zenon
<1>1. CASE UNCHANGED authzVars
    BY <1>1, StutterFresh, Zenon
<1>2. CASE \E p \in Procs, s \in Subjects : Expire(p, s)
    BY <1>2, ExpireStep, Zenon
<1>3. ASSUME NEW r \in Reqs, Free(r) /\ (Decide(r) \/ SaveRole(r) \/ DeleteRole(r) \/ Bind(r) \/ Seed(r) \/ Unbind(r) \/ Replace(r))
      PROVE  FreshInv'
    BY <1>3, FirstSteps, Zenon
<1>4. ASSUME NEW r \in Reqs, LoadBindings(r) \/ LoadRole(r) \/ CachePut(r) \/ LoadFails(r) PROVE FreshInv'
    BY <1>4, LoadBindingsStep, LoadRoleStep, CachePutStep, LoadFailsStep, Zenon
<1>5. ASSUME NEW r \in Reqs, SaveRoleWrite(r) \/ DeleteRoleWrite(r) \/ BindWrite(r) \/ UnbindWrite(r) PROVE FreshInv'
    BY <1>5, SaveRoleWriteStep, DeleteRoleWriteStep, BindWriteStep, UnbindWriteStep, Zenon
<1>6. ASSUME NEW r \in Reqs, OwnCheck(r) \/ EvictAfter(r) \/ ReplaceBind(r) \/ ReplaceUnbind(r) \/ ReplaceCommit(r) PROVE FreshInv'
    BY <1>6, OwnCheckStep, EvictStep, ReplaceBindStep, ReplaceUnbindStep, ReplaceCommitStep, Zenon
<1>7. QED
    BY <1>1, <1>2, <1>3, <1>4, <1>5, <1>6, Zenon DEF AuthzNext

LEMMA FreshIsFresh == FreshInv => CacheFresh
<1> SUFFICES ASSUME FreshInv, NEW p \in Procs, NEW s \in Subjects,
                    cache[p][s] # NoEntry, ~cache[p][s].lag, cache[p][s].eff # AccessNow(s)
             PROVE  \E r \in Reqs : /\ Evicting(req[r]) /\ req[r].proc = p
                                    /\ (s \in EvictedSubjects(req[r]) \/ EvictedRole(req[r]) \in cache[p][s].roleIDs)
    BY Zenon DEF CacheFresh
<1>1. EntryFresh(p, s, cache[p][s])
    BY Zenon DEF FreshInv, Calm
<1>2. Rebinding(p, s) \/ Redefining(p, cache[p][s].roleIDs)
    BY <1>1, Zenon DEF EntryFresh, Built, AccessNow
<1>3. QED
    BY <1>2, Zenon DEF Rebinding, Redefining

\* The cache of access (authz/cache.go) never serves what its own process has
\* changed: an entry equals what the store amounts to (Engine.Effective built
\* anew), unless another process changed it after it was read, it was read inside
\* a replacement's transaction whose snapshot the store had left behind, or a
\* change of this process stands between its commit and the eviction that drops
\* this entry.
THEOREM CacheStaysFresh == AuthzSpec => []CacheFresh
BY InitFresh, NextFresh, FreshIsFresh, PTL DEF AuthzSpec

-----------------------------------------------------------------------------
\* Only a creation, under an id never used, and an update of a role that the
\* locked read finds write a role.
LEMMA NothingRevived ==
    ASSUME AuthzNext, NEW i \in RoleIds, i < nextRole, roles[i] = NoRole
    PROVE  roles'[i] = NoRole
<1>1. ASSUME NEW r \in Reqs, SaveRoleWrite(r) PROVE roles'[i] = NoRole
    <2>1. PICK a : a = req[r].args
        BY Zenon
    <2>2. CASE a.id = 0
        <3>1. nextRole \in RoleIds /\ roles' = [roles EXCEPT ![nextRole] = a.draft]
            BY <1>1, <2>1, <2>2, Zenon DEF SaveRoleWrite, Write
        <3>2. i # nextRole
            BY <3>1, AuthzAssumption
        <3>3. QED
            BY <3>1, <3>2
    <2>3. CASE a.id # 0 /\ roles[a.id] = NoRole
        <3>1. WriteRefused(r)
            BY <1>1, <2>1, <2>3, Zenon DEF SaveRoleWrite, LoadRoleForUpdate
        <3>2. QED
            BY <3>1, Zenon DEF WriteRefused, storeVars
    <2>4. CASE a.id # 0 /\ roles[a.id] # NoRole
        <3>1. roles' = [roles EXCEPT ![a.id] = a.draft]
            BY <1>1, <2>1, <2>4, Zenon DEF SaveRoleWrite, LoadRoleForUpdate, Write
        <3>2. QED
            BY <3>1, <2>4
    <2>5. QED
        BY <2>2, <2>3, <2>4, Zenon
<1>2. ASSUME NEW r \in Reqs, DeleteRoleWrite(r) PROVE roles'[i] = NoRole
    <2>1. CASE WriteRefused(r)
        BY <2>1, Zenon DEF WriteRefused, storeVars
    <2>2. CASE ~WriteRefused(r)
        <3>1. roles' = [roles EXCEPT ![req[r].args.id] = NoRole]
            BY <1>2, <2>2, Zenon DEF DeleteRoleWrite, Write
        <3>2. QED
            BY <3>1
    <2>3. QED
        BY <2>1, <2>2, Zenon
<1>3. ASSUME NEW r \in Reqs, BindWrite(r) \/ UnbindWrite(r) \/ ReplaceCommit(r) PROVE roles'[i] = NoRole
    BY <1>3, ZenonT(30) DEF BindWrite, UnbindWrite, ReplaceCommit, WriteRefused, Write, storeVars
<1>4. ASSUME NEW r \in Reqs, Decide(r) \/ SaveRole(r) \/ DeleteRole(r) \/ Bind(r) \/ Seed(r) \/ Unbind(r) \/ Replace(r) PROVE roles' = roles
    BY <1>4, ZenonT(30) DEF Decide, CacheGet, SaveRole, SaveRoleCheck, DeleteRole, DeleteRoleCheck, Bind, BindCheck, Seed, Unbind, UnbindCheck,
                Replace, ReplaceCheck, Begin, storeVars
<1>5. ASSUME NEW r \in Reqs, LoadBindings(r) \/ LoadRole(r) \/ CachePut(r) \/ LoadFails(r) \/ OwnCheck(r) \/ EvictAfter(r) \/ ReplaceBind(r) \/ ReplaceUnbind(r)
      PROVE  roles' = roles
    BY <1>5, Zenon DEF LoadBindings, LoadRole, CachePut, LoadFails, OwnCheck, EvictAfter, ReplaceBind, ReplaceUnbind, InTxStep, storeVars
<1>6. ASSUME NEW p \in Procs, NEW s \in Subjects, Expire(p, s) PROVE roles' = roles
    BY <1>6, Zenon DEF Expire, storeVars
<1>7. QED
    BY <1>1, <1>2, <1>3, <1>4, <1>5, <1>6, Zenon DEF AuthzNext

\* A deleted custom role never comes back: no save that checked the role before
\* its deletion writes it again (Store.SaveRole's locked read), and ids are not
\* used twice.
THEOREM DeletedRolesStayDeleted == AuthzSpec => DeletedStaysDeleted
<1>1. [AuthzNext]_authzVars => [\A i \in RoleIds : i < nextRole /\ roles[i] = NoRole => roles'[i] = NoRole]_authzVars
    BY NothingRevived, Zenon DEF authzVars
<1>2. QED
    BY <1>1, PTL DEF AuthzSpec, DeletedStaysDeleted
=============================================================================
