------------------------------ MODULE AuthzRules ------------------------------
(***************************************************************************)
(* The rules of authorization: what the engine decides, what the rows of   *)
(* its store amount to, and who may change them.  There is no state here:  *)
(* module Authz has the stores, the cache and the requests.                *)
(***************************************************************************)
EXTENDS Naturals, Sequences, FiniteSets, TLC

-------------------------------------------------------------------------------
(***************************************************************************)
(* The rules of go-core's authorization engine (package authz): places and *)
(* their chains, what a clause reaches, how a role's grants become         *)
(* clauses, the three questions the engine answers (Require, RequireOn,    *)
(* Access), the WHERE condition made of an access set (authzgorm), and     *)
(* who may save a role or give it (delegation).  There is no state here:   *)
(* module Authz has the stores, the cache and the requests.                *)
(*                                                                         *)
(* A scope is [level, id]; a clause is [perm, scope, chain, qual, attrs];  *)
(* a role is [grants, attrs], grants being a set of [perm, qual].          *)
(***************************************************************************)

CONSTANTS
    Levels,       \* the hierarchy's levels, widest first
    TenantLevel,  \* the level WithTenantLevel named, or ""
    ParentOf,     \* the application's ScopeResolver: place -> the place one level up
    Catalogue,    \* permission -> [system, orgOnly, ownable, unownedIsOwn, requires, feature, attrs]
    Enabled       \* the FeatureResolver: the <<tenant, feature>> pairs that are on

-----------------------------------------------------------------------------
(* hierarchy.go *)

NewHierarchy(levels) ==
    /\ levels # <<>>
    /\ \A i, j \in DOMAIN levels : levels[i] = levels[j] => i = j

WithTenantLevel(level) == \E d \in 2..Len(Levels) : Levels[d] = level

NoScope == [level |-> "", id |-> 0]
Root == [level |-> Levels[1], id |-> 0]
LevelSet == {Levels[i] : i \in DOMAIN Levels}
Depth(level) == CHOOSE d \in DOMAIN Levels : Levels[d] = level
IsRoot(s) == s.level = Levels[1]
Wider(a, b) == Depth(a) < Depth(b)

Check(s) ==
    /\ s.level \in LevelSet
    /\ IF Depth(s.level) = 1 THEN s.id = 0 ELSE s.id > 0

Within(chain, s) == \E i \in DOMAIN chain : chain[i] = s

At(chain, level) == {chain[i] : i \in {j \in DOMAIN chain : chain[j].level = level}}

FindLevel(scopes, level) == SelectSeq(scopes, LAMBDA s : s.level = level)

\* The scope one level above cur: one the caller knows, the root above a known
\* scope, or the resolver's answer, refused when it is of the wrong level.
ChainStep(cur, curKnown, known) ==
    LET want  == Levels[Depth(cur.level) - 1]
        given == FindLevel(known, want)
    IN  CASE given # <<>> -> [scope |-> Head(given), known |-> TRUE]
          [] given = <<>> /\ curKnown /\ want = Levels[1] -> [scope |-> Root, known |-> TRUE]
          [] OTHER ->
               IF cur \in DOMAIN ParentOf /\ ParentOf[cur].level = want /\ Check(ParentOf[cur])
               THEN [scope |-> ParentOf[cur], known |-> FALSE]
               ELSE [scope |-> NoScope, known |-> FALSE]

\* A scope and its ancestors up to the root; <<>> when it cannot be resolved.
Chain(s, known) ==
    IF ~Check(s) \/ \E i \in DOMAIN known : ~Check(known[i])
    THEN <<>>
    ELSE LET top == Depth(s.level)
             up[d \in 1..top] ==
                 IF d = top THEN [scope |-> s, known |-> FALSE]
                 ELSE IF up[d + 1].scope = NoScope THEN up[d + 1]
                 ELSE ChainStep(up[d + 1].scope, up[d + 1].known, known)
         IN  IF up[1].scope = NoScope THEN <<>>
             ELSE [i \in 1..top |-> up[top + 1 - i].scope]

TenantOf(chain) == IF TenantLevel = "" THEN {} ELSE At(chain, TenantLevel)

-----------------------------------------------------------------------------
(* qualifier.go, effective.go *)

QualifierOwn == "own"
QualifierOwnLocation == "own_location"
QualifierAll == "all"
Qualifiers == {QualifierOwn, QualifierOwnLocation, QualifierAll}

Covers(q, other) == q = QualifierAll \/ q = other

AttrsCover(a, b) == \A key \in DOMAIN a : key \in DOMAIN b /\ b[key] \subseteq a[key]

ClauseCovers(a, b) ==
    /\ Within(b.chain, a.scope)
    /\ Covers(a.qual, b.qual)
    /\ AttrsCover(a.attrs, b.attrs)

\* Drops a clause another one covers; of two equal ones the earlier stays.
Prune(clauses) ==
    LET redundant(i) == \E j \in DOMAIN clauses \ {i} :
            /\ ClauseCovers(clauses[j], clauses[i])
            /\ ~(ClauseCovers(clauses[i], clauses[j]) /\ i < j)
    IN  {clauses[i] : i \in {k \in DOMAIN clauses : ~redundant(k)}}

-----------------------------------------------------------------------------
(* role.go, computed.go *)

ResolveComputed(selector) == {[perm |-> p, qual |-> QualifierAll] : p \in selector}
AllExcept(excluded) == DOMAIN Catalogue \ excluded
IsSystem == {p \in DOMAIN Catalogue : Catalogue[p].system}

CheckQualifiers(grants) == \A g \in grants : g.qual \in Qualifiers

Held(grants, p) == {g.qual : g \in {x \in grants : x.perm = p}}

\* Role.Validate: nothing unknown, no qualifier where none is allowed, every
\* requirement granted at least as widely, no duplicate, known attributes.
Validate(role) ==
    /\ CheckQualifiers(role.grants)
    /\ \A g \in role.grants :
         /\ g.perm \in DOMAIN Catalogue
         /\ Catalogue[g.perm].ownable \/ g.qual = QualifierAll
         /\ Cardinality(Held(role.grants, g.perm)) = 1
         /\ \A req \in Catalogue[g.perm].requires :
              /\ Held(role.grants, req) # {}
              /\ Catalogue[g.perm].ownable /\ Catalogue[req].ownable =>
                   \E q \in Held(role.grants, req) : Covers(q, g.qual)
    /\ \A key \in DOMAIN role.attrs :
         /\ \E p \in DOMAIN Catalogue : key \in Catalogue[p].attrs
         /\ role.attrs[key] # {}

-----------------------------------------------------------------------------
(* engine.go *)

AttrsFor(p, attrs) == [key \in DOMAIN attrs \cap Catalogue[p].attrs |-> attrs[key]]

\* The clauses a binding of the role at the scope yields; grants that do not
\* hold up against the catalogue give none.
AddClauses(role, scope, chain) ==
    {[perm |-> g.perm, scope |-> scope, chain |-> chain, qual |-> g.qual,
      attrs |-> AttrsFor(g.perm, role.attrs)] :
        g \in {x \in role.grants :
                 /\ x.perm \in DOMAIN Catalogue
                 /\ x.qual \in Qualifiers
                 /\ Catalogue[x.perm].ownable \/ x.qual = QualifierAll
                 /\ Catalogue[x.perm].orgOnly => IsRoot(scope)}}

Grants(clauses, p) == {c \in clauses : c.perm = p}

(* features.go *)

FeatureOn(p, fallback, chain) ==
    \/ Catalogue[p].feature = ""
    \/ LET tenant == IF TenantOf(chain) = {} THEN fallback
                     ELSE CHOOSE t \in TenantOf(chain) : TRUE
       IN  <<tenant, Catalogue[p].feature>> \in Enabled

-----------------------------------------------------------------------------
(* access.go.  A principal is [kind, id, location]; a record is             *)
(* [scope, ancestors, owner, coOwner, ownerLocation, attrs].                *)

Require(clauses, p) == \E c \in Grants(clauses, p) : FeatureOn(p, c.scope, c.chain)

\* A record of no scope belongs to the whole organization; one at an unknown
\* place lies within nothing.
ResourceChain(rec) == IF rec.scope = NoScope THEN <<Root>> ELSE Chain(rec.scope, rec.ancestors)

MatchOwner(who, p, rec) ==
    /\ who.kind = "user"
    /\ \/ rec.owner = who.id
       \/ rec.coOwner # 0 /\ rec.coOwner = who.id
       \/ Catalogue[p].unownedIsOwn /\ rec.owner = 0

MatchRecord(c, who, p, rec) ==
    /\ \/ c.qual = QualifierAll
       \/ c.qual = QualifierOwnLocation /\ who.location # 0 /\ rec.ownerLocation = who.location
       \/ c.qual = QualifierOwn /\ MatchOwner(who, p, rec)
    /\ \A key \in DOMAIN c.attrs : key \in DOMAIN rec.attrs /\ rec.attrs[key] \in c.attrs[key]

\* The record's own place answers the feature gate when its chain was resolved
\* (a clause below the root, or a gated permission, was met).
RequireOn(clauses, p, who, rec) ==
    LET chain    == ResourceChain(rec)
        needs(c) == ~IsRoot(c.scope) \/ Catalogue[p].feature # ""
        own(c)   == needs(c) /\ rec.scope # NoScope
    IN  \E c \in Grants(clauses, p) :
          /\ needs(c) => Within(chain, c.scope)
          /\ MatchRecord(c, who, p, rec)
          /\ FeatureOn(p, IF own(c) THEN rec.scope ELSE c.scope, IF own(c) THEN chain ELSE c.chain)

\* RequireRecord: a record one may not view does not exist for them.
RequireRecord(clauses, who, rec, view, action) ==
    CASE ~RequireOn(clauses, view, who, rec) -> "not_found"
      [] RequireOn(clauses, view, who, rec) /\ ~RequireOn(clauses, action, who, rec) -> "forbidden"
      [] OTHER -> "passed"

\* The clauses a list is filtered by; order gives prune its tie-break.
Access(clauseSeq, p) ==
    Prune(SelectSeq(clauseSeq, LAMBDA c : c.perm = p /\ FeatureOn(p, c.scope, c.chain)))

Unrestricted(set) == \E c \in set : IsRoot(c.scope) /\ c.qual = QualifierAll /\ c.attrs = <<>>

Rank(q) == CHOOSE n \in 1..3 : <<QualifierOwn, QualifierOwnLocation, QualifierAll>>[n] = q

(* payload.go *)

\* How MyAccess describes one permission: the widest scope and the widest
\* qualifier, which may come from different clauses; {} when every way is gated.
Describe(set) ==
    {[scope |-> c.scope, qual |-> d.qual] :
        c \in {x \in set : \A y \in set : ~Wider(y.scope.level, x.scope.level)},
        d \in {x \in set : \A y \in set : Rank(y.qual) <= Rank(x.qual)}}

MyAccess(clauses) ==
    LET held == {c.perm : c \in clauses}
    IN  [permissions |-> {p \in held : Require(clauses, p)}, unavailable |-> {p \in held : ~Require(clauses, p)}]

(* effective.go: Tenants, Tenant; authzhttp/middleware.go: PinTenant *)

Tenants(clauses) == UNION {TenantOf(c.chain) : c \in {x \in clauses : ~IsRoot(x.scope)}}
HasRoot(clauses) == \E c \in clauses : IsRoot(c.scope)
Unpinned(clauses) == \E c \in clauses : ~IsRoot(c.scope) /\ TenantOf(c.chain) = {}

PinTenant(clauses) ==
    CASE HasRoot(clauses) -> [all |-> TRUE, tenant |-> {}]
      [] ~HasRoot(clauses) /\ ~Unpinned(clauses) /\ Cardinality(Tenants(clauses)) = 1 ->
           [all |-> FALSE, tenant |-> Tenants(clauses)]
      [] OTHER -> [all |-> FALSE, tenant |-> {}]

\* RequireAny: the first permission held passes; a failure other than "not
\* granted" (an unknown permission) ends the search with that failure.
RequireAny(clauses, perms) ==
    LET outcome(i) == IF perms[i] \notin DOMAIN Catalogue THEN "error"
                      ELSE IF Require(clauses, perms[i]) THEN "passed" ELSE "forbidden"
        decided == {i \in DOMAIN perms : outcome(i) # "forbidden"}
    IN  IF decided = {} THEN "forbidden"
        ELSE outcome(CHOOSE i \in decided : \A j \in decided : i <= j)

-----------------------------------------------------------------------------
(* authzgorm/filter.go.  cols says what the table can express:              *)
(* [levels (a set), owner, ownerLocation (BOOLEAN), attrs (a set)]; a row is *)
(* [ids (level -> id, 0 for none), owner, location, attrs].                  *)

\* What one clause asks of a row; {} when the table cannot express it.
ClauseSQL(unownedIsOwn, c, who, cols) ==
    LET pins == {c.chain[i] : i \in {j \in DOMAIN c.chain : c.chain[j].id # 0 /\ c.chain[j].level \in cols.levels}}
        expressible ==
            /\ c.scope.id # 0 => pins # {}
            /\ \/ c.qual = QualifierAll
               \/ c.qual = QualifierOwnLocation /\ who.location # 0 /\ cols.ownerLocation
               \/ c.qual = QualifierOwn /\ who.kind = "user" /\ cols.owner
            /\ \A key \in DOMAIN c.attrs : key \in cols.attrs /\ c.attrs[key] # {}
    IN  IF ~expressible THEN {}
        ELSE {[pins     |-> IF c.scope.id = 0 THEN {} ELSE pins,
               location |-> IF c.qual = QualifierOwnLocation THEN {who.location} ELSE {},
               owners   |-> IF c.qual # QualifierOwn THEN {}
                            ELSE IF unownedIsOwn THEN {who.id, 0} ELSE {who.id},
               attrs    |-> c.attrs]}

Build(unownedIsOwn, set, who, cols) == UNION {ClauseSQL(unownedIsOwn, c, who, cols) : c \in set}

\* The rows a query with the condition returns.
Selects(condition, row) ==
    \E k \in condition :
      /\ \A s \in k.pins : row.ids[s.level] = s.id
      /\ k.location # {} => row.location \in k.location
      /\ k.owners # {} => row.owner \in k.owners
      /\ \A key \in DOMAIN k.attrs : row.attrs[key] \in k.attrs[key]

-----------------------------------------------------------------------------
(* delegation.go *)


HoldsAll(clauses, role) ==
    \A g \in role.grants :
      \E c \in Grants(clauses, g.perm) :
        Covers(c.qual, g.qual) /\ AttrsCover(c.attrs, AttrsFor(g.perm, role.attrs))

CanSaveRole(clauses, role) == Validate(role) /\ HoldsAll(clauses, role)

HoldsWithin(clauses, p, chain) == \E c \in Grants(clauses, p) : Within(chain, c.scope)

CanBind(clauses, role, scope, manageBindings) ==
    LET chain == Chain(scope, <<>>)
    IN  /\ Validate(role)
        /\ chain # <<>>
        /\ \A g \in role.grants : Catalogue[g.perm].orgOnly => IsRoot(scope)
        /\ HoldsWithin(clauses, manageBindings, chain)
        /\ \A g \in role.grants :
             /\ Catalogue[g.perm].system => HoldsWithin(clauses, g.perm, chain)
             /\ Catalogue[g.perm].orgOnly => HoldsWithin(clauses, manageBindings, <<Root>>)

\* keepsAccess: every protected permission held now is still held after.
KeepsAccess(before, after, protected) ==
    \A p \in protected : Grants(before, p) # {} => Grants(after, p) # {}

-------------------------------------------------------------------------------
(***************************************************************************)
(* What the rows of the authorization store amount to (authz/engine.go),   *)
(* the rules a binding is given and taken under (authz/admin.go), and what *)
(* the administration pages show of roles and bindings (access/admin).     *)
(* Every operator takes the custom roles (store) and the bindings (set) as *)
(* they were read; eff is the acting subject's access.                     *)
(***************************************************************************)

CONSTANTS
    Subjects,     \* who may hold roles: [kind, id]
    Known,        \* the subjects the directory knows and the actor reaches
    Scopes,       \* the places bindings are offered at
    OutOfBounds,  \* <<subject, scope>> pairs the application's BindingCheck refuses
    RoleIds,      \* ids of custom roles
    Predefined,   \* key -> role defined in code
    Computed,     \* the keys of computed roles
    ManageRoles, DeleteRoles, ViewRoles, ViewAccess, ManageBindings,    \* permission ids
    ViewServiceAccountAccess, ManageServiceAccountBindings

NoRole == [grants |-> {[perm |-> "", qual |-> ""]}, attrs |-> <<>>]

KeyRef(k) == [id |-> 0, key |-> k]
IdRef(i) == [id |-> i, key |-> ""]
ValidRef(ref) == (ref.id > 0) # (ref.key # "")
Refs == {KeyRef(k) : k \in DOMAIN Predefined} \cup {IdRef(i) : i \in RoleIds}

\* lookupRole: a predefined role from code, a custom one from the store.
LookupRole(store, ref) ==
    IF ref.key # ""
    THEN IF ref.key \in DOMAIN Predefined THEN Predefined[ref.key] ELSE NoRole
    ELSE IF ref.id \in DOMAIN store THEN store[ref.id] ELSE NoRole

BindingsFor(set, s) == {b \in set : b.subject = s}
BindingsForRole(set, id) == {b \in set : b.role = IdRef(id)}

\* The places bindings name, resolved.
ChainOf == [scope \in Scopes |-> Chain(scope, <<>>)]

\* One binding's contribution to build: nothing when its reference is
\* malformed, its role is gone or its scope cannot be resolved.
Clauses(b, role) ==
    LET chain == ChainOf[b.scope]
    IN  IF ~ValidRef(b.role) \/ role = NoRole \/ chain = <<>> THEN {}
        ELSE AddClauses(role, b.scope, chain)

BuildOne(store, b) == Clauses(b, LookupRole(store, b.role))
BuildAll(store, set) == UNION {BuildOne(store, b) : b \in set}

RoleIDsOf(set) == {b.role.id : b \in {x \in set : ValidRef(x.role)}} \ {0}

-----------------------------------------------------------------------------
(* Giving and taking a binding. *)

\* gateOf: a person's access and a service account's are guarded apart.
GateExists(kind) == kind = "user" \/ (kind = "service" /\ ManageServiceAccountBindings \in DOMAIN Catalogue)
GateOf(kind) == IF kind = "user" THEN ManageBindings ELSE ManageServiceAccountBindings
ProtectedOf(kind) == IF kind = "user" THEN {ManageBindings} ELSE {}

ViewGateOf(kind) == IF kind = "user" THEN ViewAccess ELSE ViewServiceAccountAccess

\* The application's rule on who may be bound where.
BindingCheck(subject, scope) == <<subject, scope>> \notin OutOfBounds

At0(scope) == [scope |-> scope, ancestors |-> <<>>, owner |-> 0, coOwner |-> 0, ownerLocation |-> 0, attrs |-> <<>>]
Principal(s) == [kind |-> s.kind, id |-> s.id, location |-> 0]

\* Admin.Bind's rules, asked of the access eff.
MayBind(store, eff, a, b, gate) ==
    /\ ValidRef(b.role) /\ Check(b.scope)
    /\ b.subject # a
    /\ RequireOn(eff, gate, Principal(a), At0(b.scope))
    /\ LookupRole(store, b.role) # NoRole
    /\ CanBind(eff, LookupRole(store, b.role), b.scope, gate)

\* Admin.Unbind's rules: those of the binding's creation, a vanished role
\* excepted.
MayUnbind(store, eff, a, b, gate) ==
    /\ RequireOn(eff, gate, Principal(a), At0(b.scope))
    /\ LookupRole(store, b.role) # NoRole =>
         CanBind(eff, LookupRole(store, b.role), b.scope, gate)

\* Bindings.Bind in full, for the reader of a page that offered it.
Accepts(store, eff, a, b) ==
    /\ GateExists(b.subject.kind)
    /\ Require(eff, GateOf(b.subject.kind))
    /\ b.subject \in Known
    /\ BindingCheck(b.subject, b.scope)
    /\ MayBind(store, eff, a, b, GateOf(b.subject.kind))

-----------------------------------------------------------------------------
(* access/admin: what the pages show.  A refused page is {}. *)

HoldersOf(set, ref) == IF ValidRef(ref) THEN {b \in set : b.role = ref} ELSE {}
HolderCount(set, ref) == Cardinality({b.subject : b \in HoldersOf(set, ref)})

AllRefs(store) == {KeyRef(k) : k \in DOMAIN Predefined} \cup {IdRef(i) : i \in {x \in DOMAIN store : store[x] # NoRole}}

ViewOf(store, set, ref) ==
    [ref |-> ref, predefined |-> ref.key # "", computed |-> ref.key \in Computed,
     holders |-> HolderCount(set, ref), grants |-> LookupRole(store, ref).grants]

\* roleOf: a binding whose role is gone is still shown, by its reference.
RoleOf(store, set, ref) ==
    IF LookupRole(store, ref) # NoRole THEN ViewOf(store, set, ref)
    ELSE [ref |-> ref, predefined |-> ref.key # "", computed |-> FALSE, holders |-> HolderCount(set, ref), grants |-> {}]

List(store, set, eff) == IF Require(eff, ViewRoles) THEN {ViewOf(store, set, ref) : ref \in AllRefs(store)} ELSE {}

Show(store, set, eff, ref) == {v \in List(store, set, eff) : v.ref = ref}

Holders(store, set, eff, ref) ==
    IF Require(eff, ViewRoles) /\ LookupRole(store, ref) # NoRole
    THEN {[subject |-> b.subject, place |-> b.scope] : b \in HoldersOf(set, ref)} ELSE {}

\* compare: by permission, each side's last qualifier for it.
Compare(role, other) ==
    LET perms(g) == {x.perm : x \in g}
    IN  [onlyInRole  |-> {g \in role : g.perm \notin perms(other)},
         onlyInOther |-> {g \in other : g.perm \notin perms(role)},
         different   |-> {p \in perms(role) \cap perms(other) : Held(role, p) # Held(other, p)}]

\* Bindings.Mine and describe: the subject's own bindings, by role and place.
Mine(store, set, s) ==
    {[id |-> b.id, role |-> RoleOf(store, set, b.role), place |-> b.scope] : b \in BindingsFor(set, s)}

\* Bindings.Access: the bindings, each held permission with the ways it is held,
\* and whether a feature switches it off.
SubjectAccess(store, set, eff, actor, s) ==
    IF ~(GateExists(s.kind) /\ Require(eff, ViewGateOf(s.kind)) /\ s \in Known) THEN {}
    ELSE LET held == BuildAll(store, BindingsFor(set, s))
         IN  {[bindings    |-> Mine(store, set, s),
               permissions |-> {[perm |-> c.perm, scope |-> c.scope, qual |-> c.qual] : c \in held},
               unavailable |-> MyAccess(held).unavailable,
               canManage   |-> actor # s /\ Require(eff, GateOf(s.kind))]}

\* Bindings.Scopes: the places of a page that gives roles.
ScopeOptions(eff, s) ==
    IF ~(GateExists(s.kind) /\ Require(eff, GateOf(s.kind)) /\ s \in Known) THEN {}
    ELSE {scope \in Scopes :
            /\ ChainOf[scope] # <<>>
            /\ \E c \in Grants(eff, GateOf(s.kind)) : Within(ChainOf[scope], c.scope)
            /\ BindingCheck(s, scope)}

\* BindableRolesFor, with requirePlace before it.
BindableRoles(store, eff, kind, scope) ==
    IF ~(GateExists(kind) /\ Check(scope) /\ (IsRoot(scope) \/ scope \in Scopes)) THEN {}
    ELSE {ref \in AllRefs(store) : CanBind(eff, LookupRole(store, ref), scope, GateOf(kind))}

\* authz HoldersOf: everybody a role granting the permission is bound to, at any
\* scope.
SubjectsHolding(store, set, p) ==
    UNION {{b.subject : b \in HoldersOf(set, ref)} :
             ref \in {x \in AllRefs(store) : Held(LookupRole(store, x).grants, p) # {}}}

-----------------------------------------------------------------------------
(* access.Install *)

\* access.define: the permissions the module adds where the application did not.
ModuleCatalogue(robots) ==
    LET plain     == [system |-> FALSE, orgOnly |-> FALSE, ownable |-> FALSE, unownedIsOwn |-> FALSE,
                      requires |-> {}, feature |-> "", attrs |-> {}]
        after(ps) == [plain EXCEPT !.requires = ps]
        people    == [p \in {ViewRoles, ViewAccess} |-> plain]
                     @@ [p \in {ManageRoles, DeleteRoles} |-> after({ViewRoles})]
                     @@ [p \in {ManageBindings} |-> after({ViewAccess})]
        service   == [p \in {ViewServiceAccountAccess} |-> plain]
                     @@ [p \in {ManageServiceAccountBindings} |->
                           [after({ViewServiceAccountAccess}) EXCEPT !.orgOnly = TRUE]]
    IN  IF robots THEN people @@ service ELSE people

Installed(application, robots) == application @@ ModuleCatalogue(robots)

\* NewEngine: the configuration complete, a sound catalogue, features only with
\* a resolver for them, and roles that hold up against the catalogue.
NewEngine(has, sound, cat, keyed) ==
    /\ {"catalogue", "hierarchy", "store", "resolver"} \subseteq has
    /\ (\E p \in DOMAIN cat : cat[p].feature # "") => "features" \in has
    /\ sound
    /\ \A i \in DOMAIN keyed :
         /\ keyed[i].key # ""
         /\ \A j \in DOMAIN keyed : keyed[i].key = keyed[j].key => i = j
         /\ Validate(keyed[i].role)
===============================================================================
