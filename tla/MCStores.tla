------------------------------ MODULE MCStores ------------------------------
(***************************************************************************)
(* Stores that several requests change at once: roles and bindings with    *)
(* the cache of what they amount to, the incident log, and the trees of    *)
(* characteristics with their snapshot.  None of them touches another's    *)
(* state, so a behaviour is a behaviour of one of them: `scene` names it   *)
(* and the others stay in their initial state.                             *)
(***************************************************************************)
EXTENDS Authz, Incident, Characteristics, TLC

VARIABLE scene

\* Two levels, one dealer and two people; process p1 takes the administration, p2 only
\* decides.
Perm(system, orgOnly) ==
    [system |-> system, orgOnly |-> orgOnly, ownable |-> FALSE, unownedIsOwn |-> FALSE,
     requires |-> {}, feature |-> "", attrs |-> {}]

MCLevels == <<"organization", "dealer">>
MCCatalogue == [p \in {"roles", "bindings", "service", "sale", "tenants"} |-> Perm(p = "tenants", p = "tenants")]

Dealer == [level |-> "dealer", id |-> 1]
Organization == [level |-> "organization", id |-> 0]
MCParentOf == [s \in {Dealer} |-> Organization]
MCScopes == {Organization, Dealer}

Of(perms) == [grants |-> {[perm |-> p, qual |-> "all"] : p \in perms}, attrs |-> <<>>]
MCPredefined ==
    [key \in {"manager", "owner"} |-> Of(IF key = "owner" THEN {"bindings", "tenants"} ELSE {"roles", "bindings", "sale"})]
MCDrafts == {Of({"sale"}), Of({"sale", "tenants"})}

User(n) == [kind |-> "user", id |-> n]
MCSubjects == {User(1), User(2)}
Holds(id, s, ref, scope) == [id |-> id, subject |-> s, role |-> ref, scope |-> scope]
MCStartRoles == [i \in RoleIds |-> IF i = 1 THEN Of({"bindings", "sale"}) ELSE NoRole]
MCStartBindings ==
    {Holds(1, User(1), KeyRef("manager"), Organization), Holds(2, User(1), KeyRef("manager"), Dealer)}
MCSeedBindings == {Holds(0, User(2), KeyRef("manager"), Organization)}

\* The changes a member of staff makes to an incident.
NoChange == [status |-> "", severity |-> "", visibility |-> "", assigned |-> {},
             duplicateOf |-> {}, provider |-> "", ref |-> ""]
MCUpdates ==
    {[NoChange EXCEPT !.status = "resolved", !.provider = "none", !.severity = "low", !.assigned = {Nil}],
     [NoChange EXCEPT !.status = "triaged", !.visibility = "staff_only", !.assigned = {9}]}

\* The two requests in progress are alike in every scene.
Symmetry == Permutations(Reqs)

StoresInit ==
    /\ scene \in {"authz", "incident", "characteristics"}
    /\ AuthzInit /\ IncInit /\ CharInit
    /\ scene # "characteristics" => DOMAIN items = {1, 2}

AuthzStep == scene = "authz" /\ AuthzNext /\ UNCHANGED <<scene, incVars, chVars>>
IncidentStep == scene = "incident" /\ IncNext /\ UNCHANGED <<scene, authzVars, chVars>>
CharacteristicStep == scene = "characteristics" /\ CharNext /\ UNCHANGED <<scene, authzVars, incVars>>

StoresNext == AuthzStep \/ IncidentStep \/ CharacteristicStep
StoresSpec == StoresInit /\ [][StoresNext]_<<scene, authzVars, incVars, chVars>>

-----------------------------------------------------------------------------
\* Nobody removes their own last way to manage access, obtains a system permission through
\* roles and bindings, or brings a deleted role back, by several requests at once
\* (Admin.ownLock, keepsAccess, CanSaveRole, CanBind, replaceRole).
AccessKept == [](scene = "authz" => OwnAccessKept /\ NoSystemGrant) /\ DeletedStaysDeleted
=============================================================================
