----------------------------- MODULE PersonalStores -----------------------------
(* What a person keeps for themselves: preferences (identity/preferences), an *)
(* object patched by read, merge and write, and saved views of lists          *)
(* (savedview), found by name, counted and inserted or replaced in separate   *)
(* statements.  Several requests of several people run at once.               *)
EXTENDS Integers, Sequences, FiniteSets

MP == INSTANCE Handlers

CONSTANTS
    Persons, Lists, ViewNames, ViewStates,
    ViewIds,          \* ids the table hands out, in order
    MaxPerList,       \* views one person keeps of one list
    Patches,          \* what a client sends to be merged
    MaxSize,          \* bound of the merged object, in members
    PersonalRequests, \* requests in flight
    MaxPersonalOps    \* bound: requests that start

VARIABLES
    views,            \* saved_views: id -> {} or {row}
    prefs,            \* account_preferences: person -> {} or {object}
    personals,        \* the requests
    personalOps

psVars == <<views, prefs, personals, personalOps>>

IdlePersonal == [at |-> "idle", user |-> "", list |-> "", name |-> "", state |-> "", id |-> 0, patch |-> {}, read |-> {}]

PersonalInit ==
    /\ views = [i \in ViewIds |-> {}]
    /\ prefs \in [Persons -> {{}, {MP!Garbage}}]
    /\ personals = [r \in PersonalRequests |-> IdlePersonal]
    /\ personalOps = 0

Asks(r, request) ==
    /\ personalOps < MaxPersonalOps
    /\ personals[r].at = "idle"
    /\ personalOps' = personalOps + 1
    /\ personals' = [personals EXCEPT ![r] = request]
    /\ UNCHANGED <<views, prefs>>

Moves(r, at) == personals' = [personals EXCEPT ![r].at = at]
Answers(r) == personals' = [personals EXCEPT ![r] = IdlePersonal]

-------------------------------------------------------------------------------
(* Saved views                                                                *)

Owned(user, list) == {i \in ViewIds : \E v \in views[i] : v.user = user /\ v.list = list}

FindByName(user, list, name) == {i \in Owned(user, list) : \E v \in views[i] : v.name = name}

(* The unique index over person, list and name.                               *)
NameTaken(user, list, name) == FindByName(user, list, name) # {}

NextView == CHOOSE i \in ViewIds : views[i] = {} /\ \A j \in ViewIds : j < i => views[j] # {}

(* store: a view asked for by a person, its state an object.                  *)
store(r, user, list, name, state) ==
    Asks(r, [IdlePersonal EXCEPT !.at = "find", !.user = user, !.list = list, !.name = name, !.state = state])

(* Service.Save: a view of that name is replaced, a new one counted first.    *)
SaveFinds(r) ==
    /\ personals[r].at = "find"
    /\ LET q == personals[r]
           found == FindByName(q.user, q.list, q.name) IN
       IF found = {} THEN Moves(r, "count")
       ELSE personals' = [personals EXCEPT ![r].at = "replace", ![r].id = CHOOSE i \in found : TRUE]
    /\ UNCHANGED <<views, prefs, personalOps>>

SaveCounts(r) ==
    /\ personals[r].at = "count"
    /\ IF Cardinality(Owned(personals[r].user, personals[r].list)) >= MaxPerList THEN Answers(r) ELSE Moves(r, "insert")
    /\ UNCHANGED <<views, prefs, personalOps>>

(* Store.Save of a new view; the index refuses a name inserted meanwhile.     *)
SaveInserts(r) ==
    /\ personals[r].at = "insert"
    /\ \E i \in ViewIds : views[i] = {}
    /\ LET q == personals[r] IN
       IF NameTaken(q.user, q.list, q.name) THEN UNCHANGED views
       ELSE views' = [views EXCEPT ![NextView] = {[user |-> q.user, list |-> q.list, name |-> q.name, state |-> q.state]}]
    /\ Answers(r)
    /\ UNCHANGED <<prefs, personalOps>>

(* Store.Save of a view that was found: nothing when it was deleted meanwhile *)
(* (requireRow answers that it is not there).                                 *)
SaveReplaces(r) ==
    /\ personals[r].at = "replace"
    /\ LET q == personals[r] IN
       views' = [views EXCEPT ![q.id] = {IF v.user = q.user THEN [v EXCEPT !.state = q.state] ELSE v : v \in @}]
    /\ Answers(r)
    /\ UNCHANGED <<prefs, personalOps>>

(* destroy                                                                    *)
destroy(r, user, id) == Asks(r, [IdlePersonal EXCEPT !.at = "delete", !.user = user, !.id = id])

AnyonesMutant(r) ==
    /\ personals[r].at = "delete"
    /\ views' = [views EXCEPT ![personals[r].id] = {}]
    /\ Answers(r)
    /\ UNCHANGED <<prefs, personalOps>>

(* Store.Delete: of the person's own rows only.                               *)
Deletes(r) ==
    /\ personals[r].at = "delete"
    /\ views' = [views EXCEPT ![personals[r].id] = {v \in @ : v.user # personals[r].user}]
    /\ Answers(r)
    /\ UNCHANGED <<prefs, personalOps>>

-------------------------------------------------------------------------------
(* Preferences                                                                *)

Size(object) == Cardinality(DOMAIN object.members)

(* updatePreferences, Service.Update: a patch that is no object, or is too    *)
(* large, is refused before anything is read.                                 *)
updatePreferences(r, user, patch) ==
    /\ MP!isObject(patch) /\ Size(patch) <= MaxSize
    /\ Asks(r, [IdlePersonal EXCEPT !.at = "get", !.user = user, !.patch = {patch}])

PrefsGet(r) ==
    /\ personals[r].at = "get"
    /\ personals' = [personals EXCEPT ![r].at = "set", ![r].read = prefs[personals[r].user]]
    /\ UNCHANGED <<views, prefs, personalOps>>

(* mergeAndCheck: {} when the result is refused; the application's Validate   *)
(* may refuse any.                                                            *)
mergeAndCheck(read, patch) ==
    {o \in MP!Merged(IF read = {} THEN MP!Garbage ELSE CHOOSE o \in read : TRUE, patch) : Size(o) <= MaxSize}

PrefsSet(r) ==
    /\ personals[r].at = "set"
    /\ LET merged == mergeAndCheck(personals[r].read, CHOOSE p \in personals[r].patch : TRUE) IN
       \/ merged # {} /\ prefs' = [prefs EXCEPT ![personals[r].user] = merged]
       \/ UNCHANGED prefs
    /\ Answers(r)
    /\ UNCHANGED <<views, personalOps>>

-------------------------------------------------------------------------------
PersonalNext ==
    \E r \in PersonalRequests :
        \/ \E user \in Persons :
             \/ \E list \in Lists, name \in ViewNames, state \in ViewStates : store(r, user, list, name, state)
             \/ \E id \in ViewIds : destroy(r, user, id)
             \/ \E patch \in Patches : updatePreferences(r, user, patch)
        \/ SaveFinds(r) \/ SaveCounts(r) \/ SaveInserts(r) \/ SaveReplaces(r) \/ Deletes(r)
        \/ PrefsGet(r) \/ PrefsSet(r)

PersonalSpec == PersonalInit /\ [][PersonalNext]_psVars

-------------------------------------------------------------------------------
(* Nobody's views are listed twice under a name, and a person's list stays    *)
(* short: requests that counted before each other's insert may pass the limit *)
(* of Service.Save by one each, and no further.                               *)
ViewsInBounds ==
    \A user \in Persons, list \in Lists :
        /\ \A name \in ViewNames : Cardinality(FindByName(user, list, name)) <= 1
        /\ Cardinality(Owned(user, list)) <= MaxPerList + Cardinality(PersonalRequests) - 1

(* A saved view is made, changed and deleted only by a request of the person  *)
(* it belongs to: every statement is keyed on the person (savedview/core).    *)
OnlyTheirs ==
    [][\A i \in ViewIds : \A v \in views[i] \cup views'[i] :
          views'[i] # views[i] => \E r \in PersonalRequests : personals[r].user = v.user /\ personals'[r] # personals[r]]_psVars

(* What is stored is never garbage made by identity, nor larger than the      *)
(* limit, whichever patches overwrite each other (the limit is of the merged  *)
(* object, not of the patch).                                                 *)
PrefsInBounds == \A user \in Persons : \A o \in prefs[user] : o = MP!Garbage \/ (MP!isObject(o) /\ Size(o) <= MaxSize)

\* A person's views and preferences stay within their limits, each name once, and are
\* changed only by that person's requests (savedview Service.Save, preferences Merge).
PersonalKept == [](ViewsInBounds /\ PrefsInBounds) /\ OnlyTheirs
=============================================================================
