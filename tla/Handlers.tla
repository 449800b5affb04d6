------------------------------- MODULE Handlers -------------------------------
(***************************************************************************)
(* The HTTP surface of the shipped modules: the routes they declare, what  *)
(* their handlers check and call, and how a part of a person's preferences *)
(* is merged into what is stored.                                          *)
(***************************************************************************)
EXTENDS Integers, Sequences, SequencesExt, FiniteSets, FiniteSetsExt, RouteRules, TLC

-------------------------------------------------------------------------------
(***************************************************************************)
(* What the handlers of the shipped modules have in common.  A handler is  *)
(* a list of checks, of which the first that refuses is the answer, and    *)
(* the calls it then makes of its service.  A call names the operation,    *)
(* whom or what it is about, and who it is made as.                        *)
(* A caller is [kind, id, session, token]; id is the account's, or the     *)
(* service account's, and the two number their rows independently.         *)
(***************************************************************************)

L(n) == Literal(n)
P(n) == Param(n)
None == NoInput
Get(name, at, in) == declare(name, "GET", at, in)
Post(name, at, in) == declare(name, "POST", at, in)
Put(name, at, in) == declare(name, "PUT", at, in)
Patch(name, at, in) == declare(name, "PATCH", at, in)
Delete(name, at, in) == declare(name, "DELETE", at, in)
V1(segments) == <<L("v1")>> \o segments

\* A call as, on: [kind, id], kind "person", "service" or "record".
Person(id) == [kind |-> "person", id |-> id]
Service(id) == [kind |-> "service", id |-> id]
Record(id) == [kind |-> "record", id |-> id]
NoOne == [kind |-> "nobody", id |-> 0]
Call(op, on, as) == [op |-> op, on |-> on, as |-> as, keep |-> {}]
Keeping(call, token) == [call EXCEPT !.keep = {token}]

Pass == {}
Refuse(reason) == {reason}
When(bad, reason) == IF bad THEN Refuse(reason) ELSE Pass
Answer(checks, calls) ==
  LET bad == {i \in DOMAIN checks : checks[i] # Pass}
  IN IF bad = {} THEN [refused |-> {}, calls |-> calls] ELSE [refused |-> checks[Min(bad)], calls |-> <<>>]

\* PositiveID (400) and PositivePathInt (422) of package web.
PositiveID(id) == When(id <= 0, "400")
PositivePathInt(id) == When(id <= 0, "422")
\* person of the inbox and the saved views: any principal, then a person.
inboxPerson(c) == IF c.kind = "nobody" THEN Refuse("401") ELSE When(c.kind # "person", "403")

-------------------------------------------------------------------------------
(***************************************************************************)
(* identity/http: the routes of sign-in, profile and users administration, *)
(* and their handlers.                                                     *)
(* h is the application's Handler: admin and preferences say whether they  *)
(* are installed, reach which people the caller may reach with which       *)
(* permission.                                                             *)
(* in is the bound input: id and session from the path, wide when a value  *)
(* is wider than the store keeps, and the few facts a handler looks at.    *)
(***************************************************************************)

-----------------------------------------------------------------------------
(* The inputs: the path fields of each.                                     *)

sessionInput == Struct({})
UserInput == Struct({"id"})
UserSessionInput == Struct({"id", "session_id"})
ListUsersInput == Struct({})
SignInsInput == Struct({"id"})
ChangesInput == Struct({"id"})
ActivityInput == Struct({"id"})
CreateUserInput == Struct({})
UpdateUserInput == Struct({"id"})
DeactivateUserInput == Struct({"id"})
SetPasswordInput == Struct({"id"})
OwnSignInsInput == Struct({})
OwnSessionInput == Struct({"session_id"})
ownInput == Struct({})

Users == [view |-> "iam.user:view", manage |-> "iam.user:manage", activity |-> "iam.user.activity:view"]
base == V1(<<L("auth")>>)
usersBase == V1(<<L("iam"), L("users")>>)
profileBase == V1(<<L("iam"), L("profile")>>)
aUser == usersBase \o <<P("id")>>

sessionRoutes ==
  {Public(Post("identity.login", base \o <<L("login")>>, sessionInput)),
   Public(Post("identity.refresh", base \o <<L("refresh")>>, sessionInput)),
   PersonOnly(Post("identity.logout", base \o <<L("logout")>>, None)),
   PersonOnly(Get("identity.me", base \o <<L("me")>>, None)),
   PersonOnly(Post("identity.change-locale", base \o <<L("change-locale")>>, sessionInput)),
   PersonOnly(Put("identity.preferences.update", base \o <<L("preferences")>>, sessionInput)),
   PersonOnly(Post("identity.login-as", base \o <<L("login-as")>>, sessionInput)),
   PersonOnly(Post("identity.login-as.return", base \o <<L("login-as"), L("return")>>, None))}

usersRoutes ==
  {Requires(Get("identity.users.list", usersBase, ListUsersInput), Users.view),
   Requires(Get("identity.users.show", aUser, UserInput), Users.view),
   Requires(Post("identity.users.create", usersBase, CreateUserInput), Users.manage),
   Requires(Put("identity.users.update", aUser, UpdateUserInput), Users.manage),
   Requires(Put("identity.users.set-password", aUser \o <<L("password")>>, SetPasswordInput), Users.manage),
   Requires(Post("identity.users.deactivate", aUser \o <<L("deactivate")>>, DeactivateUserInput), Users.manage),
   Requires(Post("identity.users.activate", aUser \o <<L("activate")>>, UserInput), Users.manage),
   Requires(Post("identity.users.unlock", aUser \o <<L("unlock")>>, UserInput), Users.manage),
   Requires(Get("identity.users.signins", aUser \o <<L("signins")>>, SignInsInput), Users.view),
   Requires(Get("identity.users.changes", aUser \o <<L("changes")>>, ChangesInput), Users.view),
   Requires(Get("identity.users.activity", aUser \o <<L("activity")>>, ActivityInput), Users.activity),
   Requires(Get("identity.users.sessions", aUser \o <<L("sessions")>>, UserInput), Users.view),
   Requires(Delete("identity.users.revoke-session", aUser \o <<L("sessions"), P("session_id")>>, UserSessionInput), Users.manage),
   Requires(Delete("identity.users.revoke-sessions", aUser \o <<L("sessions")>>, UserInput), Users.manage)}

profileRoutes ==
  {PersonOnly(Get("identity.profile.show", profileBase, None)),
   PersonOnly(Put("identity.profile.update", profileBase, ownInput)),
   PersonOnly(Put("identity.profile.change-password", profileBase \o <<L("password")>>, ownInput)),
   PersonOnly(Post("identity.profile.request-email", profileBase \o <<L("email")>>, ownInput)),
   PersonOnly(Post("identity.profile.resend-email", profileBase \o <<L("email"), L("resend")>>, None)),
   PersonOnly(Post("identity.profile.confirm-email", profileBase \o <<L("email"), L("confirm")>>, ownInput)),
   PersonOnly(Delete("identity.profile.cancel-email", profileBase \o <<L("email")>>, None)),
   PersonOnly(Get("identity.profile.signins", profileBase \o <<L("signins")>>, OwnSignInsInput)),
   PersonOnly(Get("identity.profile.sessions", profileBase \o <<L("sessions")>>, None)),
   PersonOnly(Delete("identity.profile.revoke-session", profileBase \o <<L("sessions"), P("session_id")>>, OwnSessionInput))}

identityRoutes == {InGroup(s, "identity") : s \in sessionRoutes \cup usersRoutes \cup profileRoutes}

-----------------------------------------------------------------------------
(* The handlers.                                                            *)

actor(c) == When(c.kind # "person", "401")
\* Asked with the permission of the route that is served.
reach(h, route, id) ==
  When(id \notin h.reach[(CHOOSE r \in usersRoutes : r.id = route).permission], "404 account")
fit(in) == When(in.wide, "422 max")
fitAccount(in) == fit(in)
own(op, c) == Call(op, Person(c.id), Person(c.id))
about(op, c, id) == Call(op, Person(id), Person(c.id))
\* A page's rows name people: one lookup.
people == Call("users.Names", NoOne, NoOne)

login(h, c, in) == Answer(<<>>, <<Call("signIn.Login", NoOne, NoOne)>>)
\* refresh: the token of the body, else of the cookie.
refresh(h, c, in) == Answer(<<When(in.body = {} /\ in.cookie = {}, "401")>>, <<Call("signIn.Refresh", NoOne, NoOne)>>)
logout(h, c, in) == Answer(<<>>, <<Keeping(Call("signIn.Logout", NoOne, NoOne), c.token)>>)
me(h, c, in) == Answer(<<actor(c)>>, <<own("payload", c)>>)
changeLocale(h, c, in) == Answer(<<actor(c)>>, <<own("users.ChangeLocale", c)>>)
loginAs(h, c, in) == Answer(<<actor(c)>>, <<about("signIn.LoginAs", c, in.id)>>)
returnToOwn(h, c, in) == Answer(<<actor(c)>>, <<own("signIn.Return", c)>>)
updatePreferences(h, c, in) == Answer(<<actor(c)>>, <<own("preferences.Update", c)>>)

listUsers(h, c, in) == Answer(<<When(in.dir \notin {"", "asc", "desc"}, "422 dir")>>, <<Call("admin.List", NoOne, NoOne)>>)
detail(in) == Call("admin.Get", Person(in.id), NoOne)
showUser(h, c, in) == Answer(<<reach(h, "identity.users.show", in.id)>>, <<detail(in)>>)
createUser(h, c, in) == Answer(<<actor(c), fitAccount(in)>>, <<Call("admin.CreateWithExt", NoOne, Person(c.id))>>)
updateUser(h, c, in) == Answer(<<reach(h, "identity.users.update", in.id), actor(c), fitAccount(in)>>, <<about("admin.Update", c, in.id), detail(in)>>)
LosesOwnMutant(h, c, in) == Answer(<<reach(h, "identity.users.set-password", in.id), actor(c)>>, <<about("admin.SetPassword", c, in.id)>>)
setUserPassword(h, c, in) ==
  LET set == about("admin.SetPassword", c, in.id)
  IN Answer(<<reach(h, "identity.users.set-password", in.id), actor(c)>>, <<IF in.id = c.id THEN Keeping(set, c.token) ELSE set>>)
deactivateUser(h, c, in) == Answer(<<reach(h, "identity.users.deactivate", in.id), actor(c)>>, <<about("admin.DeactivateWithExt", c, in.id)>>)
activateUser(h, c, in) == Answer(<<reach(h, "identity.users.activate", in.id), actor(c)>>, <<about("admin.Activate", c, in.id)>>)
unlockUser(h, c, in) == Answer(<<reach(h, "identity.users.unlock", in.id), actor(c)>>, <<about("admin.Unlock", c, in.id)>>)
looking(op, in) == Call(op, Person(in.id), NoOne)
userSignIns(h, c, in) == Answer(<<reach(h, "identity.users.signins", in.id)>>, <<looking("admin.SignIns", in), people>>)
userChanges(h, c, in) == Answer(<<reach(h, "identity.users.changes", in.id)>>, <<looking("admin.Changes", in), people>>)
dayOf(day) == When(day = "malformed", "422 day")
userActivity(h, c, in) ==
  Answer(<<reach(h, "identity.users.activity", in.id), dayOf(in.from), dayOf(in.to)>>,
         <<looking("admin.Activity", in), looking("admin.ActivityCounts", in), people>>)
userSessions(h, c, in) == Answer(<<reach(h, "identity.users.sessions", in.id)>>, <<looking("admin.Sessions", in), people>>)
revokeUserSession(h, c, in) == Answer(<<reach(h, "identity.users.revoke-session", in.id), actor(c)>>, <<about("admin.RevokeSession", c, in.id)>>)
revokeUserSessions(h, c, in) == Answer(<<reach(h, "identity.users.revoke-sessions", in.id), actor(c)>>, <<about("admin.RevokeSessions", c, in.id)>>)

showProfile(h, c, in) == Answer(<<actor(c)>>, <<own("profile.Get", c)>>)
updateProfile(h, c, in) == Answer(<<actor(c), fit(in)>>, <<own("profile.UpdateDetails", c)>>)
changeOwnPassword(h, c, in) == Answer(<<actor(c)>>, <<Keeping(own("profile.ChangePassword", c), c.token)>>)
requestEmailChange(h, c, in) == Answer(<<actor(c), fit(in)>>, <<own("profile.RequestEmailChange", c)>>)
resendEmailCode(h, c, in) == Answer(<<actor(c)>>, <<own("profile.ResendEmailChange", c)>>)
confirmEmailChange(h, c, in) == Answer(<<actor(c)>>, <<own("profile.ConfirmEmailChange", c)>>)
cancelEmailChange(h, c, in) == Answer(<<actor(c)>>, <<own("profile.CancelEmailChange", c)>>)
ownSignIns(h, c, in) == Answer(<<actor(c)>>, <<own("profile.SignIns", c), people>>)
ownSessions(h, c, in) == Answer(<<actor(c)>>, <<own("profile.Sessions", c), people>>)
revokeOwnSession(h, c, in) == Answer(<<actor(c)>>, <<own("profile.RevokeSession", c)>>)

\* Handler.Routes: what each route is bound to; the users administration and
\* the preferences are left out, and excused, when they are not installed.
sessionAnswers(h, c, in) ==
  ("identity.login" :> login(h, c, in)) @@ ("identity.refresh" :> refresh(h, c, in)) @@ ("identity.logout" :> logout(h, c, in))
  @@ ("identity.me" :> me(h, c, in)) @@ ("identity.change-locale" :> changeLocale(h, c, in))
  @@ ("identity.login-as" :> loginAs(h, c, in)) @@ ("identity.login-as.return" :> returnToOwn(h, c, in))
usersAnswers(h, c, in) ==
  ("identity.users.list" :> listUsers(h, c, in)) @@ ("identity.users.show" :> showUser(h, c, in))
  @@ ("identity.users.create" :> createUser(h, c, in)) @@ ("identity.users.update" :> updateUser(h, c, in))
  @@ ("identity.users.set-password" :> setUserPassword(h, c, in)) @@ ("identity.users.deactivate" :> deactivateUser(h, c, in))
  @@ ("identity.users.activate" :> activateUser(h, c, in)) @@ ("identity.users.unlock" :> unlockUser(h, c, in))
  @@ ("identity.users.signins" :> userSignIns(h, c, in)) @@ ("identity.users.changes" :> userChanges(h, c, in))
  @@ ("identity.users.activity" :> userActivity(h, c, in)) @@ ("identity.users.sessions" :> userSessions(h, c, in))
  @@ ("identity.users.revoke-session" :> revokeUserSession(h, c, in))
  @@ ("identity.users.revoke-sessions" :> revokeUserSessions(h, c, in))
profileAnswers(h, c, in) ==
  ("identity.profile.show" :> showProfile(h, c, in)) @@ ("identity.profile.update" :> updateProfile(h, c, in))
  @@ ("identity.profile.change-password" :> changeOwnPassword(h, c, in))
  @@ ("identity.profile.request-email" :> requestEmailChange(h, c, in))
  @@ ("identity.profile.resend-email" :> resendEmailCode(h, c, in))
  @@ ("identity.profile.confirm-email" :> confirmEmailChange(h, c, in))
  @@ ("identity.profile.cancel-email" :> cancelEmailChange(h, c, in))
  @@ ("identity.profile.signins" :> ownSignIns(h, c, in)) @@ ("identity.profile.sessions" :> ownSessions(h, c, in))
  @@ ("identity.profile.revoke-session" :> revokeOwnSession(h, c, in))
Routes(h, c, in) ==
  sessionAnswers(h, c, in) @@ (IF h.admin THEN usersAnswers(h, c, in) ELSE <<>>)
  @@ (IF h.preferences THEN ("identity.preferences.update" :> updatePreferences(h, c, in)) ELSE <<>>) @@ profileAnswers(h, c, in)
excused(h) ==
  (IF h.admin THEN {} ELSE {s.id : s \in usersRoutes}) \cup (IF h.preferences THEN {} ELSE {"identity.preferences.update"})

-------------------------------------------------------------------------------
(***************************************************************************)
(* The routes and handlers of the other modules an application installs:   *)
(* notification, dead letters, saved views, incidents, access,             *)
(* characteristics, service accounts; and what holds of all of them,       *)
(* identity's included, when they are installed together.                  *)
(***************************************************************************)

one(op, c) == <<Call(op, Person(c.id), Person(c.id))>>
-----------------------------------------------------------------------------
(* notification                                                             *)

ReadInput == Struct({"id"})
MarkAllInput == Struct({})
SetEmailInput == Struct({"category"})
SetPushInput == Struct({"category"})
DeviceInput == Struct({"id"})
RenameDeviceInput == Struct({"id"})
UnsubscribeInput == Struct({})
inbox == V1(<<L("notifications")>>)

\* Declare: every route is a person's own.
noticeRoutes ==
  {InGroup(PersonOnly(s), "notification") : s \in
   {Get("notification.list", inbox, Struct({})), Get("notification.unread", inbox \o <<L("unread")>>, None),
    Post("notification.read", inbox \o <<P("id"), L("read")>>, ReadInput),
    Post("notification.read-all", inbox \o <<L("read")>>, MarkAllInput),
    Raw("notification.stream", "GET", inbox \o <<L("stream")>>), Post("notification.test", inbox \o <<L("test")>>, None),
    Get("notification.preferences", inbox \o <<L("preferences")>>, None),
    Put("notification.preferences.set-email", inbox \o <<L("preferences"), P("category")>>, SetEmailInput),
    Put("notification.quiet-hours", inbox \o <<L("quiet-hours")>>, Struct({})),
    Put("notification.preferences.set-push", inbox \o <<L("preferences"), P("category"), L("push")>>, SetPushInput),
    Get("notification.push", inbox \o <<L("push")>>, None), Get("notification.devices", inbox \o <<L("devices")>>, None),
    Post("notification.device.subscribe", inbox \o <<L("devices")>>, Struct({})),
    Post("notification.device.unsubscribe", inbox \o <<L("devices"), L("unsubscribe")>>, UnsubscribeInput),
    Patch("notification.device.rename", inbox \o <<L("devices"), P("id")>>, RenameDeviceInput),
    Delete("notification.device.remove", inbox \o <<L("devices"), P("id")>>, DeviceInput),
    Post("notification.device.test", inbox \o <<L("devices"), P("id"), L("test")>>, DeviceInput)}}

preferences(c, in) == Answer(<<inboxPerson(c)>>, one("settings.Get", c))
setEmail(c, in) == Answer(<<inboxPerson(c), When(~in.given, "400")>>, one("settings.SetEmail", c))
setPush(c, in) == Answer(<<inboxPerson(c), When(~in.given, "400")>>, one("settings.SetPush", c))
setQuietHours(c, in) == Answer(<<inboxPerson(c)>>, one("settings.SetQuietHours", c))
list(c, in) == Answer(<<inboxPerson(c)>>, one("inbox.List", c))
unread(c, in) == Answer(<<inboxPerson(c)>>, one("inbox.Unread", c))
markRead(c, in) == Answer(<<inboxPerson(c)>>, one("inbox.MarkRead", c))
markAll(c, in) == Answer(<<inboxPerson(c)>>, one("inbox.MarkAllRead", c))
sendTest(c, in) == Answer(<<inboxPerson(c)>>, one("tested.Publish", c))
stream(c, in) == Answer(<<inboxPerson(c)>>, one("inbox.Subscribe", c))
pushConfig(c, in) == Answer(<<inboxPerson(c)>>, <<>>)
devices(c, in) == Answer(<<inboxPerson(c)>>, one("devices.List", c))
subscribe(c, in) == Answer(<<inboxPerson(c)>>, one("devices.Register", c))
renameDevice(c, in) == Answer(<<inboxPerson(c)>>, one("devices.Rename", c))
\* thenList: the change, then the fresh list.
thenList(op, c) == Answer(<<inboxPerson(c)>>, one(op, c) \o one("devices.List", c))

noticeAnswers(c, in) ==
  ("notification.list" :> list(c, in)) @@ ("notification.unread" :> unread(c, in)) @@ ("notification.read" :> markRead(c, in))
  @@ ("notification.read-all" :> markAll(c, in)) @@ ("notification.stream" :> stream(c, in)) @@ ("notification.test" :> sendTest(c, in))
  @@ ("notification.preferences" :> preferences(c, in)) @@ ("notification.preferences.set-email" :> setEmail(c, in))
  @@ ("notification.quiet-hours" :> setQuietHours(c, in)) @@ ("notification.preferences.set-push" :> setPush(c, in))
  @@ ("notification.push" :> pushConfig(c, in)) @@ ("notification.devices" :> devices(c, in))
  @@ ("notification.device.subscribe" :> subscribe(c, in)) @@ ("notification.device.unsubscribe" :> thenList("devices.Unregister", c))
  @@ ("notification.device.rename" :> renameDevice(c, in)) @@ ("notification.device.remove" :> thenList("devices.Remove", c))
  @@ ("notification.device.test" :> thenList("devices.SendTest", c))
-----------------------------------------------------------------------------
(* dead letters of the event queue                                          *)

ViewDeadLetters == "events.deadletter:view"
RetryDeadLetters == "events.deadletter:retry"
RetryInput == Struct({"event", "consumer"})
letters == V1(<<L("events"), L("dead-letters")>>)
letterRoutes ==
  {InGroup(PersonOnly(s), "events") : s \in
   {Requires(Get("events.dead-letters.list", letters, Struct({})), ViewDeadLetters),
    Requires(Post("events.dead-letters.retry", letters \o <<P("event"), P("consumer"), L("retry")>>, RetryInput), RetryDeadLetters),
    Requires(Post("events.dead-letters.retry-all", letters \o <<L("retry")>>, Struct({})), RetryDeadLetters),
    Requires(Get("events.consumers", V1(<<L("events"), L("consumers")>>), None), ViewDeadLetters)}}
letterList(c, in) == Answer(<<>>, <<Call("letters.List", NoOne, NoOne)>>)
\* retry: not found and event gone are answers of their own.
letterRetry(c, in) ==
  IF in.letter = "found" THEN Answer(<<>>, <<Call("letters.Retry", Record(in.id), NoOne)>>)
  ELSE Answer(<<Refuse(IF in.letter = "gone" THEN "409" ELSE "404")>>, <<>>)
retryAll(c, in) == Answer(<<>>, <<Call("letters.RetryAll", NoOne, NoOne)>>)
names(c, in) == Answer(<<>>, <<>>)
letterAnswers(c, in) ==
  ("events.dead-letters.list" :> letterList(c, in)) @@ ("events.dead-letters.retry" :> letterRetry(c, in))
  @@ ("events.dead-letters.retry-all" :> retryAll(c, in)) @@ ("events.consumers" :> names(c, in))
-----------------------------------------------------------------------------
(* saved views                                                              *)

ViewPath == Struct({"id"})
views == V1(<<L("saved-views")>>)
viewRoutes ==
  {InGroup(PersonOnly(s), "savedview") : s \in
   {Get("savedview.index", views, Struct({})), Post("savedview.store", views, Struct({})),
    Delete("savedview.delete", views \o <<P("id")>>, ViewPath)}}
viewIndex(c, in) == Answer(<<inboxPerson(c), When(~in.given, "422")>>, one("views.List", c))
viewStore(c, in) == Answer(<<inboxPerson(c), When(~in.object, "400")>>, one("views.Save", c))
viewDestroy(c, in) == Answer(<<PositivePathInt(in.id), inboxPerson(c)>>, one("views.Delete", c))
viewAnswers(c, in) ==
  ("savedview.index" :> viewIndex(c, in)) @@ ("savedview.store" :> viewStore(c, in)) @@ ("savedview.delete" :> viewDestroy(c, in))
-----------------------------------------------------------------------------
(* incidents                                                                *)

Incidents == [view |-> "incident:view", create |-> "incident:create", update |-> "incident:update", manage |-> "incident:manage"]
ByID == Struct({"incidentID"})
incidentRequest == ByID
incidents == V1(<<L("incidents")>>)
incident == incidents \o <<P("incidentID")>>
incidentRoutes ==
  {InGroup(s, "incident") : s \in
   {Requires(Get("incident.index", incidents, Struct({})), Incidents.view),
    Requires(Get("incident.show", incident, ByID), Incidents.view),
    Requires(Get("incident.comments", incident \o <<L("comments")>>, ByID), Incidents.view),
    Requires(Get("incident.occurrences", incident \o <<L("occurrences")>>, incidentRequest), Incidents.manage),
    PersonOnly(Requires(Post("incident.report", incidents \o <<L("reports")>>, Struct({})), Incidents.create)),
    PersonOnly(Requires(Post("incident.comment", incident \o <<L("comments")>>, incidentRequest), Incidents.create)),
    PersonOnly(Requires(Patch("incident.update", incident, incidentRequest), Incidents.update)),
    PersonOnly(Authenticated(Post("incident.client-error", incidents \o <<L("client-errors")>>, Struct({}))))}}

\* viewer: a person by their id; a service account is no person.
signed(c) == When(c.kind = "nobody", "401")
viewer(c) == IF c.kind = "person" THEN Person(c.id) ELSE NoOne
incidentList(c, in) == Answer(<<signed(c)>>, <<Call("incidents.List", NoOne, viewer(c))>>)
\* detail: the id, then who asks.
incidentDetail(op, c, in) == Answer(<<PositiveID(in.id), signed(c)>>, <<Call(op, Record(in.id), viewer(c))>>)
incidentShow(c, in) == incidentDetail("incidents.Show", c, in)
incidentUpdate(c, in) == incidentDetail("incidents.Update", c, in)
comments(c, in) == incidentDetail("incidents.Comments", c, in)
occurrences(c, in) == incidentDetail("incidents.Occurrences", c, in)
report(c, in) == Answer(<<signed(c)>>, <<Call("incidents.Report", NoOne, viewer(c))>>)
comment(c, in) == incidentDetail("incidents.Comment", c, in)
\* clientError: over the limit it is dropped and answered like the others.
clientError(c, in) ==
  Answer(<<When(c.kind # "person", "401")>>, IF in.overLimit THEN <<>> ELSE <<Call("incidents.ClientError", NoOne, Person(c.id))>>)
incidentAnswers(c, in) ==
  ("incident.index" :> incidentList(c, in)) @@ ("incident.show" :> incidentShow(c, in)) @@ ("incident.comments" :> comments(c, in))
  @@ ("incident.occurrences" :> occurrences(c, in)) @@ ("incident.report" :> report(c, in)) @@ ("incident.comment" :> comment(c, in))
  @@ ("incident.update" :> incidentUpdate(c, in)) @@ ("incident.client-error" :> clientError(c, in))
-----------------------------------------------------------------------------
(* roles and access                                                         *)

ViewRoles == "iam.role:view"
ManageRoles == "iam.role:manage"
DeleteRoles == "iam.role:delete"
RoleInput == Struct({"ref"})
CompareInput == Struct({"ref"})
UpdateRoleInput == Struct({"ref"})
ReplaceRoleInput == Struct({"ref"})
SubjectInput == Struct({"id"})
BindInput == Struct({"id"})
UnbindInput == Struct({"id", "binding_id"})
BindableInput == Struct({})
roles == V1(<<L("iam"), L("roles")>>)
aRole == roles \o <<P("ref")>>
accessRoutes ==
  {InGroup(s, "access") : s \in
   {Requires(Get("access.roles.list", roles, None), ViewRoles), Requires(Get("access.roles.show", aRole, RoleInput), ViewRoles),
    Requires(Get("access.roles.holders", aRole \o <<L("holders")>>, RoleInput), ViewRoles),
    Requires(Get("access.roles.compare", aRole \o <<L("compare")>>, CompareInput), ViewRoles),
    Requires(Post("access.roles.create", roles, Struct({})), ManageRoles),
    Requires(Put("access.roles.update", aRole, UpdateRoleInput), ManageRoles),
    Requires(Delete("access.roles.delete", aRole, RoleInput), DeleteRoles),
    Requires(Post("access.roles.replace", aRole \o <<L("replace")>>, ReplaceRoleInput), ManageRoles),
    Authenticated(Get("access.bindable", V1(<<L("iam"), L("bindable-roles")>>), BindableInput)),
    Requires(Get("access.subjects.access", aUser \o <<L("access")>>, SubjectInput), Users.view),
    Requires(Get("access.subjects.scopes", aUser \o <<L("scopes")>>, SubjectInput), Users.manage),
    Requires(Post("access.subjects.bind", aUser \o <<L("bindings")>>, BindInput), Users.manage),
    Requires(Delete("access.subjects.unbind", aUser \o <<L("bindings"), P("binding_id")>>, UnbindInput), Users.manage),
    Authenticated(Raw("access.me", "GET", V1(<<L("me"), L("access")>>)))}}

\* The services of access/admin read the principal from the context.
as(c) == [kind |-> c.kind, id |-> c.id]
onRole(op, c) == <<Call(op, Record(0), as(c))>>
\* draftOf: a qualifier that is no qualifier is refused before the service is asked.
draftOf(in) == When(in.qualifier \notin {"own", "own_location", "all"}, "400")
listRoles(c, in) == Answer(<<>>, onRole("roles.List", c))
showRole(c, in) == Answer(<<>>, onRole("roles.Show", c))
roleHolders(c, in) == Answer(<<>>, onRole("roles.Holders", c))
compareRole(c, in) == Answer(<<>>, onRole("roles.Compare", c))
createRole(c, in) == Answer(<<draftOf(in)>>, onRole("roles.Create", c))
updateRole(c, in) == Answer(<<draftOf(in)>>, onRole("roles.Update", c))
deleteRole(c, in) == Answer(<<>>, onRole("roles.Delete", c))
replaceRole(c, in) == Answer(<<>>, onRole("roles.Replace", c))
bindableRoles(c, in) == Answer(<<>>, <<Call("bindings.BindableRoles", Person(0), as(c))>>)
subjectAccess(c, in) == Answer(<<>>, <<Call("bindings.Access", Person(in.id), as(c))>>)
subjectScopes(c, in) == Answer(<<>>, <<Call("bindings.Scopes", Person(in.id), as(c))>>)
bind(c, in) == Answer(<<>>, <<Call("bindings.Bind", Person(in.id), as(c))>>)
unbind(c, in) == Answer(<<>>, <<Call("bindings.Unbind", Person(in.id), as(c))>>)
myAccess(c, in) == Answer(<<signed(c)>>, <<Call("engine.MyAccess", as(c), as(c))>>)
accessAnswers(c, in) ==
  ("access.roles.list" :> listRoles(c, in)) @@ ("access.roles.show" :> showRole(c, in)) @@ ("access.roles.holders" :> roleHolders(c, in))
  @@ ("access.roles.compare" :> compareRole(c, in)) @@ ("access.roles.create" :> createRole(c, in))
  @@ ("access.roles.update" :> updateRole(c, in)) @@ ("access.roles.delete" :> deleteRole(c, in))
  @@ ("access.roles.replace" :> replaceRole(c, in)) @@ ("access.bindable" :> bindableRoles(c, in))
  @@ ("access.subjects.access" :> subjectAccess(c, in)) @@ ("access.subjects.scopes" :> subjectScopes(c, in))
  @@ ("access.subjects.bind" :> bind(c, in)) @@ ("access.subjects.unbind" :> unbind(c, in)) @@ ("access.me" :> myAccess(c, in))
-----------------------------------------------------------------------------
(* characteristics                                                          *)

ViewTree == "characteristics:view"
EditTree == "characteristics:edit"
ItemInput == Struct({"level", "id"})
CreateInput == Struct({"level"})
itemRequest == ItemInput
OptionsInput == Struct({})
tree == V1(<<L("characteristics")>>)
item == tree \o <<L("items"), P("level"), P("id")>>
treeRoutes ==
  {InGroup(s, "characteristics") : s \in
   {Requires(Get("characteristics.tree", tree, None), ViewTree),
    Requires(Get("characteristics.description", tree \o <<L("description")>>, None), ViewTree),
    Requires(Get("characteristics.show", item, ItemInput), ViewTree),
    Requires(Get("characteristics.branch", item \o <<L("branch")>>, ItemInput), ViewTree),
    Requires(Get("characteristics.usage", item \o <<L("usage")>>, ItemInput), ViewTree),
    Requires(Post("characteristics.create", tree \o <<L("items"), P("level")>>, CreateInput), EditTree),
    Requires(Put("characteristics.update", item, itemRequest), EditTree),
    Requires(Put("characteristics.set-active", item \o <<L("active")>>, itemRequest), EditTree),
    Requires(Put("characteristics.move", item \o <<L("position")>>, itemRequest), EditTree),
    Requires(Delete("characteristics.delete", item, itemRequest), EditTree),
    Authenticated(Get("characteristics.options", tree \o <<L("options")>>, OptionsInput))}}

\* actorOf: the caller's number alone goes into the audit columns, a service
\* account's too.
actorOf(c) == signed(c)
looks(op, c, in) == Answer(<<>>, <<Call(op, Record(in.id), NoOne)>>)
writes(op, c, in) == Answer(<<actorOf(c), When(~in.object, "400")>>, <<Call(op, Record(in.id), Person(c.id))>>)
readTree(c, in) == Answer(<<>>, <<Call("tree.Tree", NoOne, NoOne)>>)
description(c, in) == Answer(<<>>, <<>>)
showItem(c, in) == looks("tree.Get", c, in)
branch(c, in) == looks("tree.Branch", c, in)
usage(c, in) == looks("tree.Usage", c, in)
createItem(c, in) == writes("tree.Create", c, in)
updateItem(c, in) == writes("tree.Update", c, in)
setActive(c, in) == Answer(<<actorOf(c)>>, <<Call("tree.SetActive", Record(in.id), Person(c.id))>>)
move(c, in) == looks("tree.Move", c, in)
destroy(c, in) == looks("tree.Delete", c, in)
options(c, in) == Answer(<<>>, <<Call("tree.Options", NoOne, NoOne)>>)
treeAnswers(c, in) ==
  ("characteristics.tree" :> readTree(c, in)) @@ ("characteristics.description" :> description(c, in))
  @@ ("characteristics.show" :> showItem(c, in)) @@ ("characteristics.branch" :> branch(c, in))
  @@ ("characteristics.usage" :> usage(c, in)) @@ ("characteristics.create" :> createItem(c, in))
  @@ ("characteristics.update" :> updateItem(c, in)) @@ ("characteristics.set-active" :> setActive(c, in))
  @@ ("characteristics.move" :> move(c, in)) @@ ("characteristics.delete" :> destroy(c, in))
  @@ ("characteristics.options" :> options(c, in))
-----------------------------------------------------------------------------
(* service accounts, and their access                                       *)

ViewAccounts == "iam.serviceaccount:view"
ManageAccounts == "iam.serviceaccount:manage"
RevokeKeys == "iam.serviceaccount:revoke"
AccountPath == Struct({"id"})
UpdateAccount == AccountPath
KeyRequest == AccountPath
RevokeRequest == Struct({"id", "keyID"})
accounts == V1(<<L("iam"), L("service-accounts")>>)
anAccount == accounts \o <<P("id")>>
accountRoutes ==
  {InGroup(s, "serviceaccount") : s \in
   {Requires(Get("serviceaccount.index", accounts, None), ViewAccounts),
    Requires(Get("serviceaccount.show", anAccount, AccountPath), ViewAccounts),
    Requires(Post("serviceaccount.create", accounts, Struct({})), ManageAccounts),
    Requires(Put("serviceaccount.update", anAccount, UpdateAccount), ManageAccounts),
    Requires(Post("serviceaccount.deactivate", anAccount \o <<L("deactivate")>>, AccountPath), ManageAccounts),
    Requires(Get("serviceaccount.keys", anAccount \o <<L("keys")>>, AccountPath), ViewAccounts),
    Requires(Post("serviceaccount.revokekey", anAccount \o <<L("keys"), P("keyID"), L("revoke")>>, RevokeRequest), RevokeKeys),
    Requires(Post("serviceaccount.createkey", anAccount \o <<L("keys")>>, KeyRequest), ManageAccounts)}}
accountAccess ==
  {InGroup(s, "serviceaccount") : s \in
   {Requires(Get("serviceaccount.bindableroles", accounts \o <<L("bindable-roles")>>, BindableInput), ManageAccounts),
    Requires(Get("serviceaccount.access", anAccount \o <<L("access")>>, SubjectInput), ViewAccounts),
    Requires(Get("serviceaccount.scopes", anAccount \o <<L("scopes")>>, SubjectInput), ManageAccounts),
    Requires(Post("serviceaccount.bind", anAccount \o <<L("bindings")>>, BindInput), ManageAccounts),
    Requires(Delete("serviceaccount.unbind", anAccount \o <<L("bindings"), P("binding_id")>>, UnbindInput), ManageAccounts)}}

\* positive: 400; a key or binding id that is not, 422.
positive(id) == PositiveID(id)
onAccount(op, c, in) == Answer(<<positive(in.id)>>, <<Call(op, Service(in.id), as(c))>>)
index(c, in) == Answer(<<>>, <<Call("accounts.List", NoOne, as(c))>>)
show(c, in) == onAccount("accounts.Get", c, in)
create(c, in) == Answer(<<>>, <<Call("accounts.Create", NoOne, as(c))>>)
update(c, in) == onAccount("accounts.Update", c, in)
deactivate(c, in) == onAccount("accounts.Deactivate", c, in)
keys(c, in) == onAccount("accounts.Keys", c, in)
revokeKey(c, in) == Answer(<<positive(in.id), PositivePathInt(in.second)>>, <<Call("accounts.RevokeKey", Service(in.id), as(c))>>)
createKey(c, in) == onAccount("accounts.CreateKey", c, in)
serviceAccess(c, in) == onAccount("bindings.Access", c, in)
serviceScopes(c, in) == onAccount("bindings.Scopes", c, in)
serviceBind(c, in) == onAccount("bindings.Bind", c, in)
serviceUnbind(c, in) == Answer(<<positive(in.id), PositivePathInt(in.second)>>, <<Call("bindings.Unbind", Service(in.id), as(c))>>)
serviceBindable(c, in) == Answer(<<>>, <<Call("bindings.BindableRolesFor", Service(0), as(c))>>)
accountAnswers(c, in) ==
  ("serviceaccount.index" :> index(c, in)) @@ ("serviceaccount.show" :> show(c, in)) @@ ("serviceaccount.create" :> create(c, in))
  @@ ("serviceaccount.update" :> update(c, in)) @@ ("serviceaccount.deactivate" :> deactivate(c, in))
  @@ ("serviceaccount.keys" :> keys(c, in)) @@ ("serviceaccount.revokekey" :> revokeKey(c, in))
  @@ ("serviceaccount.createkey" :> createKey(c, in))
accountAccessAnswers(c, in) ==
  ("serviceaccount.bindableroles" :> serviceBindable(c, in)) @@ ("serviceaccount.access" :> serviceAccess(c, in))
  @@ ("serviceaccount.scopes" :> serviceScopes(c, in)) @@ ("serviceaccount.bind" :> serviceBind(c, in))
  @@ ("serviceaccount.unbind" :> serviceUnbind(c, in))
-----------------------------------------------------------------------------
(* Everything installed together.                                           *)

Surface ==
  identityRoutes \cup noticeRoutes \cup letterRoutes \cup viewRoutes \cup incidentRoutes \cup accessRoutes
  \cup treeRoutes \cup accountRoutes \cup accountAccess
Answers(h, c, in) ==
  Routes(h, c, in) @@ noticeAnswers(c, in) @@ letterAnswers(c, in) @@ viewAnswers(c, in) @@ incidentAnswers(c, in)
  @@ accessAnswers(c, in) @@ treeAnswers(c, in) @@ accountAnswers(c, in) @@ accountAccessAnswers(c, in)
Secured == [authenticate |-> 1, authorizer |-> {"engine"}]
Excused(h) == excused(h)

(* The modules can be installed together: no two routes share a name or     *)
(* clash in gin, every path parameter is read, every route says who may     *)
(* call it, nothing stops a mount, and every declared route is answered     *)
(* once or excused (the Declare tables and the To lists of every module).   *)
TablesMount(h, c, in) ==
  /\ \A r \in Surface : /\ DeclaresAccess(r) /\ PathProblems(r) = {} /\ ~refusesToMount(Secured, r)
                        /\ ~ginRefuses(Surface \ {r}, r.method, r.path)
                        /\ \A q \in Surface : q.id = r.id => q = r
  /\ DOMAIN Answers(h, c, in) = {r.id : r \in Surface} \ Excused(h)

letsOn(spec, c, holds) ==
  LET needed == Range(Needs(spec))
  IN reachesHandler(access(Secured, spec), [kind |-> c.kind, holds |-> IF holds THEN needed ELSE {}], needed)
peopleOf(calls) == {calls[i].on : i \in {j \in DOMAIN calls : calls[j].on.kind \in {"person", "service"} /\ calls[j].on.id # 0}}

(* What a handler does for whoever the chain lets on: a person is never     *)
(* turned away for who they are; a route of one's own acts on its caller    *)
(* only; a person the caller does not reach with the permission of the      *)
(* route is not told apart from nobody, and nothing is done to them; a      *)
(* service account's routes never act on the person of the same number, nor *)
(* a person's on the service account; nothing is done in anybody else's     *)
(* name.  (The characteristics' audit columns hold a bare number, so they   *)
(* are left out of the last.)                                               *)
HandlersKeepTo(spec, h, c, in) ==
  LET does == Answers(h, c, in)[spec.id] touched == peopleOf(does.calls) named == "id" \in params(spec)
  IN /\ c.kind = "person" /\ spec.id # "identity.refresh" => does.refused \cap {"401", "403"} = {}
     /\ spec.personOnly /\ Needs(spec) = <<>> /\ spec.id # "identity.login-as" => touched \subseteq {as(c)}
     /\ spec.id \in {r.id : r \in usersRoutes} /\ named /\ in.id \notin h.reach[spec.permission] =>
           does.refused = {"404 account"} /\ does.calls = <<>>
     /\ spec.groups = {"serviceaccount"} /\ named => touched \subseteq {Service(in.id)}
     /\ spec.id \in {r.id : r \in usersRoutes} \cup {r.id : r \in accessRoutes} /\ named => touched \subseteq {Person(in.id)}
     /\ spec.groups # {"characteristics"} => \A i \in DOMAIN does.calls : does.calls[i].as \in {as(c), NoOne}

(* A change of one's own password keeps the session it was made in and      *)
(* ends the others; a change of somebody else's keeps none of theirs        *)
(* (setUserPassword, changeOwnPassword).                                    *)
OwnSessionKept(spec, h, c, in) ==
  LET does == Answers(h, c, in)[spec.id]
  IN \A i \in DOMAIN does.calls :
        does.calls[i].op \in {"admin.SetPassword", "profile.ChangePassword"} =>
          does.calls[i].keep = (IF does.calls[i].on = as(c) THEN {c.token} ELSE {})

-------------------------------------------------------------------------------
(***************************************************************************)
(* identity/preferences/mergepatch.go: merging a part of a person's        *)
(* preferences into what is stored.  A JSON value is an object (its        *)
(* members a function from keys), null, or a scalar; what does not parse   *)
(* is Garbage.                                                             *)
(***************************************************************************)

Object(members) == [is |-> "object", of |-> "", members |-> members]
Scalar(v) == [is |-> "scalar", of |-> v, members |-> <<>>]
Null == [is |-> "null", of |-> "", members |-> <<>>]
Garbage == [is |-> "garbage", of |-> "", members |-> <<>>]

(* decode, isObject: the value is one JSON object and nothing after it.       *)
isObject(value) == value.is = "object"

RECURSIVE apply(_, _)

apply(target, patch) ==
    IF ~isObject(patch) THEN patch
    ELSE LET changes == patch.members
             merged == IF isObject(target) THEN target.members ELSE <<>>
             old(k) == IF k \in DOMAIN merged THEN merged[k] ELSE Null
             removed == {k \in DOMAIN changes : changes[k] = Null}
         IN  Object([k \in (DOMAIN merged \cup DOMAIN changes) \ removed |->
                        IF k \in DOMAIN changes THEN apply(old(k), changes[k]) ELSE merged[k]])

(* MergePatch: {} when the patch is refused, else the merged object; stored   *)
(* garbage counts as nothing.                                                 *)
Merged(stored, patch) ==
    IF ~isObject(patch) THEN {} ELSE {apply(IF stored = Garbage THEN Null ELSE stored, patch)}

(* A value at a path of keys, Null where there is none.                       *)
RECURSIVE At(_, _)
At(value, path) ==
    IF path = <<>> THEN value
    ELSE IF isObject(value) /\ Head(path) \in DOMAIN value.members THEN At(value.members[Head(path)], Tail(path))
    ELSE Null

(* Whether a value holds a null anywhere.                                     *)
RECURSIVE HoldsNull(_)
HoldsNull(value) == value = Null \/ (isObject(value) /\ \E k \in DOMAIN value.members : HoldsNull(value.members[k]))

(* Merging does what RFC 7396 asks: the result is an object without nulls of  *)
(* the patch; where the patch is silent the stored value stays; a scalar of   *)
(* the patch is there; patching again changes nothing.                        *)
MergeRight(stored, patch, paths) ==
    \A merged \in Merged(stored, patch) :
        /\ isObject(merged)
        /\ ~HoldsNull(stored) => ~HoldsNull(merged)
        /\ \A path \in paths :
              /\ At(patch, path).is = "scalar" => At(merged, path) = At(patch, path)
              /\ Len(path) = 1 /\ Head(path) \notin DOMAIN patch.members /\ isObject(stored)
                    => At(merged, path) = At(stored, path)
        /\ apply(merged, patch) = merged
===============================================================================
