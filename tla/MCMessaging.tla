----------------------------- MODULE MCMessaging -----------------------------
(***************************************************************************)
(* What must survive failures and take effect once: the event queue (the   *)
(* leases of two instances, and the dead letters of two consumers), the    *)
(* audit queue and the file store; and the pure functions of the system,   *)
(* over samples of their inputs.  None of them touches another's state, so *)
(* a behaviour is a behaviour of one of them: `scene` names it and the     *)
(* others stay in their initial state.                                     *)
(***************************************************************************)
EXTENDS EventQueue, AuditQueue, FileStore, FiniteSetsExt, SequencesExt, TLC

CONSTANTS j1, l1, l2

VARIABLES
    scene,
    lClock, lOutbox, lAtt, lOffer, lLane, lUp, lSweep, lHandled, lExpired

letterVars == <<lClock, lOutbox, lAtt, lOffer, lLane, lUp, lSweep, lHandled, lExpired>>

MCSubscribed == [c \in Consumers |-> Events]
MCBackoff == [n \in 1..MaxAttempts |-> IF n = 1 THEN 1 ELSE 2]

\* Two consumers of one event, one instance: dead letters that are retried or expire.
LetterConsumers == {l1, l2}
LetterSubscribed == [c \in LetterConsumers |-> {1}]
Letters == INSTANCE EventQueue
    WITH Events <- {1}, Consumers <- LetterConsumers, Instances <- {j1}, Subscribed <- LetterSubscribed,
         MaxAttempts <- 1, Backoff <- <<1>>, ClaimLease <- 2, BatchSize <- 1, Retention <- 1, DeadFor <- 1,
         MaxClock <- 2, Prompt <- TRUE,
         clock <- lClock, outbox <- lOutbox, att <- lAtt, offer <- lOffer, lane <- lLane, up <- lUp,
         sweep <- lSweep, handled <- lHandled, expired <- lExpired

-----------------------------------------------------------------------------
(* The pure parts of the system, each compared with what it is meant to       *)
(* compute over every input of a small set: a step picks an input, the        *)
(* invariants compare.                                                        *)

LS == INSTANCE Listing
    WITH defaultPerPage <- 2, maxPerPage <- 3, Bits <- 6, DefaultPerPage <- 3, MaxPerPage <- 3, LockAfter <- 2, LockFor <- 2

IP == INSTANCE Inputs

VL == INSTANCE Values WITH Bits <- 8, Unit <- 10, Scale <- 2

MS == INSTANCE Messages

HD == INSTANCE Handlers


DC == INSTANCE Declarations WITH Idents <- {"id", "name", "x", "y"}, LongTexts <- {"long"}, IllFormed <- {"A B"}

VARIABLE sample

NoSample(of) == [kind |-> "none", of |-> of]
FnInit == sample \in {NoSample("values"), NoSample("calls")}

Upto(S, n) == UNION {[1..k -> S] : k \in 0..n}

-------------------------------------------------------------------------------
(* Pages, views and areas of the users administration                         *)

PickPage ==
    \E n \in 0..7, perPage \in (-1)..4 :
        sample' = [kind |-> "page", rows |-> [i \in 1..n |-> i], perPage |-> perPage]

SignInsOf(steps) == [i \in DOMAIN steps |-> [account |-> steps[i][1], event |-> steps[i][2], at |-> i]]

PickList ==
    \E a, b \in BOOLEAN, steps \in Upto({1, 2} \X {"wrong_password", "signed_in", "unlocked"}, 3),
      search \in {"", "a"}, last \in {"", "never", "idle"}, now \in {3, 4} :
        sample' = [kind |-> "list", now |-> now, entries |-> SignInsOf(steps),
                   accounts |-> {[id |-> 1, active |-> a, found |-> {"a"}], [id |-> 2, active |-> b, found |-> {"b"}],
                                 [id |-> 3, active |-> TRUE, found |-> {"a", "b"}]},
                   in |-> [view |-> "all", search |-> search, lastSignIn |-> last, idleBefore |-> 3]]

NamedActions == {"updated", "password", "activated"}
PickHistory ==
    \/ \E steps \in Upto({1, 2} \X {"wrong_password", "locked_out", "refused_inactive", "signed_in", "unlocked"}, 2) :
          sample' = [kind |-> "history", entries |-> SignInsOf(steps), rows |-> <<>>, written |-> <<>>]
    \/ \E renamed \in SUBSET NamedActions : \E written \in [renamed -> {"update", "updated", "profile"}],
          rows \in Upto({"update", "updated", "profile", "deactivated"}, 3) :
          sample' = [kind |-> "history", entries |-> <<>>, rows |-> rows, written |-> written]

AreaSamples ==
    [key : {"crm", "identity", "other"}, isKey : {TRUE}, types : SUBSET {<<"account">>, <<"c">>}, prefixes : SUBSET {<<"c">>}]
ActivityRows ==
    <<[type |-> <<>>, action |-> "update", at |-> 1], [type |-> <<"account">>, action |-> "password", at |-> 1],
      [type |-> <<"c">>, action |-> "create", at |-> 2], [type |-> <<"c", "x">>, action |-> "deleted", at |-> 3]>>
PickAreas ==
    \E areas \in Upto(AreaSamples, 2), from \in {0, 2}, to \in {0, 1, 2}, used \in 1..3 :
        sample' = [kind |-> "areas", rows |-> ActivityRows, areas |-> areas, f |-> [from |-> from, to |-> to],
                   tokens |-> <<[actor |-> 7, created |-> 1, lastUsed |-> used, expires |-> 2],
                                [actor |-> 0, created |-> 1, lastUsed |-> 3, expires |-> 3],
                                [actor |-> 8, created |-> 2, lastUsed |-> 1, expires |-> 3]>>]

(* The pages of a list (Paging, pageOf) show every row once, and say which.   *)
Pages == sample.kind = "page" => LS!ViewPagesCover(sample.rows, sample.perPage)

(* The views of the users administration and their counts are of the same     *)
(* rows: accounts (Admin.List), sign-ins and changes (Admin.SignIns,          *)
(* Admin.Changes) and activity by area (Admin.Activity, ActivityCounts).      *)
ViewsAgree ==
    /\ sample.kind = "list" => LS!ListViewsAgree(sample.accounts, sample.entries, sample.in, sample.now)
    /\ sample.kind = "history" => LS!HistoryViewsAgree(sample.entries, sample.rows, sample.written, 1)
    /\ sample.kind = "areas" => LS!AreasAgree(sample.rows, sample.areas, sample.tokens, sample.f)

-------------------------------------------------------------------------------
(* Merging preferences                                                        *)

Leaves == {HD!Scalar("x"), HD!Null}
Members(S) == UNION {[K -> S] : K \in SUBSET {"a", "b"}}
Objects1 == {HD!Object(m) : m \in Members(Leaves)}
Objects2 == {HD!Object(m) : m \in Members(Leaves \cup Objects1)}
MergePaths == {<<"a">>, <<"b">>, <<"a", "a">>, <<"a", "b">>, <<"b", "a">>}

PickMerge ==
    \E stored \in Objects2 \cup Leaves \cup {HD!Garbage}, patch \in Objects2 \cup Leaves :
        sample' = [kind |-> "merge", stored |-> stored, patch |-> patch]

(* Merging a part of the preferences into what is stored (MergePatch) is the  *)
(* merge patch of RFC 7396.                                                   *)
MergesRight == sample.kind = "merge" => HD!MergeRight(sample.stored, sample.patch, MergePaths)

-------------------------------------------------------------------------------
(* Binding and validating a request's input, and the generated schema          *)

Types == [base : {"string", "int", "int8", "uint8", "byte", "float", "bool", "list"}, ptr : BOOLEAN]
Rule(name, a, b, in) == [name |-> name, a |-> a, b |-> b, in |-> in, when |-> ""]
SimpleRules == {Rule(n, 0, 0, {}) : n \in {"required", "email", "url", "date", "year"}}
SizeRules == {Rule(n, a, 0, {}) : n \in {"min", "max"}, a \in {-1, 2, 300}}
             \cup {Rule("len", 2, 0, {}), Rule("between", 1, 2, {}), Rule("between", 2, 1, {}), Rule("between", 1, 300, {})}
TextRules == {Rule("trim", 0, 0, {}), Rule("in", 0, 0, {IP!Str(1, 1, {}), IP!Str(2, 2, {"email"})})}
RuleLists == Upto(SimpleRules \cup SizeRules \cup TextRules, 2)
InputValues ==
    {IP!Str(0, 0, {}), IP!Str(2, 0, {}), IP!Str(1, 1, {}), IP!Str(2, 1, {}), IP!Str(2, 2, {"email"}), IP!Str(4, 2, {"email"}),
     IP!Str(3, 3, {"url", "date"})}
    \cup {IP!Number(h) : h \in {-2, -1, 0, 1, 2, 4, 6, 256, 258, 510, 512, 514}} \cup {IP!Bool(0), IP!Bool(1), IP!List(0), IP!List(2), IP!Null}
\* A rule on a type it is not for does not reach a running application.
Fits(type, rules) ==
    /\ IP!checkTrim(rules, type)
    /\ \A i \in DOMAIN rules :
        /\ rules[i].name \in {"email", "url", "date", "year", "in"} => type.base = "string"
        /\ rules[i].name \in {"min", "max", "len", "between"} => type.base # "bool"

PickInput ==
    \E type \in Types, rules \in RuleLists, v \in InputValues :
        /\ Fits(type, rules)
        /\ sample' = [kind |-> "input", type |-> type, rules |-> rules, v |-> v]

(* What the schema generated for a field accepts in the browser the server     *)
(* binds and validates too, where the two are not known to part; a field       *)
(* required on a condition is the required field when the condition holds;     *)
(* a whole number written in a form binds as the same number in JSON.          *)
InputsAgree ==
    sample.kind = "input" =>
        /\ IP!SchemaSound(sample.type, sample.rules, sample.v)
        /\ \A other \in {"yes", "no"} : IP!ConditionAgrees(sample.type, sample.rules, sample.v, "yes", other)
        /\ sample.v.k = "number" /\ sample.type.base \notin {"string", "list", "bool"} => IP!FormAgrees(sample.type, sample.v.n)

Fields(called) ==
    {[name |-> n, form |-> fo, json |-> j, path |-> p, query |-> q, other |-> FALSE, embeds |-> <<>>, free |-> q = "*" /\ p = ""] :
        n \in called, fo \in {"", "a"}, j \in {"", "-", "b"}, p \in {"", "a"}, q \in {"", "b", "*"}}
PickShape ==
    \E f \in Fields({"F"}), g \in Fields({"G"}), tagged, plain \in BOOLEAN :
        sample' = [kind |-> "shape",
                   fields |-> IF plain THEN <<f, g>>
                              ELSE <<f, [name |-> "E", form |-> "", json |-> "", path |-> "", query |-> "", other |-> tagged,
                                         embeds |-> <<g>>, free |-> FALSE]>>]

(* A query parameter goes to the field that declares it or to the free-form    *)
(* one (bindFields); what an embedded struct takes from the URL no body        *)
(* writes, and a body field fails under the key it was sent as                 *)
(* (appendFieldMeta, buildStructMeta).                                         *)
KeysFindFields ==
    sample.kind = "shape" =>
        /\ \A keys \in SUBSET {"a", "b", "c"} : IP!QueryShared(sample.fields, keys)
        /\ IP!BodyKeepsOff(sample.fields)

-------------------------------------------------------------------------------
(* Generated TypeScript                                                        *)

GoType(key, base, refs, enum) == [key |-> key, base |-> base, refs |-> refs, enum |-> enum]
Leafs == {GoType("x.Item", "Item", <<>>, "no"), GoType("y.Item", "Item", <<>>, "no"), GoType("z.Item", "Item", <<>>, "no"),
          GoType("x.Kind", "Kind", <<>>, "if used"), GoType("y.Kind", "Kind", <<>>, "declared")}
Branches == {GoType("x.A", "A", r, "no") : r \in Upto(Leafs, 2)}
Roots == {GoType("x.B", "B", r, "no") : r \in Upto(Leafs, 1)} \cup {GoType("x.B", "B", <<a, l>>, "no") : a \in Branches, l \in Leafs}
PickTypes ==
    \E a \in Branches, b \in Roots, l \in Leafs, asA \in {<<>>, <<"Item">>, <<"C">>} :
        /\ \A r \in Range(b.refs) : r.key = a.key => r = a
        /\ \E order \in {<<a, b>>, <<b, a>>, <<b, l>>, <<l, b>>} :
              sample' = [kind |-> "types", types |-> {a, b, l} \cup Leafs,
                         entities |-> [i \in 1..2 |-> [type |-> order[i], as |-> IF order[i] = a THEN asA ELSE <<>>]]]

FileNames == {[name |-> "a", ext |-> ".ts"], [name |-> "b", ext |-> ".ts"], [name |-> "a", ext |-> ".md"]}
Folders == UNION {[N -> {"old", "new"}] : N \in SUBSET FileNames}
PickFolder ==
    \E part \in {"entities", "schemas", "permissions", "routes"}, dir \in Folders, made \in Folders, types \in 0..2, fails \in BOOLEAN :
        /\ \A n \in DOMAIN made : IP!isTs(n)
        /\ part = "permissions" => DOMAIN made = {[name |-> "a", ext |-> ".ts"]}
        /\ sample' = [kind |-> "folder", part |-> part, dir |-> dir, gen |-> [files |-> made, listed |-> types, fails |-> fails]]

(* A generated file imports only files that are generated, and a name that is  *)
(* not a listed type's stands for one type (resolveTypeName); checking the     *)
(* generated folder finds exactly the files that generating would change       *)
(* (Sync, Drift, checkTypeScript).                                             *)
GeneratedAgrees ==
    /\ sample.kind = "types" => IP!ImportsResolve(sample.entities, sample.types)
    /\ sample.kind = "folder" => IP!CheckAgrees(sample.part, sample.dir, sample.gen)

-------------------------------------------------------------------------------
(* Column types                                                                *)

ColumnTypeNames ==
    {"Bool", "NullBool", "Int", "NullInt", "Float", "NullFloat", "String", "NullString", "Enum", "LegacyBoolEnum",
     "Date", "NullDate", "ZeroDate", "DateTime", "NullDateTime", "ZeroDateTime"}
PickColumn ==
    \/ \E type \in ColumnTypeNames, parses \in BOOLEAN : \E v \in VL!Made(type) :
          sample' = [kind |-> "value", type |-> type, v |-> v, parses |-> parses]
    \/ \E type \in {"tinyint", "int", "decimal", "boolean", "date", "datetime", "varchar", "enum"}, parses, null, zero, one, bits \in BOOLEAN :
          sample' = [kind |-> "column", parses |-> parses,
                     col |-> [type |-> type, null |-> null, zero |-> zero, one |-> one, bits |-> bits]]

(* A column's value read back is the value written, and so is one sent to a    *)
(* client and returned (GormValue, Scan, MarshalJSON, UnmarshalJSON); the type *)
(* chosen for a column reads what the column holds (ColumnTypes).              *)
ColumnsComeBack ==
    /\ sample.kind = "value" => VL!ComesBack(sample.type, sample.v, sample.parses)
    /\ sample.kind = "column" => VL!TypeFitsColumn(sample.col, sample.parses)

-------------------------------------------------------------------------------
(* Audit entries, searches and configurations                                  *)

Secret == VL!Scalar(7)
FieldOf(name, json, off, shown, v) == [name |-> name, json |-> json, off |-> off, shown |-> shown, v |-> v]
Inner == [k |-> "struct", fields |-> <<FieldOf("AccessToken", "", FALSE, TRUE, Secret), FieldOf("Hidden", "", TRUE, TRUE, VL!Scalar(8))>>]
EntryValues == {VL!Scalar(1), VL!Scalar(2), Inner, [k |-> "list", items |-> <<Inner>>], VL!NilValue}
EntryFields(called, vs) == {FieldOf(n, j, off, shown, v) : n \in called, j \in {"", "-", "a", "password"}, off, shown \in BOOLEAN, v \in vs}
Struct(fs) == [k |-> "struct", fields |-> fs]
PickEntry ==
    \/ \E a \in EntryFields({"A"}, EntryValues), b \in EntryFields({"B"}, {VL!Scalar(3)}), v \in EntryValues :
          /\ VL!jsonKey(a) # VL!jsonKey(b)
          /\ sample' = [kind |-> "entry", before |-> Struct(<<a, b>>), after |-> Struct(<<[a EXCEPT !.v = v], b>>)]
    \/ \E v \in EntryValues : sample' = [kind |-> "entry", before |-> v, after |-> v]
    \/ \E person \in 0..1, mark \in {{}} \cup {{VL!SystemMark(j, a)} : j \in {"", "job"}, a \in BOOLEAN}, all \in BOOLEAN,
          c, o \in SUBSET {<<"actor", "x">>, <<"note", "y">>} :
          sample' = [kind |-> "actor", person |-> person, mark |-> mark, all |-> all, ctx |-> c, own |-> o]

PickSearch ==
    \/ \E cols \in SUBSET {"c", "d"}, c \in Upto({"a", "%", "_"}, 2), d \in {<<>>, <<"\\", "a">>}, term \in Upto({"a", "%", "\\", "_", " "}, 3) :
          sample' = [kind |-> "search", row |-> [x \in {"c", "d"} |-> IF x = "c" THEN c ELSE d], columns |-> cols, term |-> term]
    \/ \E name \in {"", "local"}, engine \in {"", "mysql", "sqlite", "other"},
          given \in SUBSET {"host", "port", "database", "username", "password"}, open \in 0..1 :
          sample' = [kind |-> "config", cfg |-> [name |-> name, driver |-> engine, given |-> given, idle |-> open, open |-> open, charset |-> ""]]

(* A stored audit entry shows nothing sensitive and everything else (a field   *)
(* tagged audit:"-" inside a list is out of the claim, see EntryTells), names   *)
(* only real changes and names who acted; a search over columns finds what    *)
(* was typed; a config that is accepted can be opened.                         *)
EntriesTell ==
    /\ sample.kind = "entry" => VL!EntryTells(sample.before, sample.after)
    /\ sample.kind = "actor" => VL!ActorKnown(sample.person, sample.mark, sample.all, sample.ctx, sample.own)
    /\ sample.kind = "search" => VL!SearchFinds(sample.row, sample.columns, sample.term)
    /\ sample.kind = "config" => VL!ConfigOpens(sample.cfg)

-------------------------------------------------------------------------------
(* Notifications: options, messages, settings, quiet hours, push               *)

KindA == MS!Category("a")
KindB == MS!EmailByDefault(MS!Category("b"))
Option(name, values) == {[option |-> name, value |-> v] : v \in values}
GivenOptions ==
    Option("AppURL", {{}, {1}, {2}}) \cup UNION {Option(n, {{}, {1}}) : n \in {"TimeZone", "WithPush"}} \cup Option("Enforce", {{}, {MS!NobodyEnforces}})
    \cup Option("WithOff", {<<"a">>, <<"b", "c">>}) \cup Option("Kind", {KindA, KindB, MS!PushByDefault(KindA), MS!Category("Bad"), MS!systemTest})
PickOptions ==
    \E opts \in Upto(GivenOptions, 3) : \E order \in Permutations(DOMAIN opts) :
        sample' = [kind |-> "options", opts |-> opts, order |-> order]

NoteSizes == [title |-> 3, body |-> 2, link |-> 3]
NoteTexts == Upto({"x", " "}, 5)
NoteLinks == {<<>>, <<" ">>, <<"/">>, <<"/", "/">>, <<"/", "x", " ">>, <<"/", "\\">>, <<"x">>, <<"/", "x", "x", "x">>}
PickNote ==
    \/ \E ids \in Upto(-1..4, 3), except \in {<<>>, <<2>>}, active \in SUBSET {1, 2, 4} :
          sample' = [kind |-> "note", ids |-> ids, except |-> except, active |-> active, title |-> <<"x">>, link |-> <<>>]
    \/ \E title \in NoteTexts, link \in NoteLinks :
          sample' = [kind |-> "note", ids |-> <<1, 2>>, except |-> <<>>, active |-> {1}, title |-> title, link |-> link]

Everyone == {1, 2} \X {"b"} \X {"email", "push"}
Enforcers == {MS!NobodyEnforces} \cup [over : {Everyone, {<<1, "b", "email">>}, {<<2, "b", "push">>}}, answer : {{TRUE}, {FALSE}}]
Installed(email, push, off, enforced) ==
    [kinds |-> <<KindA, KindB, MS!systemTest>>, emailOK |-> email, pushOK |-> push,
     enforce |-> MS!withOff(off, {enforced})]
ChoiceRows == {rows \in SUBSET [user : {1, 2}, category : {"a", "b"}, channel : {"email", "push"}, enabled : BOOLEAN] :
                 Cardinality(rows) <= 2 /\ (\A r \in rows : r.user = 2 => r.category = "a") /\ \A r, s \in rows : MS!sameKey(r, s.user, s.category, s.channel) => r = s}
PickSetting ==
    \E email, push, on \in BOOLEAN, off \in {<<>>, <<"a">>}, enforced \in Enforcers, rows \in ChoiceRows,
      code \in {"a", "b", "system.test"}, by \in {"email", "push"} :
        sample' = [kind |-> "setting", st |-> Installed(email, push, off, enforced), rows |-> rows, code |-> code, channel |-> by, on |-> on]

QuietDay == 6
PickQuiet ==
    \E enabled \in BOOLEAN, start, end \in -1..6, now \in 7..18, shift \in {-1, 0, 1}, change \in {10, 13} :
        sample' = [kind |-> "quiet", q |-> [enabled |-> enabled, start |-> start, end |-> end], now |-> now,
                   zone |-> [change |-> change, shift |-> shift]]

Base64(alphabet, len, is) == [alphabet |-> alphabet, bytes |-> MS!Bytes(len, is)]
PushSubs ==
    [scheme : {"https", "http"}, host : {"", "push"}, len : {1024, 1025}, ip : {"public", "private"},
     p256dh : {Base64("url", 65, "device"), Base64("std", 65, "device"), Base64("no", 65, "device"), Base64("url", 65, "no point")},
     auth : {Base64("url", 16, "secret"), Base64("url", 15, "secret")}]
GoodSub == [scheme |-> "https", host |-> "push", len |-> 10, ip |-> "public", p256dh |-> Base64("url", 65, "device"), auth |-> Base64("std", 16, "secret")]
PickPush ==
    \/ \E n \in 0..(MS!recordSize + 1) : sample' = [kind |-> "payload", n |-> n]
    \/ \E sub \in PushSubs, private \in {Base64("url", 32, "pair"), Base64("url", 32, "other"), Base64("url", 31, "pair")},
          subject \in [https : BOOLEAN, at : BOOLEAN, of : {"me"}], after \in [is : {"", "seconds", "date"}, n : {-1, 3}], n \in {1, 4000} :
          sample' = [kind |-> "push", sub |-> sub, n |-> n, after |-> after,
                     cfg |-> [public |-> Base64("url", 65, "pair"), private |-> private, subject |-> subject]]
    \/ \E made \in Upto([category : {"a"}, channel : {"email", "push"}, status : {"pending", "held"}], 2) :
          \E ends \in [DOMAIN made -> {"sent", "failed", "cancelled", "pending"}] :
              sample' = [kind |-> "counters", made |-> made,
                         ends |-> [i \in DOMAIN made |-> [category |-> made[i].category, channel |-> made[i].channel, status |-> ends[i], reason |-> "gone"]]]

(* The options of Install mean the same in any order and silence what they     *)
(* name; the rows of a Send are for the active people named, within their      *)
(* columns; what the settings screen shows is what Send goes by.               *)
NotesAgree ==
    /\ sample.kind = "options" => MS!OptionsAgree(sample.opts, sample.order, {"a", "b", "system.test"})
    /\ sample.kind = "note" =>
          MS!RowsRight(sample.ids, sample.except, {[id |-> i, active |-> i \in sample.active] : i \in {1, 2, 4}},
                       [i \in 1..3 |-> [title |-> sample.title, body |-> <<" ", "x", "x", "x">>, link |-> sample.link]], NoteSizes, 3)
    /\ sample.kind = "setting" => MS!SettingsAgree(sample.st, sample.rows, 1, {1, 2}, sample.code, sample.channel, sample.on)

(* Quiet hours hold a delivery to the hour they end at on the wall clock; a    *)
(* push message fits its record, and a valid subscription can be sent to;      *)
(* the counters count every end once.                                          *)
PushesRight ==
    /\ sample.kind = "quiet" => MS!ReleasesRight(sample.q, sample.now, sample.zone, QuietDay)
    /\ sample.kind = "payload" => MS!PayloadFits(sample.n, GoodSub, "own")
    /\ sample.kind = "push" => MS!ValidIsSendable(sample.cfg, sample.sub, sample.n, [ttl |-> -1, urgency |-> ""],
                                                  [status |-> 201, retryAfter |-> sample.after], 2)
    /\ sample.kind = "counters" => MS!CountersAgree(<<>>, sample.made, SelectSeq(sample.ends, LAMBDA e : e.status # "pending"))

-------------------------------------------------------------------------------
(* The routes and handlers of the shipped modules                              *)

Handler(admin, prefs, seen) == [admin |-> admin, preferences |-> prefs, reach |-> seen]
Bound(id, wide, ok) ==
    [id |-> id, second |-> id, wide |-> wide, dir |-> IF ok THEN "asc" ELSE "up", body |-> {}, cookie |-> IF ok THEN {"r"} ELSE {},
     from |-> "day", to |-> IF ok THEN "" ELSE "malformed", given |-> ok, object |-> ok,
     letter |-> IF ok THEN "found" ELSE "gone", overLimit |-> ~ok, qualifier |-> IF ok THEN "own" ELSE "none"]
Callers == {IP!SignedIn([account |-> 1, session |-> 7], "t"), IP!KeyCaller(1), IP!KeyCaller(2), IP!Unknown}
PickRoute ==
    \/ \E admin, prefs \in BOOLEAN : sample' = [kind |-> "tables", h |-> Handler(admin, prefs, [p \in Range(HD!Users) |-> {1}])]
    \/ \E r \in HD!Surface, c \in Callers, holds, wide, ok \in BOOLEAN, id \in 0..2, seen \in [Range(HD!Users) -> {{1}, {1, 2}}] \cup {[p \in Range(HD!Users) |-> {}]} :
          sample' = [kind |-> "handler", r |-> r, c |-> c, holds |-> holds, in |-> Bound(id, wide, ok), h |-> Handler(TRUE, TRUE, seen)]
Paths == {Append(IP!base, n) : n \in {"login", "refresh", "login-as"}} \cup {IP!base \o <<"login-as", "return">>}
PickRequest ==
    \/ \E served \in {<<>>, <<"api">>, IP!base}, opened \in Paths, name \in {"", "s"}, at \in {<<>>, <<"all">>} :
          sample' = [kind |-> "cookies", served |-> served, opened |-> opened,
                     settings |-> [Access |-> name, Refresh |-> IF name = "" THEN "" ELSE "r", AccessPath |-> at, RefreshPath |-> at, Domain |-> "d"]]
    \/ \E key, bearer, cookie \in {{}, {"a"}, {"x"}}, method \in {"GET", "POST"}, hasKeys, made, within, trail \in BOOLEAN :
          sample' = [kind |-> "request", req |-> [key |-> key, bearer |-> bearer, cookie |-> cookie, method |-> method],
                     app |-> [hasKeys |-> hasKeys, keys |-> ("a" :> 1), sessions |-> ("a" :> [account |-> 1, session |-> 7]),
                              makesUser |-> made, withinLimit |-> within, trail |-> trail]]

(* The tables of the shipped modules mount together, and their handlers keep   *)
(* to the caller and to the people the caller may reach.                       *)
SurfaceAgrees ==
    /\ sample.kind = "tables" => HD!TablesMount(sample.h, IP!Unknown, Bound(1, FALSE, TRUE))
    /\ sample.kind = "handler" /\ HD!letsOn(sample.r, sample.c, sample.holds) =>
          HD!HandlersKeepTo(sample.r, sample.h, sample.c, sample.in) /\ HD!OwnSessionKept(sample.r, sample.h, sample.c, sample.in)

(* A request is one caller by one credential, and the session's cookies go     *)
(* where the session is renewed and leave with it.                             *)
CallersAgree ==
    /\ sample.kind = "cookies" => IP!CookiesAgree(sample.settings, sample.served, sample.opened)
    /\ sample.kind = "request" => IP!OneCredential(sample.req, sample.app)

-------------------------------------------------------------------------------
(* Money                                                                       *)

Amount(c) == VL!New(c, "EUR")
PickMoney ==
    \/ \E c \in VL!MinInt..VL!MaxInt, weights \in Upto(-1..3, 3) :
          /\ c \in -13..13 \/ c \in {VL!MinInt, VL!MaxInt}
          /\ sample' = [kind |-> "split", amount |-> Amount(c), weights |-> weights]
    \/ \E c \in (-11..11) \cup {VL!MinInt, VL!MaxInt}, r \in {-21, -20, -3, 0, 1, 3, 7, 40}, num \in -2..3, den \in -3..3, step \in 1..3 :
          sample' = [kind |-> "rounding", amount |-> Amount(c), r |-> r, num |-> num, den |-> den, step |-> step]
    \/ \E ms \in Upto([cents : {VL!MinInt, -65, -1, 0, 1, 63, VL!MaxInt}, currency : {"", "EUR", "BAM"}], 2) : sample' = [kind |-> "sum", ms |-> ms]
    \/ \E cs \in [1..3 -> {-127, -2, 0, 3, 127}] : sample' = [kind |-> "sum", ms |-> [i \in 1..3 |-> Amount(cs[i])]]
    \/ \E text \in Upto({-4, -3, -2, -1, 0, 7}, 4) : sample' = [kind |-> "text", text |-> text, cents |-> 0]
    \/ \E c \in VL!MinInt..VL!MaxInt : sample' = [kind |-> "text", text |-> <<>>, cents |-> c]

(* Splits, roundings, sums and texts of money are exact.                       *)
MoneyExact ==
    /\ sample.kind = "split" => VL!SplitExact(sample.amount, sample.weights)
    /\ sample.kind = "rounding" => VL!RoundsOnce(sample.amount, sample.r, sample.num, sample.den, sample.step)
    /\ sample.kind = "sum" => VL!SumsRight(sample.ms)
    /\ sample.kind = "text" => VL!TextRight(sample.text, sample.cents)

-------------------------------------------------------------------------------
(* Lists and their pages                                                       *)

ListRow(i, name, note) == [id |-> i, name |-> name, note |-> note, at |-> i % 2, by |-> i - 1]
ListTables ==
    {{ListRow(i, {<<"a">>}, {}) : i \in 1..n} : n \in 0..5}
    \cup {{ListRow(1, name, note), ListRow(2, note, name), ListRow(3, {<<"a">>}, {})} : name, note \in {{}, {<<"a">>}, {<<"b">>}, {<<"a", "b">>}}}
SearchFields ==
    {<<>>, <<[kind |-> "plain", cols |-> <<"name">>, sep |-> <<>>]>>,
     <<[kind |-> "plain", cols |-> <<"note">>, sep |-> <<>>], [kind |-> "concat", cols |-> <<"name", "note">>, sep |-> <<>>]>>,
     <<[kind |-> "plain", cols |-> <<"note">>, sep |-> <<>>], [kind |-> "concatws", cols |-> <<>>, sep |-> <<"-">>]>>,
     <<[kind |-> "concatws", cols |-> <<"name", "note">>, sep |-> <<"-">>]>>}
TheTable(table, fields) ==
    [table |-> table, columns |-> {"id", "at"}, aliases |-> ("day" :> "at"), fields |-> fields, order |-> <<"id", "desc">>,
     filters |-> <<[URIKey |-> "kind", keeps |-> [v \in {"1", "2"} |-> IF v = "1" THEN {1, 2, 3} ELSE {2}]]>>,
     views |-> <<[URIKey |-> "mine", keeps |-> {1, 3}], [URIKey |-> "mine", keeps |-> {2}]>>]
PickListing ==
    \/ \E keys \in SUBSET {"page", "per_page", "length", "order_col", "order_column", "kind"} :
          Cardinality(keys) <= 3 /\ \E values \in [keys -> {<<>>, <<"1">>, <<"9", "2">>, <<"huge">>}] : sample' = [kind |-> "query", query |-> values]
    \/ \E table \in ListTables, fields \in SearchFields, size \in 0..4, words \in {{}, {<<"a">>}, {<<"a">>, <<"b">>}},
          asked \in {<<"", "", "", <<>>>>, <<"day", "asc", "mine", <<>>>>, <<"day", "", "", ("kind" :> "1")>>,
                    <<"name", "asc", "mine", ("kind" :> "2")>>, <<"id", "up", "x", ("kind" :> "")>>},
          ties \in {[n \in 1..6 |-> "asc"], [n \in 1..6 |-> IF n % 2 = 1 THEN "asc" ELSE "desc"]} :
          sample' = [kind |-> "listing", d |-> TheTable(table, fields), words |-> words, ties |-> ties,
                     p |-> [LS!DefaultParams EXCEPT !.PerPage = size, !.OrderCol = asked[1], !.OrderDir = asked[2], !.View = asked[3], !.Filters = asked[4]]]
    \/ \E meta \in SUBSET {"total", "views", "authors"}, views \in {<<>>, <<"all">>} :
          sample' = [kind |-> "answer", result |-> [Meta |-> [k \in meta |-> <<"own", k>>], Views |-> views]]
    \/ \E y \in 2023..2025, m \in 1..12, day \in {1, 2, 15, 28, 29, 30, 31} :
          day <= LS!daysIn(y, m) /\ sample' = [kind |-> "ranges", now |-> [y |-> y, m |-> m, d |-> day]]

(* A query is read the same by both readers; the pages of a list are its rows  *)
(* as far as their order is told (PagesCover); a page is answered the same     *)
(* both ways; a named range is its days.                                       *)
ListingAgrees ==
    /\ sample.kind = "query" => LS!ReadersAgree(sample.query)
    /\ sample.kind = "listing" => LS!PagesCover(sample.d, sample.p, sample.words, sample.ties)
    /\ sample.kind = "answer" => LS!AnswersAgree(sample.result)
    /\ sample.kind = "ranges" => LS!RangesRight(sample.now)

-------------------------------------------------------------------------------
(* Disks, folders and the names of files                                       *)

Segments == {"", ".", "..", "a", "b", "a\\b"}
ShortKeys == UNION {[1..n -> Segments] : n \in 1..2}
PickDisk ==
    \/ \E keptBy \in {"local", "memory"}, outer \in ShortKeys, inner \in {<<"a">>, <<".">>, <<"b">>}, key \in ShortKeys :
          sample' = [kind |-> "disk folder", driver |-> keptBy, outer |-> outer, inner |-> inner, key |-> key]
    \/ \E name \in {"", " a", "a"},
          first \in Upto({"local", "no root", "memory", "none", "media", "cdn", "bad base"}, 2), second \in {<<>>, <<"memory">>, <<"local", "cdn">>} :
          sample' = [kind |-> "disk", name |-> name, first |-> first, second |-> second]
    \/ \E name \in Upto({"a", "A", ".", "-", " ", "/", "\\", "n", "e"}, 4) : sample' = [kind |-> "name", name |-> name]

(* A folder keeps to itself, a disk is what was described, a name is safe.     *)
FilesNamed ==
    /\ sample.kind = "disk folder" =>
          IP!FoldersKeep(sample.driver, sample.outer, sample.inner, sample.key,
                         {<<"a">>, <<"b">>, <<"a", "b">>, <<"a", "a", "b">>, <<"b", "a", "a">>})
    /\ sample.kind = "disk" => IP!DisksAsDescribed(sample.name, sample.first, sample.second)
    /\ sample.kind = "name" => IP!NamesSafe(sample.name)

-------------------------------------------------------------------------------
(* Bodies, uploads and served files                                            *)

UploadParts == [form : {"file", "other"}, file : {"", "x.doc"}, size : {0, 2, 3, 5, 6, 7}, type : {"image/png", "application/pdf", "application/zip"}, ext : {".doc"}]
PickTransfer ==
    \/ \E multipart \in BOOLEAN, size \in 0..4, limit \in (-1)..3, own \in {{}} \cup {{l} : l \in (-1)..3} :
          sample' = [kind |-> "body", req |-> [multipart |-> multipart, size |-> size], limit |-> limit, own |-> own]
    \/ \E multipart \in BOOLEAN, n \in 1..2 : \E parts \in [1..n -> UploadParts], max \in {0, 2}, allowed \in {{}, {"application/pdf"}}, photo \in BOOLEAN, dir \in {"", "/base"} :
          /\ (n = 2 => multipart /\ ~photo /\ dir # "" /\ parts[1].type = "image/png")
          /\ sample' = [kind |-> "upload", req |-> [multipart |-> multipart, parts |-> parts],
                        config |-> [MaxSize |-> max, AllowedMime |-> allowed, IsPhoto |-> photo, BaseDir |-> dir]]
    \/ \E opener, seeks, broken \in BOOLEAN, keys \in SUBSET {"a"} :
          sample' = [kind |-> "serve", disk |-> [opener |-> opener, seeks |-> seeks, broken |-> broken, keys |-> keys]]

(* A body is read under its own limit, an upload is checked one way, a file is *)
(* served when it is there.                                                    *)
TransfersAgree ==
    /\ sample.kind = "body" => IP!RouteLimitWins(sample.req, sample.limit, sample.own)
    /\ sample.kind = "upload" => IP!UploadsAgree(sample.req, sample.config)
    /\ sample.kind = "serve" => IP!ServesWhatIsThere(sample.disk, "a")

-------------------------------------------------------------------------------
(* Mail                                                                        *)

MailPart(cid) == [cid |-> cid, type |-> "image/png", data |-> TRUE]
Messages == [to : {<<>>, <<"ana">>, <<"ana", "ivo">>, <<"ana", "bad">>}, replyTo : {<<>>, <<"ivo">>}, subject : {"one line", "two lines"},
             text : {<<>>, <<"t">>}, html : {<<>>, <<"h">>}, inline : {<<>>, <<MailPart("logo")>>, <<MailPart("logo"), MailPart("photo")>>, <<MailPart("logo"), MailPart("logo")>>}]
Relays == [fails : {"", "reach", "tls", "auth", "mail", "data", "accept", "reply", "quit"}, starttls : BOOLEAN,
           rcpt : [{"ana", "ivo", "dev"} -> {250, 450, 550}]]
Plain == [to |-> <<"ana", "ivo">>, replyTo |-> <<>>, subject |-> "one line", text |-> <<"t">>, html |-> <<>>, inline |-> <<>>]
MailFolders == {<<"en">>, <<"pt">>, <<"pt", "BR">>}
PickMail ==
    \/ \E m \in Messages : sample' = [kind |-> "message", m |-> m]
    \/ \E host \in {"", "relay"}, from \in {"app", "bad"}, username, implicit \in BOOLEAN, relay \in Relays, to \in {<<"ana">>, <<"ana", "ivo">>, <<"bad">>} :
          /\ relay.rcpt["dev"] = 250
          /\ sample' = [kind |-> "mail", relay |-> relay, m |-> [Plain EXCEPT !.to = to],
                        cfg |-> [host |-> host, from |-> from, username |-> username, implicit |-> implicit]]
    \/ \E host \in {"", "relay"}, redirect \in {"", "dev", "bad"}, live \in BOOLEAN, environment \in {"production", "staging"},
          relay \in [fails : {"", "reply", "quit"}, starttls : {TRUE}, rcpt : [{"ana", "ivo", "dev"} -> {250, 550}]], to \in {<<>>, <<"ana", "ivo">>, <<"bad">>, <<"line break">>} :
          sample' = [kind |-> "mail env", relay |-> relay, m |-> [Plain EXCEPT !.to = to],
                     vars |-> [redirect |-> redirect, live |-> live, environment |-> environment,
                               cfg |-> [host |-> host, from |-> "app", username |-> TRUE, implicit |-> FALSE]]]
    \/ \E subject, texts \in SUBSET MailFolders, locale \in {<<>>, <<"en">>, <<"pt">>, <<"pt", "BR">>, <<"de">>}, own \in BOOLEAN :
          sample' = [kind |-> "mail text", locale |-> locale, defaults |-> [subject |-> {<<"en">>}, text |-> {<<"en">>}, html |-> {}],
                     files |-> [subject |-> subject, text |-> texts, html |-> IF own THEN MailFolders ELSE {}]]
    \/ \E name, brandGreeting, footer, preview, pageGreeting, note, label, url, value \in BOOLEAN, logo \in BOOLEAN :
          LET word(is, w) == IF is THEN w ELSE "" IN
          sample' = [kind |-> "brand", b |-> [name |-> word(name, "name"), logo |-> logo, greeting |-> word(brandGreeting, "hello"), footer |-> word(footer, "footer")],
                     page |-> [preview |-> word(preview, "preview"), greeting |-> word(pageGreeting, "dear"), paragraphs |-> <<"p1", "p2">>, note |-> word(note, "note"),
                               rows |-> <<<<"l1", word(value, "v1")>>, <<"l2", "v2">>>>, label |-> word(label, "open"), url |-> word(url, "url")]]

(* A mail reaches all its recipients or none and says so; only the address set *)
(* for it is reached outside production; its parts, language and words fit.    *)
MailTells ==
    /\ sample.kind = "message" => MS!PartsFound(sample.m)
    /\ sample.kind = "mail" => MS!SendsTell(sample.cfg, sample.relay, sample.m)
    /\ sample.kind = "mail env" => MS!RedirectHolds(sample.vars, sample.relay, sample.m)
    /\ sample.kind = "mail text" => MS!NearestText(sample.files, sample.defaults, sample.locale)
    /\ sample.kind = "brand" => MS!SameWords(sample.b, sample.page)

-------------------------------------------------------------------------------
(* Variables, translations and the menu                                        *)

TextTrees == {[leaf |-> TRUE, text |-> <<"hi">>, keys |-> <<>>], [leaf |-> FALSE, text |-> <<>>, keys |-> ("a" :> [leaf |-> TRUE, text |-> <<"hi">>, keys |-> <<>>])],
              [leaf |-> FALSE, text |-> <<>>, keys |-> ("a" :> [leaf |-> FALSE, text |-> <<>>, keys |-> ("b" :> [leaf |-> TRUE, text |-> <<"hello">>, keys |-> <<>>])])]}
MenuNode(permissions, gate, requires, href, children) ==
    [permissions |-> permissions, gate |-> gate, requires |-> requires, route |-> "", href |-> href, children |-> children]
MenuLeaves == {MenuNode(p, g, r, h, <<>>) : p \in SUBSET {"p"}, g \in SUBSET {"q"}, r \in SUBSET {"q"}, h \in {"", "/path", "//host"}}
MenuGroups == {MenuNode(p, {}, r, "", <<leaf, other>>) : p \in SUBSET {"p", "q"}, r \in SUBSET {"p"}, leaf \in MenuLeaves, other \in {MenuNode({"p"}, {}, {}, "", <<>>), MenuNode({"q"}, {}, {}, "", <<>>)}}
PickSettings ==
    \/ \E env \in [{"A", "B"} -> {"", "1", "5", "true", "5m"}], reads \in Upto({"required", "string", "int", "bool", "duration"} \X {"A", "B", "C"}, 2) :
          sample' = [kind |-> "env", vars |-> env, calls |-> reads]
    \/ \E langs \in SUBSET {"en", "hr"} : \E texts \in [langs -> [parses : BOOLEAN, data : TextTrees]], key \in {<<"a">>, <<"a", "b">>}, lang \in {"en", "hr", "de"} :
          sample' = [kind |-> "texts", files |-> texts, key |-> key, lang |-> lang]
    \/ \E group \in MenuGroups, outer \in BOOLEAN, held \in SUBSET {"p", "q"} :
          sample' = [kind |-> "menu", held |-> held, nodes |-> IF outer THEN <<MenuNode({}, {}, {}, "", <<group>>)>> ELSE <<MenuNode({}, {}, {"q"}, "", <<>>), group>>]
    \/ \E items \in Upto(Upto({"a", " "}, 2), 2) : sample' = [kind |-> "items", items |-> items]

(* Every wrong variable is told, a text is found in the nearest language, and  *)
(* the menu is the ways to what a person may open.                             *)
SettingsRight ==
    /\ sample.kind = "env" => DC!ProblemsTold(sample.vars, sample.calls)
    /\ sample.kind = "texts" => DC!TextsFound({<<"en", <<"a">>, <<"old">>>>}, sample.files, sample.key, sample.lang, "en")
    /\ sample.kind = "menu" => DC!MenuReaches(sample.nodes, sample.held)
    /\ sample.kind = "items" => \A i \in DOMAIN DC!List(sample.items) : DC!List(sample.items)[i] # <<>> /\ DC!List(DC!List(sample.items)) = DC!List(sample.items)

-------------------------------------------------------------------------------
-------------------------------------------------------------------------------
(* Characteristics and the catalogue of permissions                            *)

TreeField(c, type, null, readOnly, under) ==
    [column |-> c, label |-> "l", type |-> type, null |-> null, readOnly |-> readOnly, under |-> under,
     choices |-> IF type = "choice" THEN <<"a", "b">> ELSE <<>>]
FieldsOnX == {TreeField("x", type, null, ro, <<>>) : type \in {"text", "number", "yesno", "choice"}, null, ro \in BOOLEAN}
FieldsOnY == {TreeField("y", "choice", null, FALSE, <<1, 5>>) : null \in BOOLEAN}
RawValues == {DC!Null, DC!Text(""), DC!Text("a"), DC!Text("long"), DC!Number("0"), DC!Number("2"), DC!Bool("0"), DC!Bool("1")}
PickValues ==
    \E f \in FieldsOnX, g \in FieldsOnY, path \in {<<5>>, <<6>>}, columns \in SUBSET {"x", "y", "z"} : \E given \in [columns -> RawValues] :
        /\ "z" \in columns => given["z"] = DC!Text("a")
        /\ sample' = [kind |-> "values", level |-> [DC!DefaultLevel(2, "t", "p", <<>>) EXCEPT !.fields = <<f, g>>], path |-> path, given |-> given]
PickTranslations ==
    \E stored, named \in SUBSET {"hr", "en", "xx"} : \E object \in [stored -> {"", "a"}], given \in [named -> {"", "b", "long"}] :
        sample' = [kind |-> "translations", object |-> object, given |-> given]
TreeRows(ids, parents) == {[id |-> i, parent |-> p] : i \in ids, p \in parents}
PickTree ==
    \E a \in Upto(TreeRows({1, 2}, {0}), 2), b \in Upto(TreeRows({3, 4}, {1, 2, 9}), 2), c \in Upto(TreeRows({5}, {3, 4, 9}), 1) :
        /\ \A s \in {a, b, c} : \A i, j \in DOMAIN s : s[i].id = s[j].id => i = j
        /\ sample' = [kind |-> "tree", tree |-> <<a, b, c>>]

(* What is read of an item can be posted back, a translation is kept, a list   *)
(* is the tree (characteristics Service.fill, Store.Create, item, mergeJSON,    *)
(* flatten).                                                                   *)
ItemsComeBack ==
    /\ sample.kind = "values" => DC!PostedBackKept(sample.level, sample.path, sample.given)
    /\ sample.kind = "translations" => DC!TranslationsKept({"hr", "en"}, sample.object, sample.given)
    /\ sample.kind = "tree" => DC!FlatIsTree(sample.tree)

Permission(id, requires) ==
    [id |-> id, requires |-> requires, identifier |-> [colons |-> 1, verbIsWord |-> TRUE, segments |-> <<TRUE>>],
     ownable |-> FALSE, unownedIsOwn |-> FALSE, feature |-> "", featureIsWord |-> TRUE, attrs |-> <<>>]
PickCatalogue ==
    \E order \in Permutations({"a", "b", "c"}) :
        \E needs \in [{"a", "b", "c"} -> {<<>>, <<"a">>, <<"b">>, <<"c">>, <<"a", "b">>, <<"b", "c">>, <<"c", "a">>, <<"gone">>, <<"A B">>}] :
            sample' = [kind |-> "catalogue", defined |-> [i \in 1..3 |-> LET id == order[<<"a", "b", "c">>[i]] IN Permission(id, needs[id])]]
CatalogueOf(permissions) ==
    FoldLeft(DC!Define, [order |-> <<>>, requires |-> [x \in {} |-> <<>>], frozen |-> FALSE], permissions)

(* A catalogue is frozen when it is sound, and then it stays (Define,          *)
(* Validate, Freeze).                                                          *)
CatalogueFrozen == sample.kind = "catalogue" => DC!FrozenIsSound(CatalogueOf(sample.defined), Permission("new", <<>>))

FnNext ==
    \/ sample = NoSample("values") /\ (PickPage \/ PickList \/ PickHistory \/ PickAreas \/ PickMerge \/ PickInput \/ PickShape
                                   \/ PickTypes \/ PickFolder \/ PickColumn \/ PickEntry \/ PickSearch \/ PickMoney
                                   \/ PickValues \/ PickTranslations \/ PickTree \/ PickCatalogue)
    \/ sample = NoSample("calls") /\ (PickOptions \/ PickNote \/ PickSetting \/ PickQuiet \/ PickPush \/ PickRoute \/ PickRequest
                                  \/ PickListing \/ PickDisk \/ PickTransfer \/ PickMail \/ PickSettings)
FnSpec == FnInit /\ [][FnNext]_sample

-------------------------------------------------------------------------------
(* What is checked: the comparisons above, by what they are about.             *)

(* The browser's schema, the binding of a request and its validation agree on  *)
(* what a form holds, and each value goes to the field that declares it        *)
(* (schema generation, validation rules, binders.BindJSON, BindQuery).         *)
FormsAgree == InputsAgree /\ KeysFindFields

(* The generated files import only each other and are told to be stale exactly *)
(* when generating would change them; preferences merge as RFC 7396 says       *)
(* (go2ts Sync, Drift; preferences MergePatch).                                *)
FilesGenerated == GeneratedAgrees /\ MergesRight

(* The pages of a list are its rows in order, each once where rows that tie    *)
(* keep one order, and what a view shows is what it counts (datatable,         *)
(* pagination, the users administration).                                      *)
ListsAgree == Pages /\ ViewsAgree /\ ListingAgrees

(* A value written to a column, sent as JSON, posted back, split, rounded or   *)
(* printed comes back as it was (database types, money, characteristics).      *)
ValuesComeBack == ColumnsComeBack /\ MoneyExact /\ ItemsComeBack

(* An audit entry names what changed and nothing under a sensitive key or a    *)
(* hidden field outside a list; every wrong variable is told, and so is every  *)
(* unsound catalogue of permissions; a text is found and a menu shows what may *)
(* be opened (audit entries, env.Load, i18n, navigation, Catalogue.Freeze).    *)
RecordsTell == EntriesTell /\ SettingsRight /\ CatalogueFrozen

(* A notification, a push and a mail reach whom they are for, when they may,   *)
(* in one piece (notification Send, quiet hours, webpush, mail).               *)
MessagesTell == NotesAgree /\ PushesRight /\ MailTells

(* The shipped modules' routes mount together, a request is one caller, and a  *)
(* handler keeps to what that caller may reach (identity, audit and            *)
(* notification handlers, sessions and tokens).                                *)
RequestsAnswered == SurfaceAgrees /\ CallersAgree

(* A key stays in its folder, a disk is what was described, and an upload is   *)
(* read under its limit and served while it is there (storage, web).           *)
FilesServed == FilesNamed /\ TransfersAgree

-----------------------------------------------------------------------------
(* The scenes.                                                               *)

MessagingInit ==
    /\ scene \in {"leases", "letters", "audit", "files", "functions"}
    /\ Init /\ Letters!Init /\ AuditInit /\ FilesInit /\ FnInit
    /\ scene # "files" => driver = "local"
    /\ scene # "functions" => sample = NoSample("values")

LeaseStep == scene = "leases" /\ Next /\ UNCHANGED <<scene, letterVars, auditVars, fileVars, sample>>
LetterStep == scene = "letters" /\ Letters!Next /\ UNCHANGED <<scene, vars, auditVars, fileVars, sample>>
AuditStep == scene = "audit" /\ AuditNext /\ UNCHANGED <<scene, vars, letterVars, fileVars, sample>>
FileStep == scene = "files" /\ FilesNext /\ UNCHANGED <<scene, vars, letterVars, auditVars, sample>>
FunctionStep == scene = "functions" /\ FnNext /\ UNCHANGED <<scene, vars, letterVars, auditVars, fileVars>>

MessagingNext == LeaseStep \/ LetterStep \/ AuditStep \/ FileStep \/ FunctionStep
MessagingSpec == MessagingInit /\ [][MessagingNext]_<<scene, vars, letterVars, auditVars, fileVars, sample>>

\* The leases alone, for handlers that outlive theirs.
LeaseSpec == scene = "leases" /\ MessagingSpec
Symmetry == Permutations(Instances)
MessagingSymmetry == Symmetry \cup Permutations(LetterConsumers)

-----------------------------------------------------------------------------
\* A processed event was finished by every consumer, and one they all finished is processed,
\* whichever finish together; a pruned one was handled or expired,
\* and a dead letter ends only by a retry or by being deleted: no late outcome, retry or
\* sweep loses a delivery (queue.go finish, deadletter.go Retry, housekeeping.go).
LettersHandled ==
    /\ [](Letters!ProcessedMeansFinished /\ Letters!FinishedMeansProcessed /\ Letters!PrunedMeansHandled)
    /\ Letters!LettersEndOnlyByRetryOrExpiry
=============================================================================
