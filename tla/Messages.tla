------------------------------- MODULE Messages -------------------------------
(***************************************************************************)
(* What people are told and how it is put: notifications, web push         *)
(* messages and mail, without the state of their deliveries.               *)
(***************************************************************************)
EXTENDS Integers, Sequences, FiniteSets, SequencesExt, FiniteSetsExt, Functions

-------------------------------------------------------------------------------
(***************************************************************************)
(* The rules of the notification module that keep no state of their own:   *)
(* the options Install is given, who a notification is for and what they   *)
(* read, the settings of a person and their quiet hours, the wording of a  *)
(* bundle, and what a web push message needs.  Texts are sequences of      *)
(* characters only where a rule is about their length or their characters. *)
(***************************************************************************)

-----------------------------------------------------------------------------
(* Categories and options                                                  *)

\* Kind: what Category, EmailByDefault, PushByDefault and HighPriority build.
Category(code) == [code |-> code, email |-> FALSE, push |-> FALSE, high |-> FALSE, internal |-> FALSE]
EmailByDefault(k) == [k EXCEPT !.email = TRUE]
PushByDefault(k) == [k EXCEPT !.push = TRUE]
systemTest == [Category("system.test") EXCEPT !.internal = TRUE]

\* config: the options of Install, each {} until it is given.
config ==
  [appURL |-> {}, appURLSet |-> FALSE, location |-> {}, enforce |-> {}, push |-> {}, bundleText |-> {},
   testText |-> {}, kinds |-> <<>>, off |-> <<>>, problems |-> <<>>]
problem(c, what) == [c EXCEPT !.problems = Append(@, what)]

\* An option given no value, or given twice, is a problem; else it is kept.
once(c, field, o) ==
  IF o.value = {} THEN problem(c, "no value") ELSE
  IF c[field] # {} THEN problem(c, "twice") ELSE [c EXCEPT ![field] = o.value]
TimeZone(c, o) == once(c, "location", o)
Enforce(c, o) == once(c, "enforce", o)
PushBundleText(c, o) == once(c, "bundleText", o)
TestMessage(c, o) == once(c, "testText", o)
WithPush(c, o) == IF c.push # {} THEN problem(c, "twice") ELSE once(c, "push", o)
\* AppURL: an address that is no origin is a problem, and counts as given.
AppURL(c, o) ==
  IF c.appURLSet THEN problem(c, "twice")
  ELSE [IF o.value = {} THEN problem(c, "no origin") ELSE [c EXCEPT !.appURL = o.value] EXCEPT !.appURLSet = TRUE]
WithOff(c, o) == [c EXCEPT !.off = @ \o o.value]
apply(c, o) ==
  CASE o.option = "AppURL" -> AppURL(c, o)
    [] o.option = "TimeZone" -> TimeZone(c, o)
    [] o.option = "Enforce" -> Enforce(c, o)
    [] o.option = "WithPush" -> WithPush(c, o)
    [] o.option = "PushBundleText" -> PushBundleText(c, o)
    [] o.option = "TestMessage" -> TestMessage(c, o)
    [] o.option = "WithOff" -> WithOff(c, o)
    [] o.option = "Kind" -> [c EXCEPT !.kinds = Append(@, o.value)]

\* kindProblems: wellFormed is what the pattern and the length accept.
kindProblems(kinds, wellFormed) ==
  SelectSeq([i \in DOMAIN kinds |->
    IF kinds[i].code \notin wellFormed THEN "bad code"
      ELSE IF kinds[i].code = systemTest.code THEN "own code"
      ELSE IF \E j \in 1..(i - 1) : kinds[j].code = kinds[i].code THEN "registered twice"
      ELSE ""], LAMBDA p : p # "")
offProblems(off, kinds) ==
  SelectSeq([i \in DOMAIN off |-> IF \E k \in Range(kinds) : k.code = off[i] THEN "" ELSE "no such category"], LAMBDA p : p # "")

\* An Enforcer answers, of a person, category and channel, {} (not enforced) or {on}.
NobodyEnforces == [over |-> {}, answer |-> {}]
withOff(off, next) == [off |-> Range(off), next |-> next]
asked(enforcer, person, kind, channel) ==
  IF kind.code \in enforcer.off THEN {FALSE}
  ELSE UNION {IF <<person, kind.code, channel>> \in e.over THEN e.answer ELSE {} : e \in enforcer.next}

collect(opts, wellFormed) ==
  LET c == FoldLeft(apply, config, opts)
  IN [c EXCEPT !.problems = @ \o kindProblems(c.kinds, wellFormed) \o offProblems(c.off, c.kinds)]

\* Install: nothing is built when there are problems; mail without AppURL is
\* one more, reported beside what is built.
Install(opts, wellFormed, mail) ==
  LET c == collect(opts, wellFormed)
  IN [built |-> c.problems = <<>>,
      failed |-> c.problems # <<>> \/ (mail /\ c.appURL = {}),
      kinds |-> IF c.problems = <<>> THEN Append(c.kinds, systemTest) ELSE <<>>,
      settings |-> [kinds |-> c.kinds \o <<systemTest>>, enforce |-> withOff(c.off, c.enforce), emailOK |-> mail, pushOK |-> c.push # {}],
      workers |-> {"housekeeper"} \cup (IF mail THEN {"delivery"} ELSE {}) \cup (IF c.push # {} THEN {"push"} ELSE {}),
      consumers |-> {"notification.test"} \cup (IF c.push # {} THEN {"notification.device-test"} ELSE {})]
mailOf(users) == users.hasMail /\ users.mail /\ users.sender /\ users.renderer
\* Register: a code already there keeps its category.
Register(kinds, k) == IF \E r \in Range(kinds) : r.code = k.code THEN kinds ELSE Append(kinds, k)

(* The options of Install may come in any order: a list is refused in every *)
(* order or in none, and an accepted list gives one configuration, whose    *)
(* silenced categories are off whoever else is asked (collect, withOff).    *)
OptionsAgree(opts, order, wellFormed) ==
  LET c == collect(opts, wellFormed)
      d == collect([i \in DOMAIN opts |-> opts[order[i]]], wellFormed)
      settled(x) == [[x EXCEPT !.kinds = Range(@)] EXCEPT !.off = Range(@)]
  IN /\ (c.problems = <<>>) <=> (d.problems = <<>>)
     /\ c.problems = <<>> => /\ settled(c) = settled(d)
                             /\ \A i \in DOMAIN c.off : /\ asked(withOff(c.off, c.enforce), 1, Category(c.off[i]), "email") = {FALSE}
                                                        /\ \E k \in Range(c.kinds) : k.code = c.off[i]
                             /\ \A i, j \in DOMAIN c.kinds : c.kinds[i].code = c.kinds[j].code => i = j
                             /\ \A o \in Range(opts) : o.option \notin {"Kind", "WithOff"} => o.value # {}
-----------------------------------------------------------------------------
(* Recipients and messages                                                 *)

\* resolve: valid ids, each once, in order, without the excepted.
resolve(ids, except, maxId) ==
  FoldLeft(LAMBDA out, id : IF id <= 0 \/ id > maxId \/ Contains(out, id) \/ Contains(except, id) THEN out ELSE Append(out, id), <<>>, ids)

blank(ch) == ch \in {" ", "\n", "\r"}
trimLeft(s) == LET at == {i \in DOMAIN s : ~blank(s[i])}
               IN IF at = {} THEN <<>> ELSE SubSeq(s, CHOOSE i \in at : \A j \in at : i <= j, Len(s))
TrimSpace(s) == Reverse(trimLeft(Reverse(trimLeft(s))))
\* truncate: cut to max characters, the last of them an ellipsis.
truncate(s, max) == IF Len(s) <= max THEN s ELSE Append(TrimSpace(SubSeq(s, 1, max - 1)), "...")

IsAppLink(link, max) ==
  \/ link = <<>>
  \/ /\ Len(link) <= max /\ link[1] = "/" /\ ~(Len(link) >= 2 /\ link[2] = "/")
     /\ \A i \in DOMAIN link : link[i] \notin {"\\", "\r", "\n"}
\* finish: {} is ErrInvalidMessage.
finish(m, sizes) ==
  LET title == truncate(TrimSpace(m.title), sizes.title) link == TrimSpace(m.link)
  IN IF title = <<>> \/ ~IsAppLink(link, sizes.link) THEN {}
     ELSE {[title |-> title, link |-> link, body |-> truncate(TrimSpace(m.body), sizes.body)]}

\* checkSend: what refuses a Send before anything is read, in order.
checkSend(call) ==
  IF ~call.installed THEN "not installed"
    ELSE IF ~call.inConsumer \/ call.inTransaction THEN "not in consumer"
    ELSE IF ~call.registered THEN "unknown category"
    ELSE IF ~call.render THEN "invalid message"
    ELSE "ok"
malformed(answer) == answer \in {"unknown category", "invalid message"}

\* render: a row for each recipient who is an active account, or the whole
\* send refused; message is what the application rendered for each.
render(ids, accounts, message, sizes) ==
  LET active == SelectSeq(ids, LAMBDA id : \E a \in accounts : a.id = id /\ a.active)
  IN IF \E i \in DOMAIN active : finish(message[active[i]], sizes) = {} THEN {}
     ELSE {[i \in DOMAIN active |-> [user |-> active[i], msg |-> CHOOSE m \in finish(message[active[i]], sizes) : TRUE]]}

(* What a Send writes is for people it names who are active, one row each   *)
(* and in the order they were named, never for an excepted one, and every   *)
(* row fits its columns, has a title and stays as it is when finished       *)
(* again (Recipients.resolve, Notices.render, finish).                      *)
RowsRight(ids, except, accounts, message, sizes, maxId) ==
  LET kept == resolve(ids, except, maxId)
      made == render(kept, accounts, message, sizes)
  IN \A rows \in made :
       /\ \A i, j \in DOMAIN rows : i < j => \E a, b \in DOMAIN ids : a < b /\ ids[a] = rows[i].user /\ ids[b] = rows[j].user
       /\ {rows[i].user : i \in DOMAIN rows} = {a.id : a \in {x \in accounts : x.active /\ x.id \in Range(ids) \ Range(except) /\ x.id \in 1..maxId}}
       /\ \A i \in DOMAIN rows :
            LET m == rows[i].msg
            IN /\ m.title # <<>> /\ Len(m.title) <= sizes.title /\ Len(m.body) <= sizes.body /\ Len(m.link) <= sizes.link
               /\ ~blank(m.title[1]) /\ ~blank(m.title[Len(m.title)])
               /\ finish(m, sizes) = {m}
-----------------------------------------------------------------------------
(* Settings of a person                                                    *)

\* A stored choice is a row (person, category, channel) with one value.
choicesOf(rows, person, channel) == {r \in rows : r.user = person /\ r.channel = channel}
choicesFor(rows, ids, category, channel) == {r \in rows : r.user \in ids /\ r.category = category /\ r.channel = channel}
sameKey(r, person, category, channel) == r.user = person /\ r.category = category /\ r.channel = channel
clearChoice(rows, person, category, channel) == {r \in rows : ~sameKey(r, person, category, channel)}
setChoice(rows, person, category, channel, on) ==
  clearChoice(rows, person, category, channel) \cup {[user |-> person, category |-> category, channel |-> channel, enabled |-> on]}

defaultOn(k, channel) == IF channel = "push" THEN k.push ELSE k.email
available(st, channel) == IF channel = "push" THEN st.pushOK ELSE st.emailOK
configurable(st, code) == {k \in Range(st.kinds) : k.code = code /\ ~k.internal}

\* resolveSetting: enforced, else chosen, else the default.
Off == [enabled |-> FALSE, source |-> "default"]
resolveSetting(st, kind, person, channel, chosen) ==
  LET own == {r \in chosen : r.category = kind.code} ask == asked(st.enforce, person, kind, channel)
  IN IF ~available(st, channel) \/ kind.internal THEN Off ELSE
     IF ask # {} THEN [enabled |-> TRUE \in ask, source |-> "enforced"] ELSE
     IF own # {} THEN [enabled |-> TRUE \in {r.enabled : r \in own}, source |-> "person"]
     ELSE [enabled |-> defaultOn(kind, channel), source |-> "default"]

\* Get: the categories the settings screen shows, with both settings.
Channels == {"email", "push"}
Get(st, rows, person) ==
  LET shown == SelectSeq(st.kinds, LAMBDA k : ~k.internal)
  IN [i \in DOMAIN shown |->
        [category |-> shown[i].code, at |-> [ch \in Channels |-> resolveSetting(st, shown[i], person, ch, choicesOf(rows, person, ch))]]]
categoryOf(st, rows, person, kind) == [ch \in Channels |-> resolveSetting(st, kind, person, ch, choicesOf(rows, person, ch))]
\* settingsFor: nobody has a setting of a channel the application lacks.
settingsFor(st, rows, kind, ids, channel) ==
  IF ~available(st, channel) \/ kind.internal THEN <<>>
  ELSE [id \in ids |-> resolveSetting(st, kind, id, channel, choicesOf(choicesFor(rows, ids, kind.code, channel), id, channel))]

\* set: the rows afterwards, or the reason it is refused.
Refused(reason) == [refused |-> {reason}, rows |-> {}]
set(st, rows, person, code, channel, on) ==
  LET ks == configurable(st, code)
  IN IF ks = {} THEN Refused("category unknown") ELSE
     IF ~available(st, channel) THEN Refused("unavailable") ELSE
     LET k == CHOOSE x \in ks : TRUE
     IN IF resolveSetting(st, k, person, channel, {}).source = "enforced" THEN Refused("enforced")
        ELSE [refused |-> {}, rows |-> IF on = defaultOn(k, channel) THEN clearChoice(rows, person, code, channel)
                                       ELSE setChoice(rows, person, code, channel, on)]

(* What the settings screen shows of a category is what Send goes by; a     *)
(* setting that was accepted is in force and nobody else's changed; one     *)
(* that is enforced on a person binds them on that channel, whatever they   *)
(* chose before it was, cannot be changed by them, and leaves other people  *)
(* and the other channel free; a choice is stored only where it differs     *)
(* from the default (Get, settingsFor, set, resolve).                       *)
SettingsAgree(st, rows, person, people, code, channel, on) ==
  LET done == set(st, rows, person, code, channel, on)
      shownAt(rs, p) == {s.at : s \in {x \in Range(Get(st, rs, p)) : x.category = code}}
  IN /\ \A k \in configurable(st, code), p \in people :
          LET sent == settingsFor(st, rows, k, people, channel)
          IN /\ \A at \in shownAt(rows, p) : at[channel] = IF p \in DOMAIN sent THEN sent[p] ELSE Off
             /\ shownAt(rows, p) = {categoryOf(st, rows, p, k)}
             /\ p \in DOMAIN sent /\ asked(st.enforce, p, k, channel) # {} => sent[p].enabled = (TRUE \in asked(st.enforce, p, k, channel))
             /\ p = person /\ available(st, channel) => (done.refused # {} <=> asked(st.enforce, p, k, channel) # {})
     /\ done.refused = {} =>
          /\ \A at \in shownAt(done.rows, person) : at[channel].enabled = on
          /\ \A p \in people \ {person} : shownAt(done.rows, p) = shownAt(rows, p)
          /\ \A k \in configurable(st, code), r \in choicesOf(done.rows, person, channel) :
                r.category = code => r.enabled # defaultOn(k, channel)
-----------------------------------------------------------------------------
(* Quiet hours, in a day of n minutes.  The wall clock of instant t is t    *)
(* until the change of the zone's offset and t + shift from it on.          *)

valid(q, n) == q.start \in 0..(n - 1) /\ q.end \in 0..(n - 1) /\ q.start # q.end
contains(q, minute) == IF q.start < q.end THEN minute >= q.start /\ minute < q.end ELSE minute >= q.start \/ minute < q.end
wall(t, zone) == IF t < zone.change THEN t ELSE t + zone.shift
\* time.Date: the instants that show the wall time, or, in the hour that is
\* skipped, the one either offset gives.
Date(w, zone) ==
  LET shows == {t \in {w, w - zone.shift} : wall(t, zone) = w} IN IF shows = {} THEN {w, w - zone.shift} ELSE shows
ReleaseAt(q, now, zone, n) ==
  IF ~q.enabled \/ ~valid(q, n) \/ ~contains(q, wall(now, zone) % n) THEN {now}
  ELSE LET day == (wall(now, zone) \div n) * n
       IN UNION {IF end > now THEN {end} ELSE Date(day + n + q.end, zone) : end \in Date(day + q.end, zone)}

\* The change of the clock skips the minute quiet hours end at.
skipped(q, zone, n) == zone.shift > 0 /\ \E w \in zone.change..(zone.change + zone.shift - 1) : w % n = q.end

(* A delivery waits only in quiet hours, and then to the hour they end at   *)
(* on the wall clock, past a change of the clock too (unless the change     *)
(* skips that hour); on other days that is the first minute that is not     *)
(* quiet (QuietHours.ReleaseAt).                                            *)
ReleasesRight(q, now, zone, n) ==
  LET quiet == q.enabled /\ valid(q, n) /\ contains(q, wall(now, zone) % n)
  IN \A at \in ReleaseAt(q, now, zone, n) :
       /\ ~quiet => at = now
       /\ quiet => at > now /\ (wall(at, zone) % n = q.end \/ skipped(q, zone, n))
       /\ quiet /\ zone.shift = 0 => \A t \in now..(at - 1) : contains(q, t % n)

quietOf(rows, person, default) == IF person \in DOMAIN rows THEN rows[person] ELSE default
saveQuiet(rows, person, q) == [p \in DOMAIN rows \cup {person} |-> IF p = person THEN q ELSE rows[p]]
SetQuietHours(rows, person, q, n) == IF valid(q, n) THEN saveQuiet(rows, person, q) ELSE rows

-------------------------------------------------------------------------------
(***************************************************************************)
(* A web push message: the sizes RFC 8291 and RFC 8188 fix, the keys of    *)
(* the server and of a subscription, what is sent and what the answer      *)
(* says, the counters of what was made and sent, and a bundle's wording.   *)
(* Base64 is [alphabet, bytes]: which alphabet decodes it, and what it     *)
(* decodes to; a point or a key is its length and what it is.              *)
(***************************************************************************)

recordSize == 4096
headerSize == 21 + 65
tagSize == 16
authSize == 16
MaxPayload == recordSize - headerSize - 1 - tagSize
padTo == 128
EndpointMax == 1024

-----------------------------------------------------------------------------
(* Keys                                                                    *)

Bytes(len, is) == [len |-> len, is |-> is]
\* decode: base64url, else standard base64, with or without its padding; {} fails.
decode(v) == IF v.alphabet \in {"url", "std"} THEN {v.bytes} ELSE {}
onCurve(b) == b.len = 65 /\ b.is # "no point"

\* keys: the subscription's public key and secret, {} when unusable.
keys(sub) ==
  {[userKey |-> k, auth |-> a] : k \in {x \in decode(sub.p256dh) : onCurve(x)}, a \in {x \in decode(sub.auth) : x.len = authSize}}
goodEndpoint(sub) == sub.scheme = "https" /\ sub.host # "" /\ sub.len <= EndpointMax
Validate(sub) == goodEndpoint(sub) /\ keys(sub) # {}

\* GenerateKeys: a pair, as base64url.
GenerateKeys(pair) ==
  [public |-> [alphabet |-> "url", bytes |-> Bytes(65, pair)], private |-> [alphabet |-> "url", bytes |-> Bytes(32, pair)]]
\* normalizeSubject: an https URL as it is, an address as mailto:, {} neither.
normalizeSubject(s) ==
  IF s.https THEN {[mailto |-> FALSE, of |-> s.of]} ELSE IF s.at THEN {[mailto |-> TRUE, of |-> s.of]} ELSE {}
\* newSigner: {} is ErrInvalidKeys.
newSigner(cfg) ==
  {[key |-> d.is, public |-> p, subject |-> s] :
     d \in {x \in decode(cfg.private) : x.len = 32},
     p \in {x \in decode(cfg.public) : x.len = 65 /\ \E y \in decode(cfg.private) : y.is = x.is},
     s \in normalizeSubject(cfg.subject)}
NewSender(cfg) == newSigner(cfg)
authorization(signer, sub) ==
  IF sub.scheme = "" \/ sub.host = "" THEN {}
  ELSE {[aud |-> <<sub.scheme, sub.host>>, sub |-> signer.subject, signedBy |-> signer.key, k |-> signer.public]}
-----------------------------------------------------------------------------
(* Encryption and sending                                                  *)

\* Encrypt: the zero bytes after a payload of n bytes.
padding(n) == Min({MaxPayload, ((n + padTo - 1) \div padTo) * padTo}) - n
\* deriveKeys: the key of the message depends on both sides' keys and the salt.
deriveKeys(own, k, salt) == [from |-> {own, k.userKey.is}, auth |-> k.auth.is, salt |-> salt]
encrypt(n, k, own, salt) ==
  [len |-> headerSize + n + 1 + padding(n) + tagSize, keyed |-> deriveKeys(own, k, salt), keyId |-> own]
Encrypt(n, k, own, salt) == IF n > MaxPayload THEN {} ELSE {encrypt(n, k, own, salt)}

\* retryAfter: seconds, a date relative to now, or nothing; never negative.
retryAfter(value, now) ==
  CASE value.is = "seconds" -> Max({value.n, 0})
    [] value.is = "date" -> Max({value.n - now, 0})
    [] OTHER -> 0
\* publicOnlyClient dials only addresses out of these ranges, and follows no redirect.
dialled(ip) == ip \notin {"none", "multicast", "unspecified", "private", "loopback", "link-local"}
urgencyOf(opts) == IF opts.urgency = "" THEN "normal" ELSE opts.urgency
\* Send: what goes out and what comes back, or why nothing is sent.
Send(signer, sub, n, opts, answer, own, salt, now) ==
  IF keys(sub) = {} THEN [err |-> "subscription unusable"]
    ELSE IF n > MaxPayload THEN [err |-> "payload too large"]
    ELSE IF authorization(signer, sub) = {} THEN [err |-> "subscription unusable"]
    ELSE IF ~dialled(sub.ip) THEN [err |-> "send"]
    ELSE [err |-> "", status |-> answer.status, detail |-> answer.status >= 300, retryAfter |-> retryAfter(answer.retryAfter, now),
                 sent |-> [body |-> encrypt(n, CHOOSE k \in keys(sub) : TRUE, own, salt), ttl |-> Max({opts.ttl, 0}), urgency |-> urgencyOf(opts)]]

(* A payload that is accepted fills one record, whatever its length; the    *)
(* length sent tells only which block of padTo bytes it ends in; the device *)
(* derives the key the server used (Encrypt, deriveKeys).                   *)
PayloadFits(n, sub, own) ==
  \A k \in keys(sub) : \A body \in Encrypt(n, k, own, "salt") :
    /\ body.len <= recordSize
    /\ padding(n) >= 0
    /\ \A m \in Encrypt(((n + padTo - 1) \div padTo) * padTo, k, own, "salt") : m.len = body.len
    /\ body.keyed = deriveKeys(k.userKey.is, [userKey |-> Bytes(65, own), auth |-> k.auth], "salt")

(* A subscription registered as valid is never refused as unusable when a   *)
(* push is sent, a generated key pair is accepted and its token verifies    *)
(* with the public key sent along, and waiting is never negative            *)
(* (Subscription.Validate, Sender.Send, GenerateKeys, newSigner).           *)
ValidIsSendable(cfg, sub, n, opts, answer, now) ==
  /\ \A signer \in NewSender(cfg) :
       LET res == Send(signer, sub, n, opts, answer, "own", "salt", now)
       IN /\ Validate(sub) => res.err # "subscription unusable"
          /\ res.err = "" => res.retryAfter >= 0 /\ res.sent.ttl >= 0
          /\ \A token \in authorization(signer, sub) : token.k.is = token.signedBy
  /\ \A s \in normalizeSubject(cfg.subject) : NewSender(GenerateKeys("pair") @@ [subject |-> cfg.subject]) # {}
-----------------------------------------------------------------------------
(* Wording of a bundle                                                     *)

\* slavic: 2 to 4, except 12 to 14.
slavic(count) ==
  IF count % 10 \in 2..4 /\ (count % 100 < 12 \/ count % 100 > 14) THEN "few" ELSE "many"
slovenian(count) == CASE count % 100 = 2 -> "two" [] count % 100 \in {3, 4} -> "few" [] OTHER -> "many"
bundleTitlesShown == 3
\* defaultBundleText: the phrase of the locale and the newest titles.
defaultBundleText(lang, count, titles) ==
  [phrase |-> CASE lang \in {"hr", "bs", "sr"} -> slavic(count) [] lang = "sl" -> slovenian(count) [] OTHER -> "many",
   shown |-> SubSeq(titles, Max({1, Len(titles) - bundleTitlesShown + 1}), Len(titles))]
-----------------------------------------------------------------------------
(* Counters                                                                *)

count(counters, name, labels) == [counters EXCEPT ![name] = Append(@, labels)]
NoCounters == [created |-> <<>>, sent |-> <<>>, failed |-> <<>>, cancelled |-> <<>>, held |-> <<>>]
\* finished: the end of a delivery by its status.
finished(counters, d) ==
  CASE d.status = "sent" -> count(counters, "sent", <<d.category, d.channel>>)
    [] d.status = "failed" -> count(counters, "failed", <<d.category, d.channel, d.reason>>)
    [] d.status = "cancelled" -> count(counters, "cancelled", <<d.category, d.channel>>)
    [] OTHER -> counters
noteDelivery(counters, d) ==
  LET c == count(counters, "created", <<d.category, d.channel>>) IN IF d.status = "held" THEN count(c, "held", <<d.category, d.channel>>) ELSE c
\* noteCreated: the rows and the deliveries a committed Send wrote.
noteCreated(counters, created, made) ==
  FoldLeft(noteDelivery, FoldLeft(LAMBDA c, r : count(c, "created", <<r.category, "in_app">>), counters, created), made)

(* Every delivery that was made and has ended is counted once as made and   *)
(* once as sent, failed or cancelled under the same category and channel    *)
(* (noteCreated, finished).                                                 *)
CountersAgree(created, made, ends) ==
  LET done == FoldLeft(finished, noteCreated(NoCounters, created, made), ends)
      of(name, d) == Cardinality({i \in DOMAIN done[name] : SubSeq(done[name][i], 1, 2) = <<d.category, d.channel>>})
      ended(d) == Cardinality({i \in DOMAIN ends : ends[i].category = d.category /\ ends[i].channel = d.channel})
      planned(d) == Cardinality({i \in DOMAIN made : made[i].category = d.category /\ made[i].channel = d.channel})
  IN \A d \in Range(made) :
       /\ of("created", d) = planned(d)
       /\ of("sent", d) + of("failed", d) + of("cancelled", d) = ended(d)
       /\ of("held", d) <= of("created", d)

-------------------------------------------------------------------------------
(***************************************************************************)
(* Mail as an application sends it: what a message must be (mail.go,       *)
(* inline.go), the conversation with the relay (smtp.go), one address for  *)
(* everything outside production (Redirect, env.go), the test sink, and    *)
(* the texts made from templates and brands (render.go, brand.go).  A      *)
(* relay is its answers; an address is a value, "bad" and "line break" are *)
(* none; a text is the sequence of its words.  Encodings and boundaries    *)
(* are left out.                                                           *)
(***************************************************************************)

isAddress(a) == a \notin {"bad", "line break"}
inlineUsable(part) == part.cid # "bad" /\ part.type # "bad" /\ part.data
checkInline(parts) == (\A i \in DOMAIN parts : inlineUsable(parts[i])) /\ \A i, j \in DOMAIN parts : parts[i].cid = parts[j].cid => i = j
Check(m) ==
  /\ m.to # <<>> /\ (\A i \in DOMAIN m.to : isAddress(m.to[i])) /\ (\A i \in DOMAIN m.replyTo : isAddress(m.replyTo[i]))
  /\ m.subject # "two lines" /\ m.text # <<>> /\ (m.inline # <<>> => m.html # <<>>) /\ checkInline(m.inline)

\* What Send answers: err is {} or {why}; given is whom the relay will deliver to.
Answer(err, permanent, given, secured) == [err |-> err, permanent |-> permanent, given |-> given, secured |-> secured]
Refuse(why, permanent) == Answer({why}, permanent, {}, TRUE)
\* A sender that cannot work says so on every Send.
SMTP(cfg) == cfg.host # "" /\ isAddress(cfg.from)
GoesOnMutant(cfg, relay, m) ==
  IF ~Check(m) THEN Refuse("message", TRUE) ELSE Answer({}, FALSE, {a \in Range(m.to) : relay.rcpt[a] = 250}, TRUE)
\* The relay's steps in their order; the first that fails ends the conversation.  The
\* reply to the message may be lost after the relay took it (the deadline, the network).
SendMail(cfg, relay, m) ==
  LET tls == cfg.implicit \/ relay.starttls
      refused == {i \in DOMAIN m.to : relay.rcpt[m.to[i]] # 250}
      first == CHOOSE i \in refused : \A j \in refused : i <= j
      fails(step) == relay.fails = step
      stop(why, permanent) == Answer({why}, permanent, {}, tls)
  IN IF ~SMTP(cfg) THEN Refuse("config", FALSE)
       ELSE IF ~Check(m) THEN Refuse("message", TRUE)
       ELSE IF fails("reach") \/ fails("greet") THEN stop(relay.fails, FALSE)
       ELSE IF fails("tls") /\ tls THEN stop("tls", FALSE)
       ELSE IF fails("auth") /\ cfg.username THEN stop("auth", FALSE)
       ELSE IF fails("mail") THEN stop("mail", FALSE)
       ELSE IF refused # {} THEN stop("rcpt", relay.rcpt[m.to[first]] >= 500)
       ELSE IF fails("data") \/ fails("write") \/ fails("accept") THEN stop(relay.fails, FALSE)
       ELSE IF fails("reply") THEN Answer({"accept"}, FALSE, Range(m.to), tls)
       ELSE Answer(IF fails("quit") THEN {"quit"} ELSE {}, FALSE, Range(m.to), tls)
\* Redirect: the recipients go to the subject, one address gets the message.
Redirect(cfg, relay, address, m) ==
  IF ~isAddress(address) THEN Refuse("redirect", FALSE)
  ELSE SendMail(cfg, relay, [m EXCEPT !.to = <<address>>, !.subject = IF Contains(m.to, "line break") THEN "two lines" ELSE @])
SenderFromEnv(vars) ==
  LET address == vars.redirect
      unguarded == address = "" /\ vars.environment # "production" /\ ~vars.live /\ vars.cfg.host # ""
  IN [stops |-> unguarded \/ (address # "" /\ ~isAddress(address)), redirects |-> address # "", address |-> address]
sendFromEnv(vars, relay, m) ==
  LET sender == SenderFromEnv(vars) IN
  IF sender.redirects THEN Redirect(vars.cfg, relay, sender.address, m) ELSE SendMail(vars.cfg, relay, m)

\* The test sink: the same check, then the message is kept.
SinkSend(sent, m) == IF Check(m) THEN Append(sent, m) ELSE sent
Last1(sent) == IF sent = <<>> THEN {} ELSE {Last(sent)}
SinkTo(sent, address) == SelectSeq(sent, LAMBDA m : Contains(m.to, address))

\* The parts of a message: a leaf is <<kind>>, a container <<kind, parts>>.
alternatives(m) ==
  <<<<"text/plain">>, IF m.inline = <<>> THEN <<"text/html">>
                      ELSE <<"multipart/related", <<<<"text/html">>>> \o [i \in DOMAIN m.inline |-> <<"inline", m.inline[i].cid>>]>> >>
renderMail(m) == IF m.html = <<>> THEN <<"text/plain">> ELSE <<"multipart/alternative", alternatives(m)>>

\* The folders a locale <<language>> or <<language, region>> is looked up in.
candidates(locale) ==
  (IF locale = <<>> THEN <<>> ELSE <<locale>>) \o (IF Len(locale) = 2 THEN <<<<locale[1]>>>> ELSE <<>>) \o (IF locale # <<"en">> THEN <<<<"en">>>> ELSE <<>>)
\* The files there are: those with a subject, with a text, with a page.
TemplatesRender(files, locale) ==
  LET dirs == candidates(locale)
      has == {i \in DOMAIN dirs : dirs[i] \in files.subject}
      dir == dirs[CHOOSE i \in has : \A j \in has : i <= j]
  IN IF has = {} THEN [err |-> {"none"}, dir |-> <<>>, html |-> FALSE]
       ELSE IF dir \notin files.text THEN [err |-> {"text"}, dir |-> dir, html |-> FALSE]
       ELSE [err |-> {}, dir |-> dir, html |-> dir \in files.html]
Fallback(primary, fallback) == IF primary.err = {"none"} THEN fallback ELSE primary

\* A page in a brand's frame; "" is a field left out.
shown(word) == IF word = "" THEN <<>> ELSE <<word>>
greeting(b, page) == IF page.greeting = "" THEN b.greeting ELSE page.greeting
rowWords(rows) == FoldLeft(LAMBDA out, row : IF row[2] = "" THEN out ELSE out \o row, <<>>, rows)
action(page) == IF page.label # "" /\ page.url # "" THEN <<page.label, page.url>> ELSE <<>>
text(b, page) == shown(greeting(b, page)) \o page.paragraphs \o rowWords(page.rows) \o shown(page.note) \o action(page) \o shown(b.footer)
frame(b, page) ==
  shown(page.preview) \o (IF b.logo THEN <<"cid">> ELSE shown(b.name)) \o shown(greeting(b, page)) \o page.paragraphs
     \o rowWords(page.rows) \o shown(page.note) \o (IF action(page) = <<>> THEN <<>> ELSE <<page.url, page.label>>) \o shown(b.footer)
BrandRender(b, page) ==
  [html |-> frame(b, page), text |-> text(b, page), inline |-> IF b.logo THEN <<[cid |-> "cid", type |-> "image/png", data |-> TRUE]>> ELSE <<>>]
-------------------------------------------------------------------------------
(* No one gets a message unless all its recipients do; a send without error *)
(* reached them all; a failure no retry can cure reached nobody; a failure  *)
(* may come after the message was taken only where the relay's last replies *)
(* are awaited, to the message and to the goodbye, and a retry then sends a *)
(* second copy; nothing is said in the clear to a relay that offers better  *)
(* (smtpSender.Send, ErrPermanent).                                         *)
SendsTell(cfg, relay, m) ==
  LET a == SendMail(cfg, relay, m) IN
  /\ a.given \in {{}, Range(m.to)} /\ (a.err = {} => a.given = Range(m.to) /\ a.given # {})
  /\ (a.permanent => a.given = {} /\ (~Check(m) \/ \E to \in Range(m.to) : relay.rcpt[to] >= 500))
  /\ (a.err # {} /\ a.given # {} => a.err \in {{"accept"}, {"quit"}} /\ ~a.permanent)
  /\ (cfg.implicit \/ relay.starttls => a.secured)
  /\ (a.given # {} => Contains(SinkSend(<<>>, m), m))

(* Outside production an application that starts sends to real people only  *)
(* when told to, and with one address set every message goes to it alone    *)
(* (SenderFromEnv, Redirect: "the message is never sent to its own          *)
(* recipients").                                                            *)
RedirectHolds(vars, relay, m) ==
  LET a == sendFromEnv(vars, relay, m) IN
  /\ (vars.redirect # "" => a.given \subseteq {vars.redirect} /\ (~isAddress(vars.redirect) => a.given = {}))
  /\ (~SenderFromEnv(vars).stops /\ vars.redirect = "" /\ a.given # {} => vars.live \/ vars.environment = "production")

(* A part the page refers to is in the page's own container, after it, and  *)
(* every message has its plain text first (render, relatedPart).            *)
PartsFound(m) ==
  LET whole == renderMail(m)
      inner == whole[2][2]
  IN Check(m) => /\ (m.html = <<>>) = (whole = <<"text/plain">>)
                 /\ m.html # <<>> => whole[2][1] = <<"text/plain">> /\ Len(whole[2]) = 2
                 /\ m.inline # <<>> => inner[2][1] = <<"text/html">> /\ {inner[2][i][2] : i \in 2..Len(inner[2])} = {m.inline[i].cid : i \in DOMAIN m.inline}

(* The mail of a person's own language is found first, the language's       *)
(* before English, and an application's own before the defaults (Templates, *)
(* Fallback).                                                               *)
NearestText(files, defaults, locale) ==
  LET found == Fallback(TemplatesRender(files, locale), TemplatesRender(defaults, locale))
      own == {d \in files.subject : IsPrefix(d, locale) \/ d = <<"en">>} \ {<<>>}
  IN found.err = {} => IF own = {} THEN found.dir \in defaults.subject
                       ELSE found.dir \in own /\ \A d \in own : IsPrefix(d, locale) /\ locale # <<>> => Len(d) <= Len(found.dir)

(* The text of a branded mail has the page's words in the page's order, but *)
(* for the header and the preview (Brand.Render: "carries the same words"), *)
(* and the logo it shows is one of its parts.                               *)
SameWords(b, page) ==
  LET c == BrandRender(b, page)
      head == Len(shown(page.preview)) + (IF b.logo THEN 1 ELSE Len(shown(b.name)))
      body == SubSeq(c.html, head + 1, Len(c.html))
  IN Range(body) = Range(c.text) /\ Len(body) = Len(c.text) /\ (Contains(c.html, "cid") => c.inline # <<>> /\ checkInline(c.inline))
===============================================================================
