------------------------------ MODULE Incident ------------------------------
(***************************************************************************)
(* The incident log: incident/core (Service), incident/gormstore (Store)   *)
(* and the capture middleware and handlers of package incident.            *)
(*                                                                         *)
(* Requests write in transactions of the database.  A transaction reads a  *)
(* snapshot (IncidentRead) and then writes and commits (IncidentCommit):   *)
(* its first write locks the incident row, or the entry of the unique      *)
(* index, until the commit, so the writes of a transaction are one step,   *)
(* and what it read before them may be old.  A transaction may lose a race *)
(* (a duplicate open fingerprint, a deadlock) and is run again.            *)
(***************************************************************************)
EXTENDS Naturals, Sequences, FiniteSets, SequencesExt, FiniteSetsExt

CONSTANTS IncReqs,        \* the requests that can be in progress together
          Fingerprints,   \* what tells problems apart (sha256 of the parts)
          People,         \* ids of the people who are not staff
          StaffIds,       \* ids of the people who hold incident:manage
          Updates,        \* the inputs of staff changes
          MaxAttempts,    \* maxAttempts of transact
          Retain,         \* how long occurrences are kept
          MaxWrites, MaxIncTime  \* bounds of the instance

VARIABLES incidents, occurrences, reports, comments, watchers, pruned,
          openedEvents, incReq, incTime, writes

incVars == <<incidents, occurrences, reports, comments, watchers, pruned,
             openedEvents, incReq, incTime, writes>>

(* trail.add: a call of a caller is remembered and the ones beyond the size are forgotten. *)
add(entries, entry, size) ==
    LET all == Append(entries, entry)
    IN  IF Len(all) > size THEN SubSeq(all, Len(all) - size + 1, Len(all)) ELSE all

Nil == 0                    \* a nil *int, and "" of an input
OpenStatuses == {"new", "triaged", "in_progress"}
IsOpen(status) == status \in OpenStatuses
ValidStatus(status) == status \in OpenStatuses \cup {"resolved", "ignored", "duplicate"}
ValidSeverity(s) == s \in {"low", "medium", "high", "critical"}
OrDefault(s) == IF ValidSeverity(s) THEN s ELSE "medium"
validProvider(p) == p \in {"none", "github", "jira"}

Merge(source, incoming) ==
    CASE source = "" -> incoming
      [] source = incoming -> source
      [] OTHER -> "mixed"

(* severity of a captured failure: the one it came with, which neither capturer gives *)
severity(failure) ==
    IF ValidSeverity(failure.severity) THEN failure.severity ELSE IF failure.source = "client_error" THEN "low" ELSE "high"

-----------------------------------------------------------------------------
(* gormstore: what a viewer [id, staff] sees, and the look-ups. *)

visible(i, who) ==
    \/ who.staff
    \/ /\ who.id > 0
       /\ incidents[i].visibility = "reporter_and_staff"
       /\ \/ incidents[i].reporter = who.id
          \/ \E n \in DOMAIN reports : reports[n].incident = i /\ reports[n].by = who.id
          \/ <<i, who.id>> \in watchers

IncList(who) == {i \in DOMAIN incidents : visible(i, who)}
IncFind(i, who) == IF i \in DOMAIN incidents /\ visible(i, who) THEN i ELSE Nil
Reports(i, who) ==
    {n \in DOMAIN reports : reports[n].incident = i /\ (who.staff \/ reports[n].by = who.id)}
Comments(i, who) ==
    {n \in DOMAIN comments : comments[n].incident = i /\ (who.staff \/ comments[n].visibility = "public")}
Watching(i, person) == <<i, person>> \in watchers
Occurrences(i, who) ==
    IF IncFind(i, who) = Nil THEN {} ELSE {o \in occurrences : o.incident = i}

FindOpen(fp) ==
    LET found == {i \in DOMAIN incidents : incidents[i].fp = fp /\ incidents[i].open}
    IN  IF found = {} THEN Nil ELSE CHOOSE i \in found : TRUE
FindLatest(fp) ==
    LET found == {i \in DOMAIN incidents : incidents[i].fp = fp}
        later(i, j) == \/ incidents[i].seen > incidents[j].seen
                       \/ incidents[i].seen = incidents[j].seen /\ i >= j
    IN  IF found = {} THEN Nil ELSE CHOOSE i \in found : \A j \in found : later(i, j)

(* What Show answers: the incident, the reports and the comments of the viewer. *)
ShowIncident(i, who) ==
    IF IncFind(i, who) = Nil
    THEN [incident |-> Nil, reports |-> {}, comments |-> {}, watching |-> FALSE]
    ELSE [incident |-> i, reports |-> Reports(i, who), comments |-> Comments(i, who),
          watching |-> who.id > 0 /\ Watching(i, who.id)]
(* Only the staff reads occurrences. *)
ShowOccurrences(i, who) == IF who.staff THEN Occurrences(i, who) ELSE {}

-----------------------------------------------------------------------------
(* The rows a write makes. *)

UniqueOpen(rows, i, row) ==
    row.open => \A j \in DOMAIN rows \ {i} : ~(rows[j].open /\ rows[j].fp = row.fp)

NewIncident(fp, source, sev, visibility, reporter, at) ==
    [fp |-> fp, open |-> TRUE, source |-> source, status |-> "new", severity |-> sev,
     visibility |-> visibility, seen |-> at, occ |-> IF reporter = Nil THEN 1 ELSE 0,
     rep |-> IF reporter = Nil THEN 0 ELSE 1, com |-> 0, reporter |-> reporter,
     assigned |-> Nil, duplicateOf |-> Nil, ticket |-> [provider |-> "none", ref |-> ""],
     resolvedAt |-> Nil]

(* opening and reported: the incident of a failure or of a report that has none. *)
opening(op, at) == NewIncident(op.fp, op.source, severity(op), "staff_only", Nil, at)
reported(op, at) == NewIncident(op.fp, "user_report", OrDefault(op.severity), "reporter_and_staff", op.by, at)

reopen(row, at) == [row EXCEPT !.status = "new", !.open = TRUE, !.resolvedAt = Nil, !.seen = at]

setStatus(row, status, at) ==
    IF IsOpen(status) THEN [row EXCEPT !.status = status, !.open = TRUE, !.resolvedAt = Nil]
    ELSE [row EXCEPT !.status = status, !.open = FALSE,
                     !.resolvedAt = IF status = "resolved" THEN at ELSE @]

(* an id given ({7}), given as zero or less ({0}: clears), or not given ({}) *)
positive(given, old) ==
    CASE given = {} -> old
      [] \E id \in given : id <= 0 -> Nil
      [] OTHER -> CHOOSE id \in given : TRUE

setTicket(row, input) ==
    LET provider == IF input.provider # "" THEN input.provider ELSE row.ticket.provider
    IN  [row EXCEPT !.ticket =
            [provider |-> provider,
             ref |-> CASE input.provider = "none" -> ""
                       [] input.provider # "none" /\ input.ref # "" -> input.ref
                       [] OTHER -> row.ticket.ref]]

ValidUpdate(input) ==
    /\ input.status = "" \/ ValidStatus(input.status)
    /\ input.severity = "" \/ ValidSeverity(input.severity)
    /\ input.visibility \in {"", "reporter_and_staff", "staff_only"}
    /\ input.provider = "" \/ validProvider(input.provider)

apply(row, input, at) ==
    LET moved == IF input.status = "" THEN row ELSE setStatus(row, input.status, at)
        given == [moved EXCEPT !.severity = IF input.severity = "" THEN @ ELSE input.severity,
                               !.visibility = IF input.visibility = "" THEN @ ELSE input.visibility,
                               !.assigned = positive(input.assigned, @),
                               !.duplicateOf = positive(input.duplicateOf, @)]
    IN  setTicket(given, input)

(* The columns the counting statements change, on the row as it is then. *)
CountOccurrence(row, source, at) == [row EXCEPT !.occ = @ + 1, !.seen = at, !.source = source]
CountReport(row, source, visibility, by, at) ==
    [row EXCEPT !.rep = @ + 1, !.seen = at, !.source = source, !.visibility = visibility,
                !.reporter = IF @ = Nil THEN by ELSE @]
CountComment(row) == [row EXCEPT !.com = @ + 1]

(* sighted and reportedIncident: the incident of a fingerprint as the snapshot shows it. *)
Snapshot(fp) ==
    LET open == FindOpen(fp)  latest == FindLatest(fp)
    IN  CASE open # Nil -> [how |-> "join", incident |-> open, row |-> incidents[open]]
          [] open = Nil /\ latest # Nil -> [how |-> "reopen", incident |-> latest, row |-> incidents[latest]]
          [] OTHER -> [how |-> "create", incident |-> Nil, row |-> Nil]
SnapshotOf(i, who) ==
    IF IncFind(i, who) = Nil THEN [how |-> "missing", incident |-> Nil, row |-> Nil]
    ELSE [how |-> "found", incident |-> i, row |-> incidents[i]]

-----------------------------------------------------------------------------
(* Requests. *)

IncIdle == [pc |-> "idle"]
Staff(id) == id \in StaffIds
Viewer(id) == [id |-> id, staff |-> Staff(id)]

IncInit ==
    /\ incidents = <<>> /\ occurrences = {} /\ reports = <<>> /\ comments = <<>>
    /\ watchers = {} /\ pruned = {} /\ openedEvents = <<>>
    /\ incReq = [r \in IncReqs |-> IncIdle]
    /\ incTime = 1 /\ writes = 0

(* The reads of a transaction. *)
Reading(op, n, attempt) ==
    [pc |-> "write", op |-> op, n |-> n, attempt |-> attempt, at |-> incTime,
     seen |-> IF op.kind \in {"capture", "report"} THEN Snapshot(op.fp)
              ELSE SnapshotOf(op.incident, Viewer(op.by))]

(* A request comes in and its transaction reads: nothing another request sees lies between. *)
BeginWrite(r, op) ==
    /\ incReq[r].pc = "idle" /\ writes < MaxWrites
    /\ writes' = writes + 1
    /\ incReq' = [incReq EXCEPT ![r] = Reading(op, writes + 1, 1)]
    /\ UNCHANGED <<incidents, occurrences, reports, comments, watchers, pruned, openedEvents, incTime>>

(* capturer.handle: a request that ends with a server error or a panic is captured, one that *)
(* ends well, with an error below 500 or because its client went away is not.                *)
Captured(outcome) == outcome \in {"server_error", "panic"}
Handle(r, fp, outcome) ==
    /\ Captured(outcome)
    /\ BeginWrite(r, [kind |-> "capture", fp |-> fp, source |-> "runtime_error", severity |-> "", by |-> Nil])

(* clientError: a person's browser reports an error; the limiter may drop it. *)
ClientError(r, fp, who) ==
    /\ BeginWrite(r, [kind |-> "capture", fp |-> fp, source |-> "client_error", severity |-> "", by |-> who])

Report(r, fp, who) ==
    /\ BeginWrite(r, [kind |-> "report", fp |-> fp, by |-> who, severity |-> ""])

Comment(r, i, who, asked) ==
    /\ BeginWrite(r, [kind |-> "comment", incident |-> i, by |-> who,
                      visibility |-> IF Staff(who) THEN asked ELSE "public"])

Update(r, i, who, input) ==
    /\ ValidUpdate(input)
    /\ BeginWrite(r, [kind |-> "update", incident |-> i, by |-> who, input |-> input])

(* The transaction of a write that lost a race is run again, and reads again. *)
IncidentRead(r) ==
    /\ incReq[r].pc = "again"
    /\ incReq' = [incReq EXCEPT ![r] = Reading(@.op, @.n, @.attempt)]
    /\ UNCHANGED <<incidents, occurrences, reports, comments, watchers, pruned, openedEvents, incTime, writes>>

SeenSource(req, incoming) == Merge(req.seen.row.source, incoming)

(* What a sighting adds to a row it reopens, and counts on the row it is kept under. *)
merged(op, row) ==
    IF op.kind = "capture" THEN [row EXCEPT !.source = Merge(@, op.source)]
    ELSE [row EXCEPT !.source = Merge(@, "user_report"), !.visibility = "reporter_and_staff"]
counted(req, row) ==
    IF req.op.kind = "capture" THEN CountOccurrence(row, SeenSource(req, req.op.source), req.at)
    ELSE CountReport(row, SeenSource(req, "user_report"), "reporter_and_staff", req.op.by, req.at)

(* The incident row of a capture or a report: joined, reopened (every column is written) or created. *)
Opened(req, fresh) ==
    LET seen == req.seen  id == seen.incident
    IN  CASE seen.how = "join" ->
              [rows |-> [incidents EXCEPT ![id] = counted(req, @)], id |-> id, taken |-> FALSE]
          [] seen.how = "reopen" ->
              LET again == reopen(merged(req.op, seen.row), req.at)
              IN  [rows |-> [incidents EXCEPT ![id] = counted(req, again)], id |-> id,
                   taken |-> ~UniqueOpen(incidents, id, again)]
          [] OTHER ->
              [rows |-> Append(incidents, fresh), id |-> Len(incidents) + 1,
               taken |-> ~UniqueOpen(incidents, Len(incidents) + 1, fresh)]

(* The request ends, or its transaction is run again after a lost race. *)
Finish(r) == incReq' = [incReq EXCEPT ![r] = IncIdle]
Again(r) ==
    IF incReq[r].attempt < MaxAttempts
    THEN incReq' = [incReq EXCEPT ![r] = [pc |-> "again", op |-> @.op, n |-> @.n, attempt |-> @.attempt + 1]]
    ELSE Finish(r)

(* A duplicate key of CreateIncident is tried again; one of UpdateIncident is not. *)
Refused(r, seen) ==
    /\ IF seen.how = "create" THEN Again(r) ELSE Finish(r)
    /\ UNCHANGED <<incidents, occurrences, reports, comments, watchers, openedEvents>>

(* A slip: every sighting is announced, a repeat included. *)
AnnounceMutant(r) ==
    LET req == incReq[r]  op == req.op
        put == Opened(req, opening(op, req.at))
    IN  /\ incidents' = put.rows
        /\ occurrences' = occurrences \cup {[id |-> Cardinality(occurrences \cup pruned) + 1, n |-> req.n,
                                             incident |-> put.id, at |-> req.at]}
        /\ openedEvents' = Append(openedEvents, put.id)
        /\ Finish(r)
        /\ UNCHANGED <<reports, comments, watchers>>
CommitCapture(r) ==
    LET req == incReq[r]  op == req.op
        put == Opened(req, opening(op, req.at))
    IN  IF put.taken THEN Refused(r, req.seen)
        ELSE /\ incidents' = put.rows
             /\ occurrences' = occurrences \cup {[id |-> Cardinality(occurrences \cup pruned) + 1, n |-> req.n,
                                                 incident |-> put.id, at |-> req.at]}
             /\ openedEvents' = IF req.seen.how = "create" THEN Append(openedEvents, put.id) ELSE openedEvents
             /\ Finish(r)
             /\ UNCHANGED <<reports, comments, watchers>>

CommitReport(r) ==
    LET req == incReq[r]  op == req.op
        put == Opened(req, reported(op, req.at))
    IN  IF put.taken THEN Refused(r, req.seen)
        ELSE /\ incidents' = put.rows
             /\ reports' = Append(reports, [n |-> req.n, incident |-> put.id, by |-> op.by])
             /\ watchers' = watchers \cup {<<put.id, op.by>>}
             /\ openedEvents' = IF req.seen.how = "create" THEN Append(openedEvents, put.id) ELSE openedEvents
             /\ Finish(r)
             /\ UNCHANGED <<occurrences, comments>>

CommitComment(r) ==
    LET req == incReq[r]  op == req.op  i == op.incident
    IN  /\ Finish(r)
        /\ IF req.seen.how = "missing"
           THEN UNCHANGED <<incidents, comments, watchers>>
           ELSE /\ incidents' = [incidents EXCEPT ![i] = CountComment(@)]
                /\ comments' = Append(comments, [n |-> req.n, incident |-> i, by |-> op.by,
                                                 visibility |-> op.visibility])
                /\ watchers' = watchers \cup {<<i, op.by>>}
        /\ UNCHANGED <<occurrences, reports, openedEvents>>

(* UpdateIncident writes every column of the row that was read. *)
CommitUpdate(r) ==
    LET req == incReq[r]  i == req.op.incident
        changed == apply(req.seen.row, req.op.input, req.at)
    IN  /\ Finish(r)
        /\ incidents' = IF req.seen.how = "missing" \/ ~UniqueOpen(incidents, i, changed)
                        THEN incidents ELSE [incidents EXCEPT ![i] = changed]
        /\ UNCHANGED <<occurrences, reports, comments, watchers, openedEvents>>

IncidentCommit(r) ==
    /\ incReq[r].pc = "write"
    /\ CASE incReq[r].op.kind = "capture" -> CommitCapture(r)
         [] incReq[r].op.kind = "report" -> CommitReport(r)
         [] incReq[r].op.kind = "comment" -> CommitComment(r)
         [] OTHER -> CommitUpdate(r)
    /\ UNCHANGED <<pruned, incTime, writes>>

(* The database chose the transaction to resolve a deadlock, or a lock wait ran out: *)
(* nothing was written, and it is run again.                                         *)
IncidentConflict(r) ==
    /\ incReq[r].pc = "write"
    /\ Again(r)
    /\ UNCHANGED <<incidents, occurrences, reports, comments, watchers, pruned, openedEvents, incTime, writes>>

(* A write failed, or the Opened hook did: the transaction is rolled back and not run again. *)
IncidentFail(r) ==
    /\ incReq[r].pc = "write"
    /\ Finish(r)
    /\ UNCHANGED <<incidents, occurrences, reports, comments, watchers, pruned, openedEvents, incTime, writes>>

(* housekeeper.sweep: PruneOccurrences until nothing old is left, except the newest of each incident. *)
newest == {o \in occurrences : \A p \in occurrences : p.incident = o.incident => p.id <= o.id}
PruneOccurrences == {o \in occurrences : o.at + Retain < incTime} \ newest
Sweep ==
    /\ PruneOccurrences # {}
    /\ occurrences' = occurrences \ PruneOccurrences
    /\ pruned' = pruned \cup PruneOccurrences
    /\ UNCHANGED <<incidents, reports, comments, watchers, openedEvents, incReq, incTime, writes>>

IncTick ==
    /\ incTime < MaxIncTime
    /\ incTime' = incTime + 1
    /\ UNCHANGED <<incidents, occurrences, reports, comments, watchers, pruned, openedEvents,
                   incReq, writes>>

IncNext ==
    \/ \E r \in IncReqs :
        \/ \E fp \in Fingerprints :
            \/ \E outcome \in {"client_error", "server_error", "panic"} : Handle(r, fp, outcome)
            \/ \E who \in People : ClientError(r, fp, who) \/ Report(r, fp, who)
        \/ \E i \in DOMAIN incidents :
            \/ \E who \in People \cup StaffIds : Comment(r, i, who, "internal")
            \/ \E who \in StaffIds, input \in Updates : Update(r, i, who, input)
        \/ IncidentRead(r) \/ IncidentCommit(r) \/ IncidentConflict(r) \/ IncidentFail(r)
    \/ Sweep \/ IncTick

IncSpec == IncInit /\ [][IncNext]_incVars

-----------------------------------------------------------------------------
(* However captures, reports and staff changes interleave, a problem has at most one open *)
(* incident, and an incident is open for repeats exactly while its status is an open one. *)
OneOpen ==
    /\ \A fp \in Fingerprints :
        Cardinality({i \in DOMAIN incidents : incidents[i].fp = fp /\ IsOpen(incidents[i].status)}) <= 1
    /\ \A i \in DOMAIN incidents : incidents[i].open <=> IsOpen(incidents[i].status)

(* A write that was run again after a lost race is kept once, on an incident of its own     *)
(* fingerprint; every incident has the row that made it, and is announced exactly once.     *)
RowsOf(n) ==
    {<<"occurrence", o.id>> : o \in {o \in occurrences \cup pruned : o.n = n}}
      \cup {<<"report", k>> : k \in {k \in DOMAIN reports : reports[k].n = n}}
      \cup {<<"comment", k>> : k \in {k \in DOMAIN comments : comments[k].n = n}}
KeptOnce ==
    /\ \A n \in 1..writes : Cardinality(RowsOf(n)) <= 1
    /\ Len(openedEvents) = Len(incidents) /\ ToSet(openedEvents) = DOMAIN incidents
    /\ \A i \in DOMAIN incidents :
        \/ \E o \in occurrences \cup pruned : o.incident = i
        \/ \E k \in DOMAIN reports : reports[k].incident = i

(* The housekeeper never takes the last occurrence of an incident: its screen has one to show. *)
NewestKept ==
    \A p \in pruned : \E o \in occurrences : o.incident = p.incident /\ o.id > p.id

(* A person who is not staff is shown only incidents shared with them, their own reports and *)
(* public comments; a shared incident they reported is always shown to them.                 *)
ShownIsTheirs ==
    \A i \in DOMAIN incidents, p \in People :
        LET shown == ShowIncident(i, Viewer(p))
        IN  /\ shown.incident # Nil =>
                /\ i \in IncList(Viewer(p)) /\ incidents[i].visibility = "reporter_and_staff"
                /\ \A k \in shown.reports : reports[k].by = p
                /\ \A k \in shown.comments : comments[k].visibility = "public" \/ Staff(p)
                /\ ShowOccurrences(i, Viewer(p)) = {}
            /\ \A k \in DOMAIN reports :
                reports[k].incident = i /\ reports[k].by = p /\ incidents[i].visibility = "reporter_and_staff"
                    => shown.incident # Nil /\ k \in shown.reports /\ shown.watching

(* A change of an incident leaves the fields it does not name as they are ("A field left out *)
(* stays.", the comment of Service.Update).                                                  *)
LeftOutStays ==
    [][\A r \in IncReqs :
        /\ incReq[r].pc = "write" /\ incReq[r].op.kind = "update" /\ incReq[r].op.input.status = ""
        /\ incReq'[r].pc = "idle" /\ incReq[r].op.incident \in DOMAIN incidents
        => incidents'[incReq[r].op.incident].status = incidents[incReq[r].op.incident].status]_incVars

\* A problem has at most one open incident, a write run again after a lost race is kept once
\* and announced once, the newest occurrence stays, and a person is shown only what is theirs
\* (Log.Capture, Report, Update, the housekeeper, Log.Show).
IncidentsKept == OneOpen /\ KeptOnce /\ NewestKept /\ ShownIsTheirs
=============================================================================
