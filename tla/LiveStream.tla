----------------------------- MODULE LiveStream -----------------------------
(***************************************************************************)
(* The live stream of one person's inbox: the hub that fans changes out to *)
(* the apps they have open, the streams that write them, and the requests  *)
(* and events that announce a change after it is committed.  A change is   *)
(* written, counted and published in three steps; other changes, streams   *)
(* that open and sessions that end come between them.                      *)
(***************************************************************************)
EXTENDS Naturals, Sequences, FiniteSets

CONSTANTS Apps,        \* the apps the person may open
          StreamNotes, \* the ids of the notifications that may arrive, from 1
          Announcers,  \* the requests and events that change the inbox
          Buffer,      \* subscriberBuffer
          MaxMarks,    \* bound: reads that change something
          MaxFailures  \* bound: counts and session checks that fail

VARIABLES inbox,      \* the notification's state: "none", "unread" or "read"
          hubSubs,    \* the apps the hub sends to
          queue,      \* the events waiting in each subscription
          app,        \* where each stream's handler is
          sessions,   \* the apps whose session is live
          step,       \* what each announcer is doing
          marks, countFailures,
          snapshot,   \* history: the notifications each stream's first count had seen
          shown,       \* history: the notifications each stream has written
          untold      \* history: the notifications whose announcement failed

streamVars == <<inbox, hubSubs, queue, app, sessions, step, marks, countFailures, snapshot, shown, untold>>

Resting == [at |-> "rest", note |-> {}, count |-> 0]
Unread == Cardinality({n \in StreamNotes : inbox[n] = "unread"})
Arrived == {n \in StreamNotes : inbox[n] # "none"}

StreamInit ==
    /\ inbox = [n \in StreamNotes |-> "none"]
    /\ hubSubs = {}
    /\ queue = [a \in Apps |-> <<>>]
    /\ app = [a \in Apps |-> "closed"]
    /\ sessions = Apps
    /\ step = [w \in Announcers |-> Resting]
    /\ marks = 0 /\ countFailures = 0
    /\ snapshot = [a \in Apps |-> {}]
    /\ shown = [a \in Apps |-> {}]
    /\ untold = {}
-----------------------------------------------------------------------------
(* The hub.                                                                                        *)

(* A subscription starts with an empty buffer.                                                     *)
Subscribe(a) ==
    /\ hubSubs' = hubSubs \cup {a}
    /\ queue' = [queue EXCEPT ![a] = <<>>]

(* removeLocked: the hub forgets the subscription; what is buffered can still be read.             *)
removeLocked(gone) == hubSubs' = hubSubs \ gone

Full == {a \in hubSubs : Len(queue[a]) = Buffer}
(* A hub that loses the event of a full subscriber.                                                *)
LosingPublishMutant(ev) ==
    /\ queue' = [a \in Apps |-> IF a \in hubSubs \ Full THEN Append(queue[a], ev) ELSE queue[a]]
    /\ removeLocked({})
(* Publish: every subscriber with room gets the event, the others are disconnected.                *)
HubPublish(ev) ==
    /\ queue' = [a \in Apps |-> IF a \in hubSubs \ Full THEN Append(queue[a], ev) ELSE queue[a]]
    /\ removeLocked(Full)
-----------------------------------------------------------------------------
(* The announcements.                                                                              *)

(* insertNew commits the notification, which gets the next id; the announcement follows.           *)
Insert(w, n) ==
    /\ step[w] = Resting
    /\ n = Cardinality(Arrived) + 1
    /\ inbox' = [inbox EXCEPT ![n] = "unread"]
    /\ step' = [step EXCEPT ![w] = [at |-> "created", note |-> {n}, count |-> 0]]
    /\ UNCHANGED <<hubSubs, queue, app, sessions, marks, countFailures, snapshot, shown, untold>>

(* MarkRead and MarkAllRead: the write, which changes something only on unread rows.               *)
Mark(w, ns) ==
    /\ step[w] = Resting
    /\ marks < MaxMarks
    /\ ns # {} /\ \A n \in ns : inbox[n] = "unread"
    /\ inbox' = [n \in StreamNotes |-> IF n \in ns THEN "read" ELSE inbox[n]]
    /\ marks' = marks + 1
    /\ step' = [step EXCEPT ![w] = [at |-> "read", note |-> {}, count |-> 0]]
    /\ UNCHANGED <<hubSubs, queue, app, sessions, countFailures, snapshot, shown, untold>>

(* announce counts for a person with an app open, and a read always counts; a count that fails is  *)
(* an error of the read and a line in the log of the announcement.                                 *)
Skipped(w) == step[w].at = "created" /\ hubSubs = {}
Count(w) ==
    /\ step[w].at \in {"created", "read"}
    /\ \/ /\ Skipped(w)
          /\ step' = [step EXCEPT ![w] = Resting]
          /\ UNCHANGED <<countFailures, untold>>
       \/ /\ ~Skipped(w)
          /\ step' = [step EXCEPT ![w].at = "publish", ![w].count = Unread]
          /\ UNCHANGED <<countFailures, untold>>
       \/ /\ ~Skipped(w)
          /\ countFailures < MaxFailures
          /\ countFailures' = countFailures + 1
          /\ step' = [step EXCEPT ![w] = Resting]
          /\ untold' = untold \cup step[w].note
    /\ UNCHANGED <<inbox, hubSubs, queue, app, sessions, marks, snapshot, shown>>

Announce(w) ==
    /\ step[w].at = "publish"
    /\ HubPublish([note |-> step[w].note, count |-> step[w].count])
    /\ step' = [step EXCEPT ![w] = Resting]
    /\ UNCHANGED <<inbox, app, sessions, marks, countFailures, snapshot, shown, untold>>
-----------------------------------------------------------------------------
(* stream: the handler of one app.                                                                 *)

(* Ending the response cancels the subscription.                                                   *)
StreamEnds(a) ==
    /\ app' = [app EXCEPT ![a] = "closed"]
    /\ hubSubs' = hubSubs \ {a}
    /\ queue' = [queue EXCEPT ![a] = <<>>]

(* A connection subscribes before it reads the unread count.                                       *)
Open(a) ==
    /\ app[a] = "closed" /\ a \in sessions
    /\ Subscribe(a)
    /\ app' = [app EXCEPT ![a] = "subscribed"]
    /\ snapshot' = [snapshot EXCEPT ![a] = {}]
    /\ shown' = [shown EXCEPT ![a] = {}]
    /\ UNCHANGED <<inbox, sessions, step, marks, countFailures, untold>>

(* The unread count is read and written; it has seen what was committed by now.                    *)
Snapshot(a) ==
    /\ app[a] = "subscribed"
    /\ app' = [app EXCEPT ![a] = "live"]
    /\ snapshot' = [snapshot EXCEPT ![a] = Arrived]
    /\ UNCHANGED <<inbox, hubSubs, queue, sessions, step, marks, countFailures, shown, untold>>

SnapshotFails(a) ==
    /\ app[a] = "subscribed"
    /\ countFailures < MaxFailures
    /\ countFailures' = countFailures + 1
    /\ StreamEnds(a)
    /\ UNCHANGED <<inbox, sessions, step, marks, snapshot, shown, untold>>

(* writeEvent: the next event in the subscription is written.                                      *)
writeEvent(a) ==
    /\ app[a] = "live" /\ queue[a] # <<>>
    /\ queue' = [queue EXCEPT ![a] = Tail(@)]
    /\ shown' = [shown EXCEPT ![a] = @ \cup Head(queue[a]).note]
    /\ UNCHANGED <<inbox, hubSubs, app, sessions, step, marks, countFailures, snapshot, untold>>

(* A dropped subscription's channel is closed: once it is drained the response ends.               *)
Dropped(a) ==
    /\ app[a] = "live" /\ a \notin hubSubs /\ queue[a] = <<>>
    /\ StreamEnds(a)
    /\ UNCHANGED <<inbox, sessions, step, marks, countFailures, snapshot, shown, untold>>

(* sessionStillLive: the session the stream was opened with is among the person's sessions.        *)
sessionStillLive(a) == a \in sessions

(* The heartbeat re-checks the session; a check that fails leaves the stream open.                 *)
Heartbeat(a) ==
    /\ app[a] = "live"
    /\ ~sessionStillLive(a)
    /\ StreamEnds(a)
    /\ UNCHANGED <<inbox, sessions, step, marks, countFailures, snapshot, shown, untold>>

CheckFails(a) ==
    /\ app[a] = "live" /\ countFailures < MaxFailures
    /\ countFailures' = countFailures + 1
    /\ UNCHANGED <<inbox, hubSubs, queue, app, sessions, step, marks, snapshot, shown, untold>>

(* The client goes away.                                                                           *)
Leave(a) ==
    /\ app[a] = "live"
    /\ StreamEnds(a)
    /\ UNCHANGED <<inbox, sessions, step, marks, countFailures, snapshot, shown, untold>>

(* Signing out, a password change or a revocation ends the session the app was opened with.        *)
SignOut(a) ==
    /\ a \in sessions
    /\ sessions' = sessions \ {a}
    /\ UNCHANGED <<inbox, hubSubs, queue, app, step, marks, countFailures, snapshot, shown, untold>>
-----------------------------------------------------------------------------
Handler(a) == Open(a) \/ Snapshot(a) \/ SnapshotFails(a) \/ writeEvent(a) \/ Dropped(a)
              \/ Heartbeat(a) \/ CheckFails(a) \/ Leave(a)

StreamNext ==
    \/ \E w \in Announcers, n \in StreamNotes : Insert(w, n)
    \/ \E w \in Announcers, ns \in SUBSET StreamNotes : Mark(w, ns)
    \/ \E w \in Announcers : Count(w) \/ Announce(w)
    \/ \E a \in Apps : Handler(a) \/ SignOut(a)

(* The handler's loop runs: it writes what waits, and its ticker keeps ticking.                    *)
StreamFairness == \A a \in Apps : WF_streamVars(Snapshot(a)) /\ WF_streamVars(Heartbeat(a)) /\ WF_streamVars(Dropped(a))

StreamSpec == StreamInit /\ [][StreamNext]_streamVars /\ StreamFairness
-----------------------------------------------------------------------------
StreamTypeOK ==
    /\ inbox \in [StreamNotes -> {"none", "unread", "read"}]
    /\ hubSubs \subseteq Apps /\ sessions \subseteq Apps /\ untold \subseteq StreamNotes
    /\ app \in [Apps -> {"closed", "subscribed", "live"}]
    /\ \A a \in Apps : Len(queue[a]) <= Buffer

(* An open stream that has caught up has learnt of every notification: the count it opened with    *)
(* had seen it or it was written as an event, whatever order inserting, announcing, subscribing    *)
(* and counting came in.  Excepted are an announcement under way and one whose count failed        *)
(* (notification/stream.go, the handler "subscribe before reading the snapshot"; hub.go, Publish). *)
UnderWay == UNION {step[w].note : w \in Announcers}
NoneMissed ==
    \A a \in Apps : app[a] = "live" /\ a \in hubSubs /\ queue[a] = <<>>
                      => Arrived \subseteq snapshot[a] \cup shown[a] \cup UnderWay \cup untold

(* A stream whose session ended is closed at a later heartbeat (stream.go: "signing out, a         *)
(* password change or a revoked session ends it").                                                 *)
RevokedStreamEnds == \A a \in Apps : (app[a] = "live" /\ a \notin sessions) ~> app[a] = "closed"

=============================================================================
