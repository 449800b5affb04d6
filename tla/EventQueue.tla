----------------------------- MODULE EventQueue -----------------------------
(***************************************************************************)
(* The transactional outbox of package event: the two tables               *)
(* outbox_events and event_consumer_attempts, the poller and the consumer  *)
(* lanes of every running instance, the dead-letter service and the        *)
(* housekeeper.  Every database transaction of the code locks the outbox   *)
(* row of the event first, so each one is one atomic step here; what the   *)
(* code reads outside a transaction (an offer, a candidate list, the       *)
(* clock) is kept in the reader's state and may be stale when it is used.  *)
(***************************************************************************)
EXTENDS Integers, FiniteSets

CONSTANTS
    Events,       \* ids of outbox_events: a set of naturals, in insert order
    Consumers,    \* durable consumer names
    Instances,    \* running copies of the application
    Subscribed,   \* the events of the type each consumer handles
    MaxAttempts,  \* retryPolicy.attempts
    Backoff,      \* retryPolicy.delay, by number of failures
    ClaimLease,   \* claimLease
    BatchSize,    \* batchSize
    Retention,    \* Retention of processed events
    DeadFor,      \* Housekeeper.deadFor; 0 keeps dead letters for ever
    MaxClock,     \* bound on the modelled time
    Prompt        \* TRUE: no lane outlives its own lease (see Tick)

ASSUME EventsAssumption == Events \subseteq Nat
ASSUME SubscribedAssumption == Subscribed \in [Consumers -> SUBSET Events]
ASSUME PolicyAssumption ==
    /\ MaxAttempts \in Nat \ {0}
    /\ Backoff \in [1..MaxAttempts -> Nat \ {0}]
ASSUME TimesAssumption ==
    /\ ClaimLease \in Nat \ {0}
    /\ BatchSize \in Nat \ {0}
    /\ Retention \in Nat
    /\ DeadFor \in Nat
    /\ MaxClock \in Nat
    /\ Prompt \in BOOLEAN

VARIABLES
    clock,    \* the instances' common clock, in whole seconds of the columns
    outbox,   \* outbox_events: each event's row
    att,      \* event_consumer_attempts: each consumer's row for each event
    offer,    \* each lane's one-slot channel of offered ids
    lane,     \* what each consumer's goroutine is doing
    up,       \* each instance: running, stopping (ctx cancelled) or down
    sweep,    \* each instance's housekeeper
    handled,  \* history: pairs whose handler returned nil
    expired   \* history: pairs whose dead letter KeepDeadLetters deleted

vars == <<clock, outbox, att, offer, lane, up, sweep, handled, expired>>

Null == -1                              \* a NULL time
Time == Nat \cup {Null}
Lanes == Instances \X Consumers
Siblings(e) == {c \in Consumers : e \in Subscribed[c]}

(* attemptRow; the row that is not there reads as Go's zero value, with the  *)
(* one column that is never NULL set to Null.                                *)
Row(n, next, done, dead) ==
    [attempts |-> n, next |-> next, doneAt |-> done, deadAt |-> dead]
NoRow == Row(0, Null, Null, Null)
AttemptRow == [attempts : 0..MaxAttempts, next : Time, doneAt : Time, deadAt : Time]
Finished(a) == a.doneAt # Null \/ a.deadAt # Null

OutboxRow == [state : {"absent", "queued", "processed", "pruned"}, processedAt : Time]
Queued == [state |-> "queued", processedAt |-> Null]
Processed(t) == [state |-> "processed", processedAt |-> t]

Idle == [phase |-> "idle", now |-> 0, ids |-> {}, full |-> FALSE,
         seen |-> [e \in Events |-> 0], row |-> NoRow]
Lane == [phase : {"idle", "leasing", "handling", "recording", "full"},
         now : Nat, ids : SUBSET Events, full : BOOLEAN,
         seen : [Events -> 0..(MaxAttempts - 1)], row : AttemptRow]
Asleep == [phase |-> "idle", ids |-> {}, cutoff |-> 0]
Sweep == [phase : {"idle", "letters", "events", "prune"},
          ids : SUBSET Events, cutoff : Int]

Busy(w) == lane[w].phase \in {"handling", "recording"}
Until(w) == lane[w].now + ClaimLease    \* leaseUntil
Least(S) == CHOOSE e \in S : \A f \in S : e <= f
FirstOf(S) == {e \in S : Cardinality({f \in S : f < e}) < BatchSize}

-----------------------------------------------------------------------------
Init ==
    /\ clock = 0
    /\ outbox = [e \in Events |-> [state |-> "absent", processedAt |-> Null]]
    /\ att = [e \in Events |-> [c \in Consumers |-> NoRow]]
    /\ offer = [w \in Lanes |-> {}]
    /\ lane = [w \in Lanes |-> Idle]
    /\ up = [i \in Instances |-> "running"]
    /\ sweep = [i \in Instances |-> Asleep]
    /\ handled = {}
    /\ expired = {}

(* A publishing transaction commits with its row; one that rolls back, or    *)
(* has no transaction on the events' database, leaves nothing.               *)
Publish(e) ==
    /\ outbox[e].state = "absent"
    /\ outbox' = [outbox EXCEPT ![e] = Queued]
    /\ UNCHANGED <<clock, att, offer, lane, up, sweep, handled, expired>>

(* Not done, not dead, not leased and not waiting at time t.                 *)
Open(a, t) == ~Finished(a) /\ a.next <= t
Due(c, t) == FirstOf({e \in Subscribed[c] : outbox[e].state = "queued" /\ Open(att[e][c], t)})

(* One poll: a read for all consumers, then a send to every lane whose       *)
(* channel is empty.                                                         *)
Poll(i) ==
    /\ up[i] = "running"
    /\ offer' = [w \in Lanes |->
                    IF w[1] = i /\ offer[w] = {} THEN Due(w[2], clock) ELSE offer[w]]
    /\ UNCHANGED <<clock, outbox, att, lane, up, sweep, handled, expired>>

Leasing(ids) == [Idle EXCEPT !.phase = "leasing", !.now = clock, !.ids = ids]

TakeOffer(w) ==
    /\ up[w[1]] = "running"
    /\ lane[w].phase = "idle"
    /\ offer[w] # {}
    /\ lane' = [lane EXCEPT ![w] = Leasing(offer[w])]
    /\ offer' = [offer EXCEPT ![w] = {}]
    /\ UNCHANGED <<clock, outbox, att, up, sweep, handled, expired>>

(* tick after a full batch: claim's own read of the candidates.              *)
NextBatch(w) ==
    /\ up[w[1]] = "running"
    /\ lane[w].phase = "full"
    /\ LET ids == Due(w[2], clock) IN
           lane' = [lane EXCEPT ![w] = IF ids = {} THEN Idle ELSE Leasing(ids)]
    /\ UNCHANGED <<clock, outbox, att, offer, up, sweep, handled, expired>>

(* The candidates still due under the lock.                                  *)
LeasableMutant(w) == {e \in lane[w].ids : outbox[e].state = "queued"}
Leasable(w) == {e \in lane[w].ids :
                    outbox[e].state = "queued" /\ Open(att[e][w[2]], lane[w].now)}

ClaimedMutant(w, ids) ==
    [lane[w] EXCEPT !.phase = "handling", !.ids = ids, !.full = Cardinality(ids) >= BatchSize]
Claimed(w, ids) ==
    [lane[w] EXCEPT !.phase = "handling", !.ids = ids,
                    !.full = Cardinality(ids) >= BatchSize,
                    !.seen = [e \in Events |-> IF e \in ids THEN att[e][w[2]].attempts ELSE 0]]

Lease(w) ==
    /\ up[w[1]] = "running"
    /\ lane[w].phase = "leasing"
    /\ LET ids == Leasable(w) IN
           /\ att' = [e \in Events |-> [c \in Consumers |->
                         IF c = w[2] /\ e \in ids
                         THEN [att[e][c] EXCEPT !.next = Until(w)] ELSE att[e][c]]]
           /\ lane' = [lane EXCEPT ![w] = IF ids = {} THEN Idle ELSE Claimed(w, ids)]
    /\ UNCHANGED <<clock, outbox, offer, up, sweep, handled, expired>>

(* The claim's transaction failed: the lane goes back to its channel.        *)
LeaseFails(w) ==
    /\ up[w[1]] = "running"
    /\ lane[w].phase = "leasing"
    /\ lane' = [lane EXCEPT ![w] = Idle]
    /\ UNCHANGED <<clock, outbox, att, offer, up, sweep, handled, expired>>

(* The row run writes for the handler's result r, n failures having been     *)
(* counted when the event was claimed.                                       *)
Outcome(r, n) ==
    IF r = "ok" THEN Row(n, clock, clock, Null)
    ELSE IF r = "malformed" \/ n + 1 >= MaxAttempts THEN Row(n + 1, clock, Null, clock)
    ELSE Row(n + 1, clock + Backoff[n + 1], Null, Null)

(* The handler returns (a panic is an error).  While the instance stops, an  *)
(* error is nobody's failure and a success cannot be recorded: both drop the *)
(* rest of the batch.                                                        *)
HandlerReturns(w, r) ==
    /\ up[w[1]] # "down"
    /\ lane[w].phase = "handling"
    /\ LET e == Least(lane[w].ids) IN
           /\ lane' = [lane EXCEPT ![w] =
                          IF up[w[1]] = "stopping" THEN Idle
                          ELSE [lane[w] EXCEPT !.phase = "recording",
                                               !.row = Outcome(r, lane[w].seen[e])]]
           /\ handled' = IF r = "ok" THEN handled \cup {<<e, w[2]>>} ELSE handled
    /\ UNCHANGED <<clock, outbox, att, offer, up, sweep, expired>>

(* handleAll moves to the next event, lane to the next batch or its channel. *)
Advance(w) ==
    LET rest == lane[w].ids \ {Least(lane[w].ids)} IN
    IF rest # {} THEN [lane[w] EXCEPT !.phase = "handling", !.ids = rest, !.row = NoRow]
    ELSE IF lane[w].full THEN [Idle EXCEPT !.phase = "full"]
    ELSE Idle

(* Every other consumer of e has finished: counted under the row lock.       *)
LastToFinishMutant(e, c) == \E d \in Siblings(e) : d = c \/ Finished(att[e][d])
LastToFinish(e, c) == \A d \in Siblings(e) \ {c} : Finished(att[e][d])

(* finish: the outcome is written over whatever the row holds, also when the *)
(* outbox row is gone; the last sibling to finish marks the event processed. *)
Finish(w) ==
    /\ up[w[1]] = "running"
    /\ lane[w].phase = "recording"
    /\ LET e == Least(lane[w].ids)
           row == lane[w].row
       IN  /\ att' = [att EXCEPT ![e] = [@ EXCEPT ![w[2]] = row]]
           /\ outbox' = IF /\ outbox[e].state \in {"queued", "processed"}
                           /\ Finished(row)
                           /\ LastToFinish(e, w[2])
                        THEN [outbox EXCEPT ![e] =
                                 Processed(IF row.doneAt # Null THEN row.doneAt ELSE row.deadAt)]
                        ELSE outbox
    /\ lane' = [lane EXCEPT ![w] = Advance(w)]
    /\ UNCHANGED <<clock, offer, up, sweep, handled, expired>>

(* Recording the outcome failed: logged, and the batch goes on.              *)
FinishFails(w) ==
    /\ up[w[1]] = "running"
    /\ lane[w].phase = "recording"
    /\ lane' = [lane EXCEPT ![w] = Advance(w)]
    /\ UNCHANGED <<clock, outbox, att, offer, up, sweep, handled, expired>>

-----------------------------------------------------------------------------
(* DeadLetters.Retry; RetryAll is a sequence of these.                       *)
Retryable(e, c) ==
    outbox[e].state \in {"queued", "processed"} /\ att[e][c].deadAt # Null
Retry(e, c) ==
    /\ Retryable(e, c)
    /\ att' = [att EXCEPT ![e] = [@ EXCEPT ![c] = Row(0, clock, att[e][c].doneAt, Null)]]
    /\ outbox' = [outbox EXCEPT ![e] = Queued]
    /\ UNCHANGED <<clock, offer, lane, up, sweep, handled, expired>>

(* Sweep, first half: expireDeadLetters picks the events with old letters.   *)
OldLetter(a, cutoff) == a.deadAt # Null /\ a.deadAt < cutoff
SelectLetters(i) ==
    /\ up[i] = "running"
    /\ sweep[i].phase = "idle"
    /\ LET cutoff == clock - DeadFor
           ids == {e \in Events : DeadFor > 0 /\ \E c \in Consumers : OldLetter(att[e][c], cutoff)}
       IN  sweep' = [sweep EXCEPT ![i] =
                        IF ids = {} THEN [Asleep EXCEPT !.phase = "events"]
                        ELSE [phase |-> "letters", ids |-> ids, cutoff |-> cutoff]]
    /\ UNCHANGED <<clock, outbox, att, offer, lane, up, handled, expired>>

DeleteLetters(i) ==
    /\ up[i] = "running"
    /\ sweep[i].phase = "letters"
    /\ LET gone == {p \in sweep[i].ids \X Consumers : OldLetter(att[p[1]][p[2]], sweep[i].cutoff)}
       IN  /\ att' = [e \in Events |-> [c \in Consumers |->
                         IF <<e, c>> \in gone THEN NoRow ELSE att[e][c]]]
           /\ expired' = expired \cup gone
    /\ sweep' = [sweep EXCEPT ![i] = [Asleep EXCEPT !.phase = "events"]]
    /\ UNCHANGED <<clock, outbox, offer, lane, up, handled>>

(* Sweep, second half: the events processed before the cutoff, without a     *)
(* dead letter, are picked and then re-checked under the lock.               *)
Old(e, cutoff) == outbox[e].state = "processed" /\ outbox[e].processedAt < cutoff
HasLetter(e) == \E c \in Consumers : att[e][c].deadAt # Null
Prunable(e, cutoff) == Old(e, cutoff) /\ ~HasLetter(e)
SelectProcessed(i) ==
    /\ up[i] = "running"
    /\ sweep[i].phase = "events"
    /\ LET cutoff == clock - Retention
           ids == {e \in Events : Prunable(e, cutoff)}
       IN  sweep' = [sweep EXCEPT ![i] =
                        IF ids = {} THEN Asleep
                        ELSE [phase |-> "prune", ids |-> ids, cutoff |-> cutoff]]
    /\ UNCHANGED <<clock, outbox, att, offer, lane, up, handled, expired>>

Prune(i) ==
    /\ up[i] = "running"
    /\ sweep[i].phase = "prune"
    /\ LET doomed == {e \in sweep[i].ids : Prunable(e, sweep[i].cutoff)} IN
           /\ att' = [e \in Events |-> IF e \in doomed THEN [c \in Consumers |-> NoRow] ELSE att[e]]
           /\ outbox' = [e \in Events |-> IF e \in doomed
                            THEN [state |-> "pruned", processedAt |-> Null] ELSE outbox[e]]
    /\ sweep' = [sweep EXCEPT ![i] = Asleep]
    /\ UNCHANGED <<clock, offer, lane, up, handled, expired>>

-----------------------------------------------------------------------------
(* The application cancels the workers' context.  A statement that has not   *)
(* committed fails, so only handlers already running go on.                  *)
Shutdown(i) ==
    /\ up[i] = "running"
    /\ up' = [up EXCEPT ![i] = "stopping"]
    /\ sweep' = [sweep EXCEPT ![i] = Asleep]
    /\ UNCHANGED <<clock, outbox, att, offer, lane, handled, expired>>

StopLane(w) ==
    /\ up[w[1]] = "stopping"
    /\ lane[w].phase # "idle"
    /\ lane' = [lane EXCEPT ![w] = Idle]
    /\ UNCHANGED <<clock, outbox, att, offer, up, sweep, handled, expired>>

Gone(i) ==
    /\ up' = [up EXCEPT ![i] = "down"]
    /\ lane' = [w \in Lanes |-> IF w[1] = i THEN Idle ELSE lane[w]]
    /\ offer' = [w \in Lanes |-> IF w[1] = i THEN {} ELSE offer[w]]
    /\ sweep' = [sweep EXCEPT ![i] = Asleep]
    /\ UNCHANGED <<clock, outbox, att, handled, expired>>

(* group.Wait: every lane has returned.                                      *)
Exit(i) ==
    /\ up[i] = "stopping"
    /\ \A c \in Consumers : lane[<<i, c>>].phase = "idle"
    /\ Gone(i)

Crash(i) == up[i] # "down" /\ Gone(i)

Start(i) ==
    /\ up[i] = "down"
    /\ up' = [up EXCEPT ![i] = "running"]
    /\ UNCHANGED <<clock, outbox, att, offer, lane, sweep, handled, expired>>

(* Time passes.  With Prompt, never past the end of a lease whose lane is    *)
(* still at work: the handlers and the database answer within the lease.     *)
Tick ==
    /\ clock < MaxClock
    /\ Prompt => \A w \in Lanes : lane[w].phase \in {"leasing", "handling", "recording"}
                                     => clock + 1 < Until(w)
    /\ clock' = clock + 1
    /\ UNCHANGED <<outbox, att, offer, lane, up, sweep, handled, expired>>

Next ==
    \/ \E e \in Events : Publish(e)
    \/ \E i \in Instances : Poll(i)
    \/ \E w \in Lanes : TakeOffer(w)
    \/ \E w \in Lanes : NextBatch(w)
    \/ \E w \in Lanes : Lease(w)
    \/ \E w \in Lanes : LeaseFails(w)
    \/ \E w \in Lanes, r \in {"ok", "error", "malformed"} : HandlerReturns(w, r)
    \/ \E w \in Lanes : Finish(w)
    \/ \E w \in Lanes : FinishFails(w)
    \/ \E e \in Events, c \in Consumers : Retry(e, c)
    \/ \E i \in Instances : SelectLetters(i)
    \/ \E i \in Instances : DeleteLetters(i)
    \/ \E i \in Instances : SelectProcessed(i)
    \/ \E i \in Instances : Prune(i)
    \/ \E i \in Instances : Shutdown(i)
    \/ \E w \in Lanes : StopLane(w)
    \/ \E i \in Instances : Exit(i)
    \/ \E i \in Instances : Crash(i)
    \/ \E i \in Instances : Start(i)
    \/ Tick

Spec == Init /\ [][Next]_vars

-----------------------------------------------------------------------------
(* Every table, channel and lane holds values of its declared type.          *)
TypeOK ==
    /\ clock \in Nat
    /\ outbox \in [Events -> OutboxRow]
    /\ att \in [Events -> [Consumers -> AttemptRow]]
    /\ offer \in [Lanes -> SUBSET Events]
    /\ lane \in [Lanes -> Lane]
    /\ up \in [Instances -> {"running", "stopping", "down"}]
    /\ sweep \in [Instances -> Sweep]
    /\ handled \subseteq Events \X Consumers
    /\ expired \subseteq Events \X Consumers

(* A consumer that has not finished an event has attempts left: the failure  *)
(* that uses up the last one gives up in the same write, whichever of        *)
(* several overlapping lanes records it.                                     *)
OpenMeansAttemptsLeft ==
    /\ \A e \in Events, c \in Consumers :
          ~Finished(att[e][c]) => att[e][c].attempts < MaxAttempts
    /\ \A w \in Lanes : ~Finished(lane[w].row) => lane[w].row.attempts < MaxAttempts

(* A lease is exclusive: no two lanes of one consumer are at work on one     *)
(* event while both their leases run (lease re-checks a stale offer under    *)
(* the row lock).                                                            *)
OneOwner ==
    \A v, w \in Lanes :
        (v # w /\ v[2] = w[2] /\ Busy(v) /\ Busy(w) /\ clock < Until(v) /\ clock < Until(w))
            => lane[v].ids \cap lane[w].ids = {}

(* While a lane is at work on an event within its lease, the event's rows    *)
(* are as its claim left them: open, leased until its own lease ends, with   *)
(* the failures it counted.                                                  *)
LeaseHeld ==
    \A w \in Lanes : Busy(w) /\ clock < Until(w) => \A e \in lane[w].ids :
        /\ outbox[e].state = "queued"
        /\ att[e][w[2]] = Row(lane[w].seen[e], Until(w), Null, Null)

(* An event marked processed has been finished, done or dead, by every one   *)
(* of its consumers; the only missing rows are dead letters that expired     *)
(* (finish counts the siblings under the row lock, Retry reopens the event). *)
ProcessedMeansFinished ==
    \A e \in Events : outbox[e].state = "processed" =>
        \A c \in Siblings(e) : Finished(att[e][c]) \/ <<e, c>> \in expired

(* An event every consumer of which has finished is marked: of several that  *)
(* finish together one sees that it is the last (finish locks the event row  *)
(* before it counts), and no retry or expiry leaves it queued with nobody to *)
(* finish it.                                                                *)
FinishedMeansProcessed ==
    \A e \in Events : outbox[e].state = "queued" => \E c \in Siblings(e) : ~Finished(att[e][c])

(* The housekeeper deletes an event only once every consumer handled it or   *)
(* its dead letter expired: no delivery is lost between finish, Retry and    *)
(* prune, across crashes and restarts.                                       *)
PrunedMeansHandled ==
    \A e \in Events : outbox[e].state = "pruned" =>
        \A c \in Siblings(e) : <<e, c>> \in handled \cup expired

(* A dead letter ends only by a retry, which reopens its event, or by being  *)
(* deleted: no worker's late outcome takes it away.                          *)
LettersEndOnlyByRetryOrExpiry ==
    [][\A e \in Events, c \in Consumers :
          (att[e][c].deadAt # Null /\ att'[e][c].deadAt = Null) =>
              \/ att'[e][c] = NoRow
              \/ att'[e][c].attempts = 0 /\ outbox'[e].state = "queued"]_vars

(* While a lane is at work on an event its row is as the lease left it, so   *)
(* the failures counted are never lost: the count falls only when the letter *)
(* is retried or the row deleted.                                            *)
FailuresNeverForgotten ==
    [][\A e \in Events, c \in Consumers :
          att'[e][c].attempts < att[e][c].attempts =>
              att[e][c].deadAt # Null \/ att'[e][c] = NoRow]_vars
=============================================================================
