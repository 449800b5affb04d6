-------------------------- MODULE EventQueueProofs --------------------------
(***************************************************************************)
(* Proofs about EventQueue for every set of events, consumers and          *)
(* instances and every setting of the times: type correctness always, and  *)
(* under Prompt the exclusive lease, the meaning of "processed" and that   *)
(* pruning loses no delivery.                                              *)
(***************************************************************************)
EXTENDS EventQueue, TLAPS, WellFoundedInduction

(* The fields of a lane.                                                     *)
LEMMA LaneFields ==
    ASSUME NEW l \in Lane
    PROVE  /\ l.phase \in {"idle", "leasing", "handling", "recording", "full"}
           /\ l.now \in Nat /\ l.ids \in SUBSET Events /\ l.full \in BOOLEAN
           /\ l.seen \in [Events -> 0..(MaxAttempts - 1)] /\ l.row \in AttemptRow
BY Zenon DEF Lane

USE EventsAssumption, SubscribedAssumption, PolicyAssumption, TimesAssumption

(* A nonempty batch has a least id: what handleAll handles next is in it.    *)
LEMMA LeastIn ==
    ASSUME NEW S \in SUBSET Events, S # {}
    PROVE  Least(S) \in S
<1>1. S \subseteq Nat
    BY Zenon
<1>2. PICK x \in S : \A y \in S : ~ (<<y, x>> \in OpToRel(<, Nat))
    BY <1>1, NatLessThanWellFounded, WFMin, Zenon
<1>3. \A y \in S : x <= y
    <2>1. SUFFICES ASSUME NEW y \in S PROVE ~ (y < x)
        BY <1>1
    <2>2. <<y, x>> \in Nat \X Nat
        BY <1>1, Zenon
    <2>3. y < x => <<y, x>> \in {ss \in Nat \X Nat : ss[1] < ss[2]}
        BY <2>2, Zenon
    <2>4. QED
        BY <1>2, <2>3, Zenon DEF OpToRel
<1>4. QED
    BY <1>3, Zenon DEF Least

LEMMA DueType ==
    ASSUME NEW c \in Consumers, NEW t
    PROVE  Due(c, t) \subseteq Subscribed[c]
BY Zenon DEF Due, FirstOf

LEMMA Constants ==
    /\ Idle \in Lane
    /\ Asleep \in Sweep
    /\ [Asleep EXCEPT !.phase = "events"] \in Sweep
    /\ NoRow \in AttemptRow
    /\ ~Finished(NoRow)
BY DEF Idle, Lane, Asleep, Sweep, NoRow, Row, AttemptRow, Time, Null, Finished

BusyHasWork == \A w \in Lanes : Busy(w) => lane[w].ids # {}
TypeInv == TypeOK /\ OpenMeansAttemptsLeft /\ BusyHasWork

LEMMA OutcomeType ==
    ASSUME clock \in Nat, NEW r, NEW n \in 0..(MaxAttempts - 1)
    PROVE  /\ Outcome(r, n) \in AttemptRow
           /\ ~Finished(Outcome(r, n)) => Outcome(r, n).attempts < MaxAttempts
           /\ Outcome(r, n).attempts >= n
           /\ Outcome(r, n).doneAt # Null => r = "ok"
<1>1. CASE r = "ok"
    BY <1>1 DEF Outcome, Row, AttemptRow, Time, Null, Finished
<1>2. CASE r # "ok" /\ (r = "malformed" \/ n + 1 >= MaxAttempts)
    BY <1>2 DEF Outcome, Row, AttemptRow, Time, Null, Finished
<1>3. CASE r # "ok" /\ ~(r = "malformed" \/ n + 1 >= MaxAttempts)
    <2>1. n + 1 \in 1..MaxAttempts /\ Backoff[n + 1] \in Nat
        BY <1>3
    <2>2. QED
        BY <1>3, <2>1 DEF Outcome, Row, AttemptRow, Time, Null, Finished
<1>4. QED
    BY <1>1, <1>2, <1>3, Zenon

LEMMA AdvanceType ==
    ASSUME TypeInv, NEW w \in Lanes
    PROVE  /\ Advance(w) \in Lane
           /\ ~Finished(Advance(w).row) => Advance(w).row.attempts < MaxAttempts
           /\ Advance(w).phase = "handling" => Advance(w).ids # {}
           /\ Advance(w).phase # "recording"
<1>1. lane[w] \in Lane
    BY Zenon DEF TypeInv, TypeOK
<1>2. NoRow \in AttemptRow /\ Idle \in Lane /\ NoRow.attempts = 0 /\ Idle.row = NoRow
    BY Constants, Zenon DEF NoRow, Row, Idle
<1>3. CASE lane[w].ids \ {Least(lane[w].ids)} # {}
    <2> DEFINE l == lane[w]  S == l.ids \ {Least(l.ids)}
    <2>1. Advance(w) = [l EXCEPT !.phase = "handling", !.ids = S, !.row = NoRow]
        BY <1>3, Zenon DEF Advance
    <2>2. l \in Lane /\ S \in SUBSET Events /\ S # {}
        <3>1. lane[w].ids \in SUBSET Events
            BY <1>1, LaneFields, Zenon
        <3>2. QED
            BY <1>1, <1>3, <3>1, Zenon
    <2> HIDE DEF l, S
    <2>3. [l EXCEPT !.phase = "handling", !.ids = S, !.row = NoRow] \in Lane
        BY <1>2, <2>2, Zenon DEF Lane
    <2>4. Advance(w).phase = "handling" /\ Advance(w).ids = S /\ Advance(w).row = NoRow
        BY <2>1, <2>2, Zenon DEF Lane
    <2>5. Advance(w) \in Lane
        BY <2>1, <2>3, Zenon
    <2>6. QED
        BY <1>2, <2>2, <2>4, <2>5
<1>4. CASE lane[w].ids \ {Least(lane[w].ids)} = {}
    <2>1. Advance(w) = Idle \/ Advance(w) = [Idle EXCEPT !.phase = "full"]
        BY <1>4, Zenon DEF Advance
    <2>2. Advance(w) \in Lane
        BY <1>2, <2>1, SMTT(60) DEF Lane
    <2>3. Advance(w).row = NoRow
        BY <1>2, <2>1, Zenon DEF Lane
    <2>4. Advance(w).phase \in {"idle", "full"}
        BY <1>2, <2>1 DEF Idle
    <2>5. QED
        BY <1>2, <2>2, <2>3, <2>4
<1>5. QED
    BY <1>3, <1>4, Zenon

LEMMA LeasingType ==
    ASSUME clock \in Nat, NEW ids \in SUBSET Events
    PROVE  Leasing(ids) \in Lane /\ Leasing(ids).row = NoRow /\ Leasing(ids).phase = "leasing"
BY Constants, Zenon DEF Leasing, Idle, Lane

LEMMA TypeInit == Init => TypeInv
BY Constants DEF Init, TypeInv, TypeOK, OpenMeansAttemptsLeft, OutboxRow, Time, Null,
    NoRow, Row, Idle, BusyHasWork, Busy

LEMMA ClaimedType ==
    ASSUME TypeInv, NEW w \in Lanes, NEW ids \in SUBSET Events,
           \A e \in ids : ~Finished(att[e][w[2]])
    PROVE  /\ Claimed(w, ids) \in Lane
           /\ Claimed(w, ids).row = lane[w].row
           /\ Claimed(w, ids).ids = ids
<1>1. lane[w] \in Lane /\ w[2] \in Consumers
    BY Zenon DEF TypeInv, TypeOK, Lanes
<1>2. \A e \in ids : att[e][w[2]].attempts \in 0..(MaxAttempts - 1)
    <2>1. \A e \in ids : att[e][w[2]] \in AttemptRow
        BY <1>1 DEF TypeInv, TypeOK
    <2>2. \A e \in ids : att[e][w[2]].attempts < MaxAttempts
        BY <1>1, ZenonT(60) DEF TypeInv, OpenMeansAttemptsLeft
    <2>3. QED
        BY <2>1, <2>2 DEF AttemptRow
<1>3. [e \in Events |-> IF e \in ids THEN att[e][w[2]].attempts ELSE 0]
          \in [Events -> 0..(MaxAttempts - 1)]
    BY <1>2
<1>4. (Cardinality(ids) >= BatchSize) \in BOOLEAN
    OBVIOUS
<1>5. QED
    BY <1>1, <1>3, <1>4, ZenonT(60) DEF Claimed, Lane

LEMMA TypeStep == TypeInv /\ [Next]_vars => TypeInv'
<1> SUFFICES ASSUME TypeInv, [Next]_vars PROVE TypeInv'
    BY Zenon
<1> USE Constants DEF TypeInv, BusyHasWork, Busy
<1>0. /\ TypeOK
      /\ OpenMeansAttemptsLeft
      /\ \A w \in Lanes : w[1] \in Instances /\ w[2] \in Consumers
      /\ Idle.row = NoRow /\ NoRow.attempts < MaxAttempts /\ Idle.phase = "idle"
    BY DEF Lanes, NoRow, Row, Idle
<1>1. ASSUME NEW e \in Events, Publish(e) PROVE TypeInv'
    BY <1>0, <1>1, Zenon DEF Publish, TypeOK, OpenMeansAttemptsLeft, Queued, OutboxRow, Time
<1>2. ASSUME NEW i \in Instances, Poll(i) PROVE TypeInv'
    <2>1. \A w \in Lanes : Due(w[2], clock) \subseteq Events
        BY <1>0, DueType, Zenon
    <2>2. QED
        BY <1>0, <1>2, <2>1, Zenon DEF Poll, TypeOK, OpenMeansAttemptsLeft
<1>3. ASSUME NEW w \in Lanes, TakeOffer(w) PROVE TypeInv'
    <2>1. /\ Leasing(offer[w]) \in Lane /\ Leasing(offer[w]).row = NoRow
          /\ Leasing(offer[w]).phase = "leasing"
        BY <1>0, LeasingType, Zenon DEF TypeOK
    <2>2. QED
        BY <1>0, <1>3, <2>1, Zenon DEF TakeOffer, TypeOK, OpenMeansAttemptsLeft
<1>4. ASSUME NEW w \in Lanes, NextBatch(w) PROVE TypeInv'
    <2> DEFINE ids == Due(w[2], clock)
    <2>1. Due(w[2], clock) \subseteq Events
        BY <1>0, DueType, Zenon
    <2>2. Leasing(ids) \in Lane /\ Leasing(ids).row = NoRow /\ Leasing(ids).phase = "leasing"
        BY <1>0, <2>1, LeasingType, Zenon DEF TypeOK
    <2>3. QED
        BY <1>0, <1>4, <2>2, Zenon DEF NextBatch, TypeOK, OpenMeansAttemptsLeft
<1>5. ASSUME NEW w \in Lanes, Lease(w) PROVE TypeInv'
    <2> DEFINE ids == Leasable(w)
    <2>1. lane[w] \in Lane /\ Until(w) \in Nat
        BY <1>0 DEF TypeOK, Lane, Until
    <2>2. ids \in SUBSET Events /\ \A e \in ids : ~Finished(att[e][w[2]])
        BY <2>1, Zenon DEF Leasable, Open, Lane
    <2>3. /\ Claimed(w, ids) \in Lane /\ Claimed(w, ids).row = lane[w].row
          /\ Claimed(w, ids).ids = ids
        BY <2>2, ClaimedType, Zenon
    <2> HIDE DEF ids
    <2>4. lane' = [lane EXCEPT ![w] = IF ids = {} THEN Idle ELSE Claimed(w, ids)]
        BY <1>5, Zenon DEF Lease, ids
    <2>5. \A e \in Events, c \in Consumers :
              att'[e][c] = IF c = w[2] /\ e \in ids
                           THEN [att[e][c] EXCEPT !.next = Until(w)] ELSE att[e][c]
        BY <1>5, Zenon DEF Lease, ids
    <2>6. \A e \in Events, c \in Consumers :
              LET a == [att[e][c] EXCEPT !.next = Until(w)]
              IN  /\ a \in AttemptRow
                  /\ Finished(a) <=> Finished(att[e][c])
                  /\ a.attempts = att[e][c].attempts
        <3>1. SUFFICES ASSUME NEW a \in AttemptRow
                       PROVE  LET b == [a EXCEPT !.next = Until(w)]
                              IN  /\ b \in AttemptRow
                                  /\ Finished(b) <=> Finished(a)
                                  /\ b.attempts = a.attempts
            BY <1>0 DEF TypeOK
        <3>2. QED
            BY <2>1, Zenon DEF AttemptRow, Finished, Time
    <2>7. att' \in [Events -> [Consumers -> AttemptRow]]
        BY <1>0, <1>5, <2>6 DEF Lease, TypeOK
    <2>8. \A e \in Events, c \in Consumers :
              ~Finished(att'[e][c]) => att'[e][c].attempts < MaxAttempts
        <3>1. SUFFICES ASSUME NEW e \in Events, NEW c \in Consumers, ~Finished(att'[e][c])
                       PROVE  att'[e][c].attempts < MaxAttempts
            BY Zenon
        <3>2. CASE c = w[2] /\ e \in ids
            <4>1. att'[e][c] = [att[e][c] EXCEPT !.next = Until(w)]
                BY <3>2, <2>5, Zenon
            <4>2. QED
                BY <1>0, <3>1, <4>1, <2>6 DEF OpenMeansAttemptsLeft
        <3>3. CASE ~(c = w[2] /\ e \in ids)
            BY <1>0, <3>1, <3>3, <2>5, Zenon DEF OpenMeansAttemptsLeft
        <3>4. QED
            BY <3>2, <3>3, Zenon
    <2>9. lane' \in [Lanes -> Lane]
        BY <1>0, <2>3, <2>4, Zenon DEF TypeOK
    <2>10. OpenMeansAttemptsLeft' /\ BusyHasWork'
        BY <1>0, <2>3, <2>4, <2>8, Zenon DEF OpenMeansAttemptsLeft, TypeOK
    <2>11. QED
        BY <1>0, <1>5, <2>7, <2>9, <2>10, Zenon DEF Lease, TypeOK
<1>6. ASSUME NEW w \in Lanes, LeaseFails(w) PROVE TypeInv'
    BY <1>0, <1>6, Zenon DEF LeaseFails, TypeOK, OpenMeansAttemptsLeft
<1>7. ASSUME NEW w \in Lanes, NEW r \in {"ok", "error", "malformed"}, HandlerReturns(w, r)
      PROVE TypeInv'
    <2> DEFINE e == Least(lane[w].ids)
               row == Outcome(r, lane[w].seen[e])
               next == [lane[w] EXCEPT !.phase = "recording", !.row = row]
    <2>1. lane[w] \in Lane /\ lane[w].ids # {} /\ lane[w].ids \in SUBSET Events
        BY <1>0, <1>7, Zenon DEF TypeOK, Lane, HandlerReturns
    <2>2. e \in Events
        BY <2>1, LeastIn, Zenon
    <2>3. lane[w].seen[e] \in 0..(MaxAttempts - 1)
        BY <2>1, <2>2, Zenon DEF Lane
    <2>4. row \in AttemptRow /\ (~Finished(row) => row.attempts < MaxAttempts)
        BY <1>0, <2>3, OutcomeType, Zenon DEF TypeOK
    <2> HIDE DEF e, row
    <2>5. next \in Lane /\ next.row = row /\ next.ids = lane[w].ids
        BY <2>1, <2>4, Zenon DEF Lane
    <2> HIDE DEF next
    <2>6. lane' = [lane EXCEPT ![w] = IF up[w[1]] = "stopping" THEN Idle ELSE next]
        BY <1>7, Zenon DEF HandlerReturns, e, row, next
    <2>7. handled' \subseteq Events \X Consumers
        BY <1>0, <1>7, <2>2 DEF HandlerReturns, TypeOK, e
    <2>8. TypeOK'
        BY <1>0, <1>7, <2>5, <2>6, <2>7 DEF HandlerReturns, TypeOK
    <2>9. OpenMeansAttemptsLeft' /\ BusyHasWork'
        BY <1>0, <1>7, <2>1, <2>4, <2>5, <2>6, ZenonT(60) DEF HandlerReturns, TypeOK, OpenMeansAttemptsLeft
    <2>10. QED
        BY <2>8, <2>9, Zenon
<1>8. ASSUME NEW w \in Lanes, Finish(w) PROVE TypeInv'
    <2> DEFINE e == Least(lane[w].ids)
               row == lane[w].row
    <2>1. lane[w] \in Lane /\ lane[w].ids # {} /\ lane[w].ids \in SUBSET Events
        BY <1>0, <1>8, Zenon DEF TypeOK, Lane, Finish
    <2>2. e \in Events /\ row \in AttemptRow
        BY <2>1, LeastIn, Zenon DEF Lane
    <2>3. ~Finished(row) => row.attempts < MaxAttempts
        BY <1>0, Zenon DEF OpenMeansAttemptsLeft
    <2>4. Processed(IF row.doneAt # Null THEN row.doneAt ELSE row.deadAt) \in OutboxRow
        BY <2>2, Zenon DEF Processed, OutboxRow, AttemptRow
    <2> HIDE DEF e, row
    <2>5. att' \in [Events -> [Consumers -> AttemptRow]]
        BY <1>0, <1>8, <2>2, Zenon DEF Finish, TypeOK, e, row
    <2>6. outbox' \in [Events -> OutboxRow]
        BY <1>0, <1>8, <2>2, <2>4, Zenon DEF Finish, TypeOK, e, row
    <2>7. \A f \in Events, c \in Consumers :
              ~Finished(att'[f][c]) => att'[f][c].attempts < MaxAttempts
        BY <1>0, <1>8, <2>2, <2>3, Zenon DEF Finish, TypeOK, OpenMeansAttemptsLeft, e, row
    <2>8. QED
        BY <1>0, <1>8, <2>5, <2>6, <2>7, AdvanceType, Zenon DEF Finish, TypeOK, OpenMeansAttemptsLeft
<1>9. ASSUME NEW w \in Lanes, FinishFails(w) PROVE TypeInv'
    BY <1>0, <1>9, AdvanceType, Zenon DEF FinishFails, TypeOK, OpenMeansAttemptsLeft
<1>10. ASSUME NEW e \in Events, NEW c \in Consumers, Retry(e, c) PROVE TypeInv'
    <2>1. Row(0, clock, att[e][c].doneAt, Null) \in AttemptRow
        BY <1>0 DEF TypeOK, Row, AttemptRow, Time, Null
    <2>2. Row(0, clock, att[e][c].doneAt, Null).attempts < MaxAttempts
        BY DEF Row
    <2>3. /\ att' \in [Events -> [Consumers -> AttemptRow]]
          /\ \A f \in Events, d \in Consumers :
                att'[f][d] \in {att[f][d], Row(0, clock, att[e][c].doneAt, Null)}
        <3>1. att' = [att EXCEPT ![e] = [att[e] EXCEPT ![c] = Row(0, clock, att[e][c].doneAt, Null)]]
            BY <1>0, <1>10, Zenon DEF Retry, Retryable, TypeOK
        <3>2. QED
            BY <1>0, <2>1, <3>1, Zenon DEF TypeOK
    <2>4. TypeOK'
        BY <1>0, <1>10, <2>3, Zenon DEF Retry, Retryable, TypeOK, Queued, OutboxRow, Time
    <2>5. OpenMeansAttemptsLeft' /\ BusyHasWork'
        BY <1>0, <1>10, <2>2, <2>3, Zenon DEF Retry, Retryable, OpenMeansAttemptsLeft
    <2>6. QED
        BY <2>4, <2>5, Zenon
<1>11. ASSUME NEW i \in Instances, SelectLetters(i) PROVE TypeInv'
    <2>1. \A ids \in SUBSET Events :
              [phase |-> "letters", ids |-> ids, cutoff |-> clock - DeadFor] \in Sweep
        BY <1>0 DEF TypeOK, Sweep
    <2>2. sweep' \in [Instances -> Sweep]
        BY <1>0, <1>11, <2>1, Zenon DEF SelectLetters, TypeOK
    <2>3. QED
        BY <1>0, <1>11, <2>2, Zenon DEF SelectLetters, TypeOK, OpenMeansAttemptsLeft
<1>12. ASSUME NEW i \in Instances, DeleteLetters(i) PROVE TypeInv'
    <2>1. sweep[i].ids \subseteq Events
        BY <1>0, Zenon DEF TypeOK, Sweep
    <2>2. att' \in [Events -> [Consumers -> AttemptRow]]
        BY <1>0, <1>12, Zenon DEF DeleteLetters, TypeOK
    <2>3. expired' \subseteq Events \X Consumers
        BY <1>0, <1>12, <2>1, Zenon DEF DeleteLetters, TypeOK
    <2>4. \A e \in Events, c \in Consumers : att'[e][c] \in {NoRow, att[e][c]}
        BY <1>0, <1>12, Zenon DEF DeleteLetters, TypeOK
    <2>5. QED
        BY <1>0, <1>12, <2>2, <2>3, <2>4, Zenon DEF DeleteLetters, TypeOK, OpenMeansAttemptsLeft
<1>13. ASSUME NEW i \in Instances, SelectProcessed(i) PROVE TypeInv'
    <2>1. \A ids \in SUBSET Events :
              [phase |-> "prune", ids |-> ids, cutoff |-> clock - Retention] \in Sweep
        BY <1>0 DEF TypeOK, Sweep
    <2>2. sweep' \in [Instances -> Sweep]
        BY <1>0, <1>13, <2>1, Zenon DEF SelectProcessed, TypeOK
    <2>3. QED
        BY <1>0, <1>13, <2>2, Zenon DEF SelectProcessed, TypeOK, OpenMeansAttemptsLeft
<1>14. ASSUME NEW i \in Instances, Prune(i) PROVE TypeInv'
    <2>1. att' \in [Events -> [Consumers -> AttemptRow]]
        BY <1>0, <1>14, Zenon DEF Prune, TypeOK
    <2>2. \A e \in Events, c \in Consumers : att'[e][c] \in {NoRow, att[e][c]}
        BY <1>0, <1>14, Zenon DEF Prune, TypeOK
    <2>3. outbox' \in [Events -> OutboxRow]
        BY <1>0, <1>14, Zenon DEF Prune, TypeOK, OutboxRow, Time
    <2>4. QED
        BY <1>0, <1>14, <2>1, <2>2, <2>3, Zenon DEF Prune, TypeOK, OpenMeansAttemptsLeft
<1>15. ASSUME NEW i \in Instances, Shutdown(i) PROVE TypeInv'
    BY <1>0, <1>15, Zenon DEF Shutdown, TypeOK, OpenMeansAttemptsLeft
<1>16. ASSUME NEW w \in Lanes, StopLane(w) PROVE TypeInv'
    BY <1>0, <1>16, Zenon DEF StopLane, TypeOK, OpenMeansAttemptsLeft
<1>17. ASSUME NEW i \in Instances, Gone(i) PROVE TypeInv'
    BY <1>0, <1>17, Zenon DEF Gone, TypeOK, OpenMeansAttemptsLeft
<1>18. ASSUME NEW i \in Instances, Start(i) PROVE TypeInv'
    BY <1>0, <1>18, Zenon DEF Start, TypeOK, OpenMeansAttemptsLeft
<1>19. ASSUME Tick PROVE TypeInv'
    <2>1. clock' \in Nat /\ UNCHANGED <<outbox, att, offer, lane, up, sweep, handled, expired>>
        BY <1>0, <1>19 DEF Tick, TypeOK
    <2>2. QED
        BY <1>0, <2>1, Zenon DEF TypeOK, OpenMeansAttemptsLeft
<1>20. ASSUME UNCHANGED vars PROVE TypeInv'
    BY <1>0, <1>20, ZenonT(60) DEF vars, TypeOK, OpenMeansAttemptsLeft
<1>21. QED
    BY <1>1, <1>2, <1>3, <1>4, <1>5, <1>6, <1>7, <1>8, <1>9, <1>10, <1>11, <1>12, <1>13,
       <1>14, <1>15, <1>16, <1>17, <1>18, <1>19, <1>20, SMTT(60) DEF Next, Exit, Crash

(* Every table, channel and lane of the queue keeps its type, and a row      *)
(* that is not finished always has attempts left, whatever the handlers, the *)
(* crashes and the sweeps do.                                                *)
THEOREM TypeCorrect == Spec => [](TypeOK /\ OpenMeansAttemptsLeft)
<1>1. Spec => []TypeInv
    BY TypeInit, TypeStep, PTL DEF Spec
<1>2. TypeInv => TypeOK /\ OpenMeansAttemptsLeft
    BY Zenon DEF TypeInv
<1>3. QED
    BY <1>1, <1>2, PTL

-----------------------------------------------------------------------------
(* The inductive invariant under Prompt.  A lane at work is within its       *)
(* lease, and while it is the event's rows are as its claim left them: that  *)
(* is what keeps every other lane, the dead-letter service and the           *)
(* housekeeper away from them.                                               *)
Scope ==
    \A w \in Lanes : offer[w] \subseteq Subscribed[w[2]] /\ lane[w].ids \subseteq Subscribed[w[2]]
InTime ==
    \A w \in Lanes :
        /\ lane[w].now <= clock
        /\ lane[w].phase \in {"leasing", "handling", "recording"} => clock < Until(w)
Held ==
    \A w \in Lanes : Busy(w) => \A e \in lane[w].ids :
        /\ outbox[e].state = "queued"
        /\ att[e][w[2]] = Row(lane[w].seen[e], Until(w), Null, Null)
Disjoint ==
    \A v, w \in Lanes :
        v # w /\ v[2] = w[2] /\ Busy(v) /\ Busy(w) => lane[v].ids \cap lane[w].ids = {}
Noted ==
    /\ \A w \in Lanes : lane[w].phase = "recording" =>
          /\ lane[w].row.attempts >= lane[w].seen[Least(lane[w].ids)]
          /\ lane[w].row.doneAt # Null => <<Least(lane[w].ids), w[2]>> \in handled
    /\ \A e \in Events, c \in Consumers : att[e][c].doneAt # Null => <<e, c>> \in handled
SafeInv ==
    TypeInv /\ Scope /\ InTime /\ Held /\ Disjoint /\ Noted
        /\ ProcessedMeansFinished /\ PrunedMeansHandled

LEMMA SafeInit == Init => SafeInv
<1>1. Init => TypeInv
    BY TypeInit, Zenon
<1>2. Init => Scope /\ InTime /\ Held /\ Disjoint
    BY DEF Init, Scope, InTime, Held, Disjoint, Busy, Idle
<1>3. Init => Noted /\ ProcessedMeansFinished /\ PrunedMeansHandled
    BY DEF Init, Noted, Idle, NoRow, Row, ProcessedMeansFinished, PrunedMeansHandled, Siblings
<1>4. QED
    BY <1>1, <1>2, <1>3, Zenon DEF SafeInv

(* A lane that is not at work after the step has nothing to keep.            *)
LEMMA LaneDropped ==
    ASSUME SafeInv, NEW w \in Lanes,
           \A v \in Lanes : v # w => lane'[v] = lane[v],
           lane'[w].phase \in {"idle", "full", "leasing"},
           lane'[w].ids \subseteq Subscribed[w[2]], lane'[w].now <= clock,
           lane'[w].phase = "leasing" => clock < lane'[w].now + ClaimLease,
           \A v \in Lanes : offer'[v] \subseteq Subscribed[v[2]],
           UNCHANGED <<clock, outbox, att, handled, expired>>,
           TypeInv'
    PROVE  SafeInv'
<1>1. /\ ~Busy(w)'
      /\ \A v \in Lanes : v # w => (Busy(v)' <=> Busy(v)) /\ Until(v)' = Until(v)
      /\ Until(w)' = lane'[w].now + ClaimLease
    BY Zenon DEF SafeInv, TypeInv, TypeOK, Busy, Until
<1>2. Scope' /\ InTime'
    BY <1>1, Zenon DEF SafeInv, Scope, InTime
<1>3. Held' /\ Disjoint'
    <2>1. Held'
        BY <1>1 DEF SafeInv, Held
    <2>2. Disjoint'
        BY <1>1, Zenon DEF SafeInv, Disjoint
    <2>3. QED
        BY <2>1, <2>2, Zenon
<1>4. Noted'
    BY <1>1, ZenonT(60) DEF SafeInv, Noted
<1>5. ProcessedMeansFinished' /\ PrunedMeansHandled'
    BY Zenon DEF SafeInv, ProcessedMeansFinished, PrunedMeansHandled
<1>6. QED
    BY <1>2, <1>3, <1>4, <1>5, Zenon DEF SafeInv

(* A step of the tables that leaves the rows of lanes at work alone.         *)
LEMMA RowsLeftAlone ==
    ASSUME SafeInv, TypeInv', UNCHANGED <<clock, offer, lane, handled>>,
           \A w \in Lanes : Busy(w) => \A e \in lane[w].ids :
               outbox'[e].state = "queued" /\ att'[e][w[2]] = att[e][w[2]],
           \A e \in Events, c \in Consumers :
               att'[e][c].doneAt # Null => att[e][c].doneAt # Null,
           ProcessedMeansFinished', PrunedMeansHandled'
    PROVE  SafeInv'
<1>1. /\ \A v \in Lanes : (Busy(v)' <=> Busy(v)) /\ Until(v)' = Until(v)
    BY Zenon DEF Busy, Until
<1>2. Scope' /\ InTime' /\ Disjoint'
    BY <1>1, Zenon DEF SafeInv, Scope, InTime, Disjoint
<1>3. Held'
    BY <1>1, SMTT(60) DEF SafeInv, Held
<1>4. Noted'
    BY Zenon DEF SafeInv, Noted
<1>5. QED
    BY <1>2, <1>3, <1>4, Zenon DEF SafeInv

(* What Held says of one event of a lane at work.                            *)
LEMMA HeldRows ==
    ASSUME SafeInv
    PROVE  \A w \in Lanes : Busy(w) => \A e \in lane[w].ids :
               /\ e \in Events
               /\ outbox[e].state = "queued"
               /\ att[e][w[2]].doneAt = Null /\ att[e][w[2]].deadAt = Null
               /\ att[e][w[2]].next = Until(w) /\ att[e][w[2]].attempts = lane[w].seen[e]
<1>1. SUFFICES ASSUME NEW w \in Lanes, Busy(w), NEW e \in lane[w].ids
               PROVE  /\ e \in Events
                      /\ outbox[e].state = "queued"
                      /\ att[e][w[2]].doneAt = Null /\ att[e][w[2]].deadAt = Null
                      /\ att[e][w[2]].next = Until(w) /\ att[e][w[2]].attempts = lane[w].seen[e]
    BY Zenon
<1>2. e \in Events
    BY Zenon DEF SafeInv, TypeInv, TypeOK, Lane
<1>3. outbox[e].state = "queued" /\ att[e][w[2]] = Row(lane[w].seen[e], Until(w), Null, Null)
    BY <1>1, Zenon DEF SafeInv, Held
<1>4. QED
    BY <1>2, <1>3, SMTT(60) DEF Row

(* After an event, a lane goes on with the rest of its batch or drops it.    *)
LEMMA AdvanceCases ==
    ASSUME TypeInv, NEW w \in Lanes
    PROVE  \/ /\ Advance(w).phase \in {"idle", "full"}
              /\ Advance(w).ids = {} /\ Advance(w).now = 0
           \/ /\ Advance(w).phase = "handling"
              /\ Advance(w).ids = lane[w].ids \ {Least(lane[w].ids)}
              /\ Advance(w).now = lane[w].now /\ Advance(w).seen = lane[w].seen
<1>1. lane[w] \in Lane
    BY Zenon DEF TypeInv, TypeOK
<1>2. CASE lane[w].ids \ {Least(lane[w].ids)} # {}
    <2>1. Advance(w) = [lane[w] EXCEPT !.phase = "handling",
                           !.ids = lane[w].ids \ {Least(lane[w].ids)}, !.row = NoRow]
        BY <1>2, Zenon DEF Advance
    <2>2. QED
        BY <1>1, <2>1, Zenon DEF Lane
<1>3. CASE lane[w].ids \ {Least(lane[w].ids)} = {}
    <2>1. Advance(w) = Idle \/ Advance(w) = [Idle EXCEPT !.phase = "full"]
        BY <1>3, Zenon DEF Advance
    <2>2. QED
        BY <2>1, SMTT(60) DEF Idle
<1>4. QED
    BY <1>2, <1>3, Zenon

LEMMA SafeStep ==
    ASSUME Prompt, SafeInv, [Next]_vars
    PROVE  SafeInv'
<1>0. /\ TypeInv /\ TypeOK /\ TypeInv' /\ TypeOK'
      /\ \A w \in Lanes : w[1] \in Instances /\ w[2] \in Consumers
      /\ \A w \in Lanes : lane[w] \in Lane
      /\ clock \in Nat
      /\ \A w \in Lanes : offer[w] \subseteq Subscribed[w[2]]
    BY TypeStep, ZenonT(60) DEF SafeInv, TypeInv, TypeOK, Lanes, Scope
<1>00. /\ Idle \in Lane /\ Idle.phase = "idle" /\ Idle.ids = {} /\ Idle.now = 0
    BY Constants, Zenon DEF Idle
<1>1. ASSUME NEW e \in Events, Publish(e) PROVE SafeInv'
    <2>1. outbox[e].state = "absent" /\ outbox' = [outbox EXCEPT ![e] = Queued]
        BY <1>1, Zenon DEF Publish
    <2>2. \A w \in Lanes : Busy(w) => \A f \in lane[w].ids : outbox'[f].state = "queued"
        BY <1>0, <2>1, HeldRows, Zenon DEF TypeOK, Queued
    <2>3. ProcessedMeansFinished' /\ PrunedMeansHandled'
        BY <1>0, <1>1, <2>1, SMTT(60) DEF Publish, Queued, TypeOK, SafeInv, ProcessedMeansFinished, PrunedMeansHandled
    <2>4. QED
        BY <1>0, <1>1, <2>2, <2>3, RowsLeftAlone, Zenon DEF Publish
<1>2. ASSUME NEW i \in Instances, Poll(i) PROVE SafeInv'
    <2>1. \A w \in Lanes : offer'[w] \subseteq Subscribed[w[2]]
        BY <1>0, <1>2, DueType, Zenon DEF Poll, SafeInv, Scope
    <2>2. UNCHANGED <<clock, outbox, att, lane, handled, expired>>
        BY <1>2, Zenon DEF Poll
    <2>3. /\ \A v \in Lanes : (Busy(v)' <=> Busy(v)) /\ Until(v)' = Until(v)
        BY <2>2, Zenon DEF Busy, Until
    <2>4. Scope' /\ InTime' /\ Disjoint' /\ Held' /\ Noted'
        BY <2>1, <2>2, <2>3, SMTT(60) DEF SafeInv, Scope, InTime, Disjoint, Held, Noted
    <2>5. ProcessedMeansFinished' /\ PrunedMeansHandled'
        BY <2>2, Zenon DEF SafeInv, ProcessedMeansFinished, PrunedMeansHandled
    <2>6. QED
        BY <1>0, <2>4, <2>5, Zenon DEF SafeInv
<1>3. ASSUME NEW w \in Lanes, TakeOffer(w) PROVE SafeInv'
    <2>1. /\ Leasing(offer[w]) \in Lane /\ Leasing(offer[w]).phase = "leasing"
          /\ Leasing(offer[w]).now = clock /\ Leasing(offer[w]).ids = offer[w]
        BY <1>0, Constants, LeasingType, ZenonT(60) DEF TypeOK, Leasing, Idle
    <2>3. /\ \A v \in Lanes : v # w => lane'[v] = lane[v]
          /\ lane'[w].phase \in {"idle", "leasing"}
          /\ lane'[w].ids \subseteq Subscribed[w[2]] /\ lane'[w].now <= clock
          /\ lane'[w].phase = "leasing" => clock < lane'[w].now + ClaimLease
        BY <1>0, <1>00, <1>3, <2>1, SMTT(60) DEF TakeOffer, TypeOK
    <2>4. /\ \A v \in Lanes : offer'[v] \subseteq Subscribed[v[2]]
          /\ UNCHANGED <<clock, outbox, att, handled, expired>>
        BY <1>0, <1>3, Zenon DEF TakeOffer, TypeOK
    <2>5. QED
        BY <1>0, <2>3, <2>4, LaneDropped, Zenon
<1>4. ASSUME NEW w \in Lanes, NextBatch(w) PROVE SafeInv'
    <2> DEFINE ids == Due(w[2], clock)
    <2>1. ids \subseteq Subscribed[w[2]] /\ ids \subseteq Events
        BY <1>0, DueType, Zenon
    <2>2. /\ Leasing(ids) \in Lane /\ Leasing(ids).phase = "leasing"
          /\ Leasing(ids).now = clock /\ Leasing(ids).ids = ids
        BY <1>0, <2>1, LeasingType, ZenonT(60) DEF TypeOK, Leasing, Idle
    <2>3. /\ \A v \in Lanes : v # w => lane'[v] = lane[v]
          /\ lane'[w].phase \in {"idle", "leasing"}
          /\ lane'[w].ids \subseteq Subscribed[w[2]] /\ lane'[w].now <= clock
          /\ lane'[w].phase = "leasing" => clock < lane'[w].now + ClaimLease
        BY <1>0, <1>00, <1>4, <2>1, <2>2, SMTT(60) DEF NextBatch, TypeOK
    <2>4. /\ \A v \in Lanes : offer'[v] \subseteq Subscribed[v[2]]
          /\ UNCHANGED <<clock, outbox, att, handled, expired>>
        BY <1>0, <1>4, Zenon DEF NextBatch, TypeOK
    <2>5. QED
        BY <1>0, <2>3, <2>4, LaneDropped, Zenon
<1>6. ASSUME NEW w \in Lanes, LeaseFails(w) PROVE SafeInv'
    <2>3. /\ \A v \in Lanes : v # w => lane'[v] = lane[v]
          /\ lane'[w].phase \in {"idle", "leasing"}
          /\ lane'[w].ids \subseteq Subscribed[w[2]] /\ lane'[w].now <= clock
          /\ lane'[w].phase = "leasing" => clock < lane'[w].now + ClaimLease
        BY <1>0, <1>00, <1>6, SMTT(60) DEF LeaseFails, TypeOK
    <2>4. /\ \A v \in Lanes : offer'[v] \subseteq Subscribed[v[2]]
          /\ UNCHANGED <<clock, outbox, att, handled, expired>>
        BY <1>0, <1>6, Zenon DEF LeaseFails, TypeOK
    <2>5. QED
        BY <1>0, <2>3, <2>4, LaneDropped, Zenon
<1>16. ASSUME NEW w \in Lanes, StopLane(w) PROVE SafeInv'
    <2>3. /\ \A v \in Lanes : v # w => lane'[v] = lane[v]
          /\ lane'[w].phase \in {"idle", "leasing"}
          /\ lane'[w].ids \subseteq Subscribed[w[2]] /\ lane'[w].now <= clock
          /\ lane'[w].phase = "leasing" => clock < lane'[w].now + ClaimLease
        BY <1>0, <1>00, <1>16, SMTT(60) DEF StopLane, TypeOK
    <2>4. /\ \A v \in Lanes : offer'[v] \subseteq Subscribed[v[2]]
          /\ UNCHANGED <<clock, outbox, att, handled, expired>>
        BY <1>0, <1>16, Zenon DEF StopLane, TypeOK
    <2>5. QED
        BY <1>0, <2>3, <2>4, LaneDropped, Zenon
<1>10. ASSUME NEW e \in Events, NEW c \in Consumers, Retry(e, c) PROVE SafeInv'
    <2> DEFINE r == Row(0, clock, att[e][c].doneAt, Null)
    <2>1. /\ att' = [att EXCEPT ![e] = [att[e] EXCEPT ![c] = r]]
          /\ outbox' = [outbox EXCEPT ![e] = Queued]
          /\ att[e][c].deadAt # Null /\ outbox[e].state \in {"queued", "processed"}
          /\ r.doneAt = att[e][c].doneAt
        BY <1>10, Zenon DEF Retry, Retryable, Row
    <2> HIDE DEF r
    <2>2. \A f \in Events, d \in Consumers : att'[f][d] = IF f = e /\ d = c THEN r ELSE att[f][d]
        BY <1>0, <2>1, SMTT(60) DEF TypeOK
    <2>3. \A w \in Lanes : Busy(w) => \A f \in lane[w].ids : att'[f][w[2]] = att[f][w[2]]
        BY <1>0, <2>1, <2>2, HeldRows, SMTT(60)
    <2>4. \A w \in Lanes : Busy(w) => \A f \in lane[w].ids : outbox'[f].state = "queued"
        BY <1>0, <2>1, HeldRows, Zenon DEF Queued, TypeOK
    <2>5. ProcessedMeansFinished' /\ PrunedMeansHandled'
        BY <1>0, <1>10, <2>1, <2>2, SMTT(60) DEF Retry, Queued, TypeOK, SafeInv, ProcessedMeansFinished, PrunedMeansHandled, Siblings
    <2>6. QED
        BY <1>0, <1>10, <2>1, <2>2, <2>3, <2>4, <2>5, RowsLeftAlone, SMTT(60) DEF Retry
<1>5. ASSUME NEW w \in Lanes, Lease(w) PROVE SafeInv'
    <2> DEFINE ids == Leasable(w)
    <2>1. ids \subseteq lane[w].ids /\ ids \in SUBSET Events /\ \A e \in ids :
              ~Finished(att[e][w[2]]) /\ outbox[e].state = "queued" /\ att[e][w[2]].next <= lane[w].now
        BY <1>0, Zenon DEF Leasable, Open, Lane
    <2>2. /\ Claimed(w, ids) \in Lane /\ Claimed(w, ids).phase = "handling"
          /\ Claimed(w, ids).ids = ids /\ Claimed(w, ids).now = lane[w].now
          /\ \A e \in ids : Claimed(w, ids).seen[e] = att[e][w[2]].attempts
        <3>1. Claimed(w, ids) \in Lane /\ Claimed(w, ids).ids = ids
            BY <1>0, <2>1, ClaimedType, Zenon
        <3>2. Claimed(w, ids).phase = "handling" /\ Claimed(w, ids).now = lane[w].now
            BY <1>0, Zenon DEF Claimed, Lane
        <3>3. Claimed(w, ids).seen = [e \in Events |-> IF e \in ids THEN att[e][w[2]].attempts ELSE 0]
            BY <1>0, Zenon DEF Claimed, Lane
        <3>4. QED
            BY <2>1, <3>1, <3>2, <3>3, Zenon
    <2>3. \A e \in Events, c \in Consumers :
              att'[e][c] = IF c = w[2] /\ e \in ids
                           THEN [att[e][c] EXCEPT !.next = Until(w)] ELSE att[e][c]
        BY <1>5, Zenon DEF Lease
    <2>4. lane' = [lane EXCEPT ![w] = IF ids = {} THEN Idle ELSE Claimed(w, ids)]
        BY <1>5, Zenon DEF Lease
    <2>5. UNCHANGED <<clock, outbox, offer, handled, expired>> /\ lane[w].phase = "leasing"
        BY <1>5, Zenon DEF Lease
    <2> HIDE DEF ids
    <2>6. \A e \in Events, c \in Consumers :
              /\ att[e][c] \in AttemptRow
              /\ att'[e][c].doneAt = att[e][c].doneAt /\ (Finished(att[e][c])' <=> Finished(att[e][c]))
        <3>1. \A e \in Events, c \in Consumers : att[e][c] \in AttemptRow
            BY <1>0 DEF TypeOK
        <3>2. \A e \in Events, c \in Consumers :
                  att'[e][c].doneAt = att[e][c].doneAt /\ att'[e][c].deadAt = att[e][c].deadAt
            BY <2>3, <3>1, ZenonT(60) DEF AttemptRow
        <3>3. QED
            BY <3>1, <3>2, Zenon DEF Finished
    <2>7. \A e \in ids : att'[e][w[2]] = Row(att[e][w[2]].attempts, Until(w), Null, Null)
        <3>1. \A a \in AttemptRow : ~Finished(a) =>
                  [a EXCEPT !.next = Until(w)] = Row(a.attempts, Until(w), Null, Null)
            BY DEF AttemptRow, Row, Finished
        <3>2. SUFFICES ASSUME NEW e \in ids
                       PROVE  att'[e][w[2]] = Row(att[e][w[2]].attempts, Until(w), Null, Null)
            BY Zenon
        <3>3. att[e][w[2]] \in AttemptRow /\ ~Finished(att[e][w[2]])
            BY <1>0, <2>1, <2>6, Zenon
        <3>4. att'[e][w[2]] = [att[e][w[2]] EXCEPT !.next = Until(w)]
            BY <1>0, <2>1, <2>3, Zenon
        <3>5. QED
            BY <3>1, <3>3, <3>4, Zenon
    <2>8. \A v \in Lanes : v # w => lane'[v] = lane[v] /\ (Busy(v)' <=> Busy(v)) /\ Until(v)' = Until(v)
        BY <1>0, <2>4, Zenon DEF TypeOK, Busy, Until
    <2>9. /\ lane'[w] = IF ids = {} THEN Idle ELSE Claimed(w, ids)
          /\ Busy(w)' => Until(w)' = Until(w) /\ lane'[w].ids = ids /\ lane'[w] = Claimed(w, ids)
        BY <1>0, <1>00, <2>2, <2>4, Zenon DEF TypeOK, Busy, Until
    <2>10. \A v \in Lanes : v # w /\ v[2] = w[2] /\ Busy(v) => lane[v].ids \cap ids = {}
        <3>1. SUFFICES ASSUME NEW v \in Lanes, v # w, v[2] = w[2], Busy(v), NEW e \in ids, e \in lane[v].ids
                       PROVE  FALSE
            BY Zenon
        <3>2. att[e][w[2]].next = Until(v) /\ clock < Until(v)
            BY <3>1, HeldRows, SMTT(60) DEF SafeInv, InTime, Busy
        <3>3. att[e][w[2]].next <= lane[w].now /\ lane[w].now <= clock
            BY <2>1, Zenon DEF SafeInv, InTime
        <3>4. Until(v) \in Nat /\ lane[w].now \in Nat
            BY <1>0, SMTT(60) DEF Lane, Until
        <3>5. QED
            BY <1>0, <3>2, <3>3, <3>4, SMTT(60)
    <2>11. Scope' /\ InTime'
        <3>1. /\ lane'[w].ids \subseteq Subscribed[w[2]] /\ lane'[w].now <= clock
              /\ lane'[w].phase \in {"leasing", "handling", "recording"} => clock < Until(w)'
            <4>1. /\ lane[w].ids \subseteq Subscribed[w[2]] /\ lane[w].now <= clock
                  /\ clock < Until(w)
                BY <2>5, Zenon DEF SafeInv, Scope, InTime
            <4>2. CASE ids = {}
                BY <1>0, <1>00, <2>9, <4>2, SMTT(60)
            <4>3. CASE ids # {}
                BY <2>1, <2>2, <2>9, <4>1, <4>3, ZenonT(60) DEF Busy
            <4>4. QED
                BY <4>2, <4>3, Zenon
        <3>2. QED
            BY <1>0, <2>5, <2>8, <3>1, Zenon DEF SafeInv, Scope, InTime
    <2>12. Held'
        <3>1. SUFFICES ASSUME NEW v \in Lanes, Busy(v)', NEW e \in lane'[v].ids
                       PROVE  /\ outbox'[e].state = "queued"
                              /\ att'[e][v[2]] = Row(lane'[v].seen[e], Until(v)', Null, Null)
            BY Zenon DEF Held
        <3>2. CASE v = w
            <4>1. lane'[w] = Claimed(w, ids) /\ e \in ids /\ Until(w)' = Until(w)
                BY <2>9, <3>1, <3>2, Zenon
            <4>2. QED
                BY <2>1, <2>2, <2>5, <2>7, <3>2, <4>1, Zenon
        <3>3. CASE v # w
            <4>1. Busy(v) /\ e \in lane[v].ids /\ e \in Events
                BY <2>8, <3>1, <3>3, HeldRows, Zenon
            <4>2. att'[e][v[2]] = att[e][v[2]]
                BY <1>0, <2>3, <2>10, <3>3, <4>1, Zenon
            <4>3. outbox[e].state = "queued" /\ att[e][v[2]] = Row(lane[v].seen[e], Until(v), Null, Null)
                BY <4>1, Zenon DEF SafeInv, Held
            <4>4. QED
                BY <2>5, <2>8, <3>3, <4>2, <4>3, Zenon
        <3>4. QED
            BY <3>2, <3>3, Zenon
    <2>13. Disjoint'
        BY <2>8, <2>9, <2>10 DEF SafeInv, Disjoint
    <2>14. Noted'
        BY <1>00, <2>2, <2>5, <2>6, <2>8, <2>9, ZenonT(60) DEF SafeInv, Noted
    <2>15. ProcessedMeansFinished' /\ PrunedMeansHandled'
        BY <2>5, <2>6, Zenon DEF SafeInv, ProcessedMeansFinished, PrunedMeansHandled, Siblings
    <2>16. QED
        BY <1>0, <2>11, <2>12, <2>13, <2>14, <2>15, Zenon DEF SafeInv
<1>7. ASSUME NEW w \in Lanes, NEW r \in {"ok", "error", "malformed"}, HandlerReturns(w, r)
      PROVE SafeInv'
    <2> DEFINE e == Least(lane[w].ids)
               row == Outcome(r, lane[w].seen[e])
               next == [lane[w] EXCEPT !.phase = "recording", !.row = row]
    <2>1. lane[w].phase = "handling" /\ UNCHANGED <<clock, outbox, att, offer, expired>>
        BY <1>7, Zenon DEF HandlerReturns
    <2>2. e \in lane[w].ids /\ lane[w].seen[e] \in 0..(MaxAttempts - 1)
        <3>1. lane[w].ids # {} /\ lane[w].ids \in SUBSET Events
            BY <1>0, <2>1, Zenon DEF TypeInv, BusyHasWork, Busy, Lane
        <3>2. e \in lane[w].ids /\ e \in Events
            BY <3>1, LeastIn, Zenon
        <3>3. QED
            BY <1>0, <3>2, ZenonT(60) DEF Lane
    <2>3. row.attempts >= lane[w].seen[e] /\ (row.doneAt # Null => r = "ok")
        BY <1>0, <2>2, OutcomeType, Zenon
    <2> HIDE DEF e, row
    <2>4. /\ next.phase = "recording" /\ next.row = row /\ next.ids = lane[w].ids
          /\ next.now = lane[w].now /\ next.seen = lane[w].seen
        BY <1>0, Zenon DEF Lane
    <2> HIDE DEF next
    <2>5. lane' = [lane EXCEPT ![w] = IF up[w[1]] = "stopping" THEN Idle ELSE next]
        BY <1>7, Zenon DEF HandlerReturns, e, row, next
    <2>6. handled \subseteq handled' /\ (r = "ok" => <<e, w[2]>> \in handled')
        BY <1>7, Zenon DEF HandlerReturns, e
    <2>7. \A v \in Lanes : v # w => lane'[v] = lane[v] /\ (Busy(v)' <=> Busy(v)) /\ Until(v)' = Until(v)
        BY <1>0, <2>5, Zenon DEF TypeOK, Busy, Until
    <2>8. lane'[w] = Idle \/ lane'[w] = next
        BY <1>0, <2>5, Zenon DEF TypeOK
    <2>9. CASE lane'[w] = Idle
        <3>1. ~Busy(w)' /\ lane'[w].phase # "recording" /\ lane'[w].phase = "idle"
            BY <1>00, <2>9, Zenon DEF Busy
        <3>2. Scope' /\ InTime'
            <4>1. lane'[w].ids \subseteq Subscribed[w[2]] /\ lane'[w].now <= clock
                BY <1>0, <1>00, <2>9
            <4>2. QED
                BY <1>0, <2>1, <2>7, <3>1, <4>1, Zenon DEF SafeInv, Scope, InTime
        <3>3. Held' /\ Disjoint'
            <4>1. Held'
                BY <2>1, <2>7, <3>1, SMTT(60) DEF SafeInv, Held
            <4>2. Disjoint'
                BY <2>1, <2>7, <3>1, Zenon DEF SafeInv, Disjoint
            <4>3. QED
                BY <4>1, <4>2, Zenon
        <3>4. Noted'
            BY <2>1, <2>6, <2>7, <3>1, Zenon DEF SafeInv, Noted
        <3>5. ProcessedMeansFinished' /\ PrunedMeansHandled'
            BY <2>1, <2>6, Zenon DEF SafeInv, ProcessedMeansFinished, PrunedMeansHandled
        <3>6. QED
            BY <1>0, <3>2, <3>3, <3>4, <3>5, Zenon DEF SafeInv
    <2>10. CASE lane'[w] = next
        <3>1. Busy(w)' /\ Busy(w) /\ Until(w)' = Until(w)
            BY <2>1, <2>4, <2>10, Zenon DEF Busy, Until
        <3>2. Scope' /\ InTime'
            BY <1>0, <2>1, <2>4, <2>7, <2>10, <3>1, Zenon DEF SafeInv, Scope, InTime
        <3>3. Held'
            BY <2>1, <2>4, <2>7, <2>10, <3>1, SMTT(60) DEF SafeInv, Held
        <3>4. Disjoint'
            BY <2>4, <2>7, <2>10, <3>1, SMTT(60) DEF SafeInv, Disjoint
        <3>5. Noted'
            BY <2>1, <2>3, <2>4, <2>6, <2>7, <2>10, ZenonT(60) DEF SafeInv, Noted, e
        <3>6. ProcessedMeansFinished' /\ PrunedMeansHandled'
            BY <2>1, <2>6, Zenon DEF SafeInv, ProcessedMeansFinished, PrunedMeansHandled
        <3>7. QED
            BY <1>0, <3>2, <3>3, <3>4, <3>5, <3>6, Zenon DEF SafeInv
    <2>11. QED
        BY <2>8, <2>9, <2>10, Zenon
<1>8. ASSUME NEW w \in Lanes, Finish(w) \/ FinishFails(w) PROVE SafeInv'
    <2> DEFINE e == Least(lane[w].ids)
               row == lane[w].row
    <2>1. /\ lane[w].phase = "recording" /\ Busy(w)
          /\ UNCHANGED <<clock, offer, handled, expired>>
          /\ lane' = [lane EXCEPT ![w] = Advance(w)]
        BY <1>8, Zenon DEF Finish, FinishFails, Busy
    <2>2. e \in lane[w].ids /\ e \in Events /\ outbox[e].state = "queued"
        <3>1. lane[w].ids # {} /\ lane[w].ids \in SUBSET Events
            BY <1>0, <2>1, Zenon DEF TypeInv, BusyHasWork, Lane
        <3>2. QED
            BY <2>1, <3>1, LeastIn, HeldRows, Zenon
    <2>3. /\ row.doneAt # Null => <<e, w[2]>> \in handled
          /\ row \in AttemptRow
        BY <1>0, <2>1, Zenon DEF SafeInv, Noted, Lane
    <2> HIDE DEF e, row
    <2>4. \A f \in Events, c \in Consumers :
              att'[f][c] = att[f][c] \/ (f = e /\ c = w[2] /\ att'[f][c] = row)
        BY <1>0, <1>8, <2>2, SMTT(60) DEF Finish, FinishFails, TypeOK, e, row
    <2>5. /\ \A f \in Events : f # e => outbox'[f] = outbox[f]
          /\ \/ outbox'[e] = outbox[e]
             \/ /\ outbox'[e].state = "processed" /\ Finished(row) /\ LastToFinish(e, w[2])
                /\ att'[e][w[2]] = row
        <3>1. CASE FinishFails(w)
            BY <3>1, Zenon DEF FinishFails
        <3>2. CASE Finish(w)
            <4> DEFINE p == Processed(IF row.doneAt # Null THEN row.doneAt ELSE row.deadAt)
            <4>1. p.state = "processed"
                BY Zenon DEF Processed
            <4> HIDE DEF p
            <4>2. att'[e][w[2]] = row
                BY <1>0, <2>2, <3>2, Zenon DEF Finish, TypeOK, e, row
            <4>3. \/ outbox' = outbox
                  \/ /\ outbox' = [outbox EXCEPT ![e] = p]
                     /\ Finished(row) /\ LastToFinish(e, w[2])
                BY <3>2, Zenon DEF Finish, e, row, p
            <4>4. QED
                BY <1>0, <2>2, <4>1, <4>2, <4>3 DEF TypeOK
        <3>3. QED
            BY <1>8, <3>1, <3>2, Zenon
    <2>6. \A v \in Lanes : v # w => lane'[v] = lane[v] /\ (Busy(v)' <=> Busy(v)) /\ Until(v)' = Until(v)
        BY <1>0, <2>1, Zenon DEF TypeOK, Busy, Until
    <2>7. lane'[w] = Advance(w)
        BY <1>0, <2>1, Zenon DEF TypeOK
    <2>8. \/ /\ ~Busy(w)' /\ lane'[w].phase \in {"idle", "full"}
             /\ lane'[w].ids = {} /\ lane'[w].now = 0
          \/ /\ lane'[w].phase = "handling" /\ Busy(w)' /\ Until(w)' = Until(w)
             /\ lane'[w].ids = lane[w].ids \ {e}
             /\ lane'[w].now = lane[w].now /\ lane'[w].seen = lane[w].seen
        BY <1>0, <2>7, AdvanceCases, Zenon DEF Busy, Until, e
    <2>9. \A v \in Lanes : Busy(v)' =>
              /\ Busy(v) /\ Until(v)' = Until(v) /\ lane'[v].seen = lane[v].seen
              /\ lane'[v].ids \subseteq lane[v].ids
              /\ v[2] = w[2] => e \notin lane'[v].ids
        BY <2>1, <2>2, <2>6, <2>8, Zenon DEF SafeInv, Disjoint
    <2>10. Scope' /\ InTime'
        <3>1. /\ lane'[w].ids \subseteq Subscribed[w[2]] /\ lane'[w].now <= clock
              /\ lane'[w].phase \in {"leasing", "handling", "recording"} => clock < Until(w)'
            BY <1>0, <2>1, <2>8, SMTT(60) DEF SafeInv, Scope, InTime
        <3>2. QED
            BY <1>0, <2>1, <2>6, <3>1, Zenon DEF SafeInv, Scope, InTime
    <2>11. Held'
        <3>1. SUFFICES ASSUME NEW v \in Lanes, Busy(v)', NEW f \in lane'[v].ids
                       PROVE  /\ outbox'[f].state = "queued"
                              /\ att'[f][v[2]] = Row(lane'[v].seen[f], Until(v)', Null, Null)
            BY Zenon DEF Held
        <3>2. Busy(v) /\ f \in lane[v].ids /\ f \in Events /\ (v[2] = w[2] => f # e)
            BY <2>9, <3>1, HeldRows, SMTT(60)
        <3>3. /\ outbox[f].state = "queued" /\ att[f][v[2]] = Row(lane[v].seen[f], Until(v), Null, Null)
              /\ ~Finished(att[f][v[2]])
            BY <3>2, SMTT(60) DEF SafeInv, Held, Row, Finished
        <3>4. att'[f][v[2]] = att[f][v[2]]
            BY <1>0, <2>4, <3>2
        <3>5. outbox'[f].state = "queued"
            <4>1. CASE f # e
                BY <2>5, <3>2, <3>3, <4>1, Zenon
            <4>2. CASE f = e
                <5>1. v[2] \in Siblings(e) \ {w[2]}
                    BY <1>0, <3>2, <4>2, Zenon DEF SafeInv, Scope, Siblings
                <5>2. ~LastToFinish(e, w[2])
                    BY <3>3, <4>2, <5>1, Zenon DEF LastToFinish
                <5>3. QED
                    BY <2>5, <3>3, <4>2, <5>2, Zenon
            <4>3. QED
                BY <4>1, <4>2, Zenon
        <3>6. QED
            BY <2>9, <3>1, <3>3, <3>4, <3>5, Zenon
    <2>12. Disjoint'
        BY <2>6, <2>9, SMTT(60) DEF SafeInv, Disjoint
    <2>13. Noted'
        <3>1. \A v \in Lanes : lane'[v].phase = "recording" => v # w /\ lane'[v] = lane[v]
            BY <2>6, <2>8, Zenon
        <3>2. QED
            <4>1. \A f \in Events, c \in Consumers : att'[f][c].doneAt # Null => <<f, c>> \in handled'
                BY <2>1, <2>3, <2>4, ZenonT(60) DEF SafeInv, Noted
            <4>2. QED
                BY <2>1, <3>1, <4>1, SMTT(60) DEF SafeInv, Noted
    <2>14. ProcessedMeansFinished'
        <3>1. SUFFICES ASSUME NEW f \in Events, outbox'[f].state = "processed", NEW c \in Siblings(f)
                       PROVE  Finished(att'[f][c]) \/ <<f, c>> \in expired
            BY <2>1, Zenon DEF ProcessedMeansFinished, Siblings
        <3>2. c \in Consumers
            BY Zenon DEF Siblings
        <3>3. CASE f # e
            BY <2>4, <2>5, <3>1, <3>2, <3>3, ZenonT(60) DEF SafeInv, ProcessedMeansFinished
        <3>4. CASE f = e
            <4>1. /\ Finished(row) /\ LastToFinish(e, w[2]) /\ att'[e][w[2]] = row
                BY <2>2, <2>5, <3>1, <3>4, Zenon
            <4>2. CASE c = w[2]
                BY <3>4, <4>1, <4>2, Zenon
            <4>3. CASE c # w[2]
                BY <2>4, <3>1, <3>2, <3>4, <4>1, <4>3, Zenon DEF LastToFinish
            <4>4. QED
                BY <4>2, <4>3, Zenon
        <3>5. QED
            BY <3>3, <3>4, Zenon
    <2>15. PrunedMeansHandled'
        BY <2>1, <2>2, <2>5, Zenon DEF SafeInv, PrunedMeansHandled, Siblings
    <2>16. QED
        BY <1>0, <2>10, <2>11, <2>12, <2>13, <2>14, <2>15, Zenon DEF SafeInv
<1>9. ASSUME NEW i \in Instances, SelectLetters(i) \/ SelectProcessed(i) \/ Start(i) \/ Shutdown(i)
      PROVE SafeInv'
    <2>1. UNCHANGED <<clock, outbox, att, offer, lane, handled, expired>>
        BY <1>9, Zenon DEF SelectLetters, SelectProcessed, Start, Shutdown
    <2>2. ProcessedMeansFinished' /\ PrunedMeansHandled'
        BY <2>1, Zenon DEF SafeInv, ProcessedMeansFinished, PrunedMeansHandled
    <2>3. QED
        BY <1>0, <2>1, <2>2, HeldRows, RowsLeftAlone, Zenon
<1>12. ASSUME NEW i \in Instances, DeleteLetters(i) PROVE SafeInv'
    <2> DEFINE gone == {p \in sweep[i].ids \X Consumers : OldLetter(att[p[1]][p[2]], sweep[i].cutoff)}
    <2>1. /\ UNCHANGED <<clock, outbox, offer, lane, handled>>
          /\ expired' = expired \cup gone
          /\ \A e \in Events, c \in Consumers :
                att'[e][c] = IF <<e, c>> \in gone THEN NoRow ELSE att[e][c]
        BY <1>12, Zenon DEF DeleteLetters
    <2>2. \A e \in Events, c \in Consumers : <<e, c>> \in gone => att[e][c].deadAt # Null
        BY Zenon DEF OldLetter
    <2> HIDE DEF gone
    <2>3. \A w \in Lanes : Busy(w) => \A e \in lane[w].ids : att'[e][w[2]] = att[e][w[2]]
        <3>1. SUFFICES ASSUME NEW w \in Lanes, Busy(w), NEW e \in lane[w].ids
                       PROVE  att'[e][w[2]] = att[e][w[2]]
            BY Zenon
        <3>2. e \in Events /\ w[2] \in Consumers /\ att[e][w[2]].deadAt = Null
            BY <1>0, <3>1, HeldRows, Zenon
        <3>3. QED
            BY <2>1, <2>2, <3>2, ZenonT(60)
    <2>4. NoRow.doneAt = Null
        BY Zenon DEF NoRow, Row
    <2>5. ProcessedMeansFinished' /\ PrunedMeansHandled'
        BY <2>1, Zenon DEF SafeInv, ProcessedMeansFinished, PrunedMeansHandled, Siblings
    <2>6. QED
        BY <1>0, <2>1, <2>3, <2>4, <2>5, HeldRows, RowsLeftAlone, Zenon
<1>14. ASSUME NEW i \in Instances, Prune(i) PROVE SafeInv'
    <2> DEFINE doomed == {e \in sweep[i].ids : Prunable(e, sweep[i].cutoff)}
    <2>1. /\ UNCHANGED <<clock, offer, lane, handled, expired>>
          /\ \A e \in Events : e \notin doomed => outbox'[e] = outbox[e]
          /\ \A e \in Events : e \in doomed => outbox'[e].state = "pruned"
          /\ \A e \in Events, c \in Consumers :
                att'[e][c] = IF e \in doomed THEN NoRow ELSE att[e][c]
        BY <1>14, Zenon DEF Prune
    <2>2. \A e \in doomed : outbox[e].state = "processed" /\ \A c \in Consumers : att[e][c].deadAt = Null
        BY Zenon DEF Prunable, Old, HasLetter
    <2> HIDE DEF doomed
    <2>3. \A w \in Lanes : Busy(w) => \A e \in lane[w].ids :
              att'[e][w[2]] = att[e][w[2]] /\ outbox'[e].state = "queued"
        <3>1. SUFFICES ASSUME NEW w \in Lanes, Busy(w), NEW e \in lane[w].ids
                       PROVE  att'[e][w[2]] = att[e][w[2]] /\ outbox'[e].state = "queued"
            BY Zenon
        <3>2. e \in Events /\ w[2] \in Consumers /\ outbox[e].state = "queued"
            BY <1>0, <3>1, HeldRows, Zenon
        <3>3. QED
            BY <2>1, <2>2, <3>2, ZenonT(60)
    <2>4. NoRow.doneAt = Null
        BY Zenon DEF NoRow, Row
    <2>5. ProcessedMeansFinished'
        BY <2>1, Zenon DEF SafeInv, ProcessedMeansFinished, Siblings
    <2>6. PrunedMeansHandled'
        <3>1. SUFFICES ASSUME NEW e \in Events, outbox'[e].state = "pruned", NEW c \in Siblings(e)
                       PROVE  <<e, c>> \in handled \cup expired
            BY <2>1, Zenon DEF PrunedMeansHandled, Siblings
        <3>2. CASE e \in doomed
            BY <2>2, <3>1, <3>2, Zenon DEF SafeInv, ProcessedMeansFinished, Noted, Finished, Siblings
        <3>3. CASE e \notin doomed
            BY <2>1, <3>1, <3>3, ZenonT(60) DEF SafeInv, PrunedMeansHandled
        <3>4. QED
            BY <3>2, <3>3, Zenon
    <2>7. \A e \in Events, c \in Consumers : att'[e][c].doneAt # Null => att[e][c].doneAt # Null
        BY <2>1, <2>4, Zenon
    <2>8. QED
        BY <1>0, <2>1, <2>3, <2>5, <2>6, <2>7, RowsLeftAlone, Zenon
<1>17. ASSUME NEW i \in Instances, Gone(i) PROVE SafeInv'
    <2>1. /\ UNCHANGED <<clock, outbox, att, handled, expired>>
          /\ \A w \in Lanes : lane'[w] \in {Idle, lane[w]} /\ offer'[w] \in {{}, offer[w]}
        BY <1>17, Zenon DEF Gone
    <2>2. \A v \in Lanes : Busy(v)' => Busy(v) /\ lane'[v] = lane[v] /\ Until(v)' = Until(v)
        BY <1>00, <2>1, Zenon DEF Busy, Until
    <2>3. Scope'
        BY <1>00, <2>1, Zenon DEF SafeInv, Scope
    <2>4. InTime'
        <3>1. SUFFICES ASSUME NEW w \in Lanes
                       PROVE  /\ lane'[w].now <= clock
                              /\ lane'[w].phase \in {"leasing", "handling", "recording"} => clock < Until(w)'
            BY <2>1, Zenon DEF InTime
        <3>2. CASE lane'[w] = Idle
            BY <1>0, <1>00, <3>2, SMTT(60)
        <3>3. CASE lane'[w] = lane[w]
            BY <3>3, Zenon DEF SafeInv, InTime, Until
        <3>4. QED
            BY <2>1, <3>2, <3>3, Zenon
    <2>5. Held' /\ Disjoint'
        <3>1. Held'
            BY <2>1, <2>2, SMTT(60) DEF SafeInv, Held
        <3>2. Disjoint'
            BY <2>1, <2>2, Zenon DEF SafeInv, Disjoint
        <3>3. QED
            BY <3>1, <3>2, Zenon
    <2>6. Noted'
        BY <1>00, <2>1, Zenon DEF SafeInv, Noted
    <2>7. ProcessedMeansFinished' /\ PrunedMeansHandled'
        BY <2>1, Zenon DEF SafeInv, ProcessedMeansFinished, PrunedMeansHandled
    <2>8. QED
        BY <1>0, <2>3, <2>4, <2>5, <2>6, <2>7, Zenon DEF SafeInv
<1>19. ASSUME Tick PROVE SafeInv'
    <2>1. /\ UNCHANGED <<outbox, att, offer, lane, handled, expired>>
          /\ clock' = clock + 1
          /\ \A w \in Lanes : lane[w].phase \in {"leasing", "handling", "recording"} => clock + 1 < Until(w)
        BY <1>19, Zenon DEF Tick
    <2>2. \A v \in Lanes : (Busy(v)' <=> Busy(v)) /\ Until(v)' = Until(v)
        BY <2>1, Zenon DEF Busy, Until
    <2>3. \A v \in Lanes : lane[v].now <= clock + 1
        BY <1>0, SMTT(60) DEF SafeInv, InTime, Lane
    <2>4. Scope' /\ InTime'
        BY <2>1, <2>2, <2>3, Zenon DEF SafeInv, Scope, InTime
    <2>5. Held' /\ Disjoint' /\ Noted'
        <3>1. Held'
            BY <2>1, <2>2, ZenonT(60) DEF SafeInv, Held
        <3>2. Disjoint'
            BY <2>1, <2>2, ZenonT(60) DEF SafeInv, Disjoint
        <3>3. Noted'
            BY <2>1, ZenonT(60) DEF SafeInv, Noted
        <3>4. QED
            BY <3>1, <3>2, <3>3, Zenon
    <2>6. ProcessedMeansFinished' /\ PrunedMeansHandled'
        BY <2>1, Zenon DEF SafeInv, ProcessedMeansFinished, PrunedMeansHandled
    <2>7. QED
        BY <1>0, <2>4, <2>5, <2>6, Zenon DEF SafeInv
<1>20. ASSUME UNCHANGED vars PROVE SafeInv'
    <2>1. UNCHANGED <<clock, outbox, att, offer, lane, handled, expired>>
        BY <1>20, Zenon DEF vars
    <2>2. ProcessedMeansFinished' /\ PrunedMeansHandled'
        BY <2>1, Zenon DEF SafeInv, ProcessedMeansFinished, PrunedMeansHandled
    <2>3. QED
        BY <1>0, <2>1, <2>2, HeldRows, RowsLeftAlone, ZenonT(60)
<1>21. QED
    BY <1>1, <1>2, <1>3, <1>4, <1>5, <1>6, <1>7, <1>8, <1>9, <1>10, <1>12,
       <1>14, <1>16, <1>17, <1>19, <1>20, SMTT(60) DEF Next, Exit, Crash

(* When no lane outlives its lease: a lease is exclusive and keeps its row,  *)
(* an event marked processed was finished by every consumer, and the         *)
(* housekeeper prunes only what every consumer handled or gave up on for     *)
(* good.                                                                     *)
THEOREM QueueSafety ==
    ASSUME Prompt
    PROVE  Spec => [](OneOwner /\ LeaseHeld /\ ProcessedMeansFinished /\ PrunedMeansHandled)
<1>1. SafeInv /\ [Next]_vars => SafeInv'
    BY SafeStep, Zenon
<1>2. Spec => []SafeInv
    BY <1>1, SafeInit, PTL DEF Spec
<1>3. SafeInv => OneOwner /\ LeaseHeld /\ ProcessedMeansFinished /\ PrunedMeansHandled
    BY Zenon DEF SafeInv, Disjoint, OneOwner, Held, LeaseHeld
<1>4. QED
    BY <1>2, <1>3, PTL

(* How one step may change one consumer's row.                               *)
RowStep(e, c) ==
    \/ att'[e][c] = att[e][c]
    \/ att'[e][c] = NoRow
    \/ att[e][c].deadAt # Null /\ att'[e][c].attempts = 0 /\ outbox'[e].state = "queued"
    \/ att[e][c].deadAt = Null /\ att'[e][c].attempts >= att[e][c].attempts

LEMMA RowChange ==
    ASSUME SafeInv, [Next]_vars, NEW e \in Events, NEW c \in Consumers
    PROVE  RowStep(e, c)
<1>0. TypeOK /\ \A w \in Lanes : lane[w] \in Lane /\ w[2] \in Consumers
    BY Zenon DEF SafeInv, TypeInv, TypeOK, Lanes
<1>1. CASE att' = att
    BY <1>1, Zenon DEF RowStep
<1>2. ASSUME NEW w \in Lanes, Lease(w) PROVE RowStep(e, c)
    <2>1. \/ att'[e][c] = att[e][c]
          \/ ~Finished(att[e][c]) /\ att'[e][c] = [att[e][c] EXCEPT !.next = Until(w)]
        BY <1>2, Zenon DEF Lease, Leasable, Open
    <2>2. att[e][c] \in AttemptRow
        BY <1>0, SMTT(60) DEF TypeOK
    <2>3. QED
        BY <2>1, <2>2, SMTT(60) DEF RowStep, Finished, AttemptRow
<1>3. ASSUME NEW w \in Lanes, Finish(w) PROVE RowStep(e, c)
    <2> DEFINE f == Least(lane[w].ids)
    <2>1. lane[w].phase = "recording" /\ Busy(w) /\ lane[w].ids # {} /\ lane[w].ids \in SUBSET Events
        BY <1>0, <1>3, Zenon DEF Finish, Busy, SafeInv, TypeInv, BusyHasWork, Lane
    <2>2. f \in lane[w].ids /\ f \in Events
        BY <2>1, LeastIn, Zenon
    <2>3. att[f][w[2]].deadAt = Null /\ att[f][w[2]].attempts = lane[w].seen[f]
        BY <2>1, <2>2, HeldRows, Zenon
    <2>4. lane[w].row.attempts >= lane[w].seen[f]
        BY <2>1, ZenonT(60) DEF SafeInv, Noted
    <2> HIDE DEF f
    <2>5. att' = [att EXCEPT ![f] = [att[f] EXCEPT ![w[2]] = lane[w].row]]
        BY <1>3, Zenon DEF Finish, f
    <2>6. att'[e][c] = att[e][c] \/ (e = f /\ c = w[2] /\ att'[e][c] = lane[w].row)
        BY <1>0, <2>2, <2>5, Zenon DEF TypeOK
    <2>7. QED
        BY <2>3, <2>4, <2>6, Zenon DEF RowStep
<1>4. ASSUME NEW f \in Events, NEW d \in Consumers, Retry(f, d) PROVE RowStep(e, c)
    <2> DEFINE r == Row(0, clock, att[f][d].doneAt, Null)
    <2>1. r.attempts = 0 /\ Queued.state = "queued"
        BY Zenon DEF Row, Queued
    <2> HIDE DEF r
    <2>2. /\ att' = [att EXCEPT ![f] = [att[f] EXCEPT ![d] = r]]
          /\ outbox' = [outbox EXCEPT ![f] = Queued] /\ att[f][d].deadAt # Null
        BY <1>4, Zenon DEF Retry, Retryable, r
    <2>3. \/ att'[e][c] = att[e][c]
          \/ e = f /\ c = d /\ att'[e][c] = r /\ outbox'[e] = Queued
        BY <1>0, <2>2, Zenon DEF TypeOK
    <2>4. QED
        BY <2>1, <2>2, <2>3, Zenon DEF RowStep
<1>5. ASSUME NEW i \in Instances, DeleteLetters(i) \/ Prune(i) PROVE RowStep(e, c)
    <2>1. CASE DeleteLetters(i)
        <3> DEFINE gone == {p \in sweep[i].ids \X Consumers :
                               OldLetter(att[p[1]][p[2]], sweep[i].cutoff)}
        <3>1. att' = [g \in Events |-> [d \in Consumers |->
                         IF <<g, d>> \in gone THEN NoRow ELSE att[g][d]]]
            BY <2>1, Zenon DEF DeleteLetters
        <3> HIDE DEF gone
        <3>2. QED
            BY <3>1, Zenon DEF RowStep
    <2>2. CASE Prune(i)
        <3> DEFINE doomed == {g \in sweep[i].ids : Prunable(g, sweep[i].cutoff)}
        <3>1. att' = [g \in Events |-> IF g \in doomed THEN [d \in Consumers |-> NoRow]
                                      ELSE att[g]]
            BY <2>2, Zenon DEF Prune
        <3> HIDE DEF doomed
        <3>2. QED
            BY <3>1, Zenon DEF RowStep
    <2>3. QED
        BY <1>5, <2>1, <2>2, Zenon
<1>6. QED
    BY <1>1, <1>2, <1>3, <1>4, <1>5, ZenonT(60) DEF Next, vars, Publish, Poll, TakeOffer, NextBatch, LeaseFails,
       HandlerReturns, FinishFails, SelectLetters, SelectProcessed, Shutdown, StopLane, Exit, Crash,
       Gone, Start, Tick

(* When no lane outlives its lease: a dead letter ends only by a retry that  *)
(* reopens its event or by being deleted, and a consumer's count of failures *)
(* never falls otherwise.                                                    *)
THEOREM RowsAreKept ==
    ASSUME Prompt
    PROVE  Spec => LettersEndOnlyByRetryOrExpiry /\ FailuresNeverForgotten
<1> DEFINE LetterStep == \A e \in Events, c \in Consumers :
               (att[e][c].deadAt # Null /\ att'[e][c].deadAt = Null) =>
                   \/ att'[e][c] = NoRow
                   \/ att'[e][c].attempts = 0 /\ outbox'[e].state = "queued"
           CountStep == \A e \in Events, c \in Consumers :
               att'[e][c].attempts < att[e][c].attempts =>
                   att[e][c].deadAt # Null \/ att'[e][c] = NoRow
<1>1. SafeInv /\ [Next]_vars => SafeInv'
    BY SafeStep, Zenon
<1>2. Spec => []SafeInv
    BY <1>1, SafeInit, PTL DEF Spec
<1>3. SafeInv /\ SafeInv' /\ [Next]_vars => [LetterStep]_vars /\ [CountStep]_vars
    <2>1. SUFFICES ASSUME SafeInv, SafeInv', [Next]_vars PROVE LetterStep /\ CountStep
        BY Zenon
    <2>2. \A e \in Events, c \in Consumers :
              att[e][c].attempts \in Nat /\ att'[e][c].attempts \in Nat
        BY <2>1, SMTT(60) DEF SafeInv, TypeInv, TypeOK, AttemptRow
    <2>3. \A e \in Events, c \in Consumers : RowStep(e, c)
        BY <2>1, RowChange, Zenon
    <2>4. ASSUME NEW e \in Events, NEW c \in Consumers
          PROVE  /\ (att[e][c].deadAt # Null /\ att'[e][c].deadAt = Null) =>
                       \/ att'[e][c] = NoRow
                       \/ att'[e][c].attempts = 0 /\ outbox'[e].state = "queued"
                 /\ att'[e][c].attempts < att[e][c].attempts =>
                       att[e][c].deadAt # Null \/ att'[e][c] = NoRow
        <3>1. RowStep(e, c) /\ att[e][c].attempts \in Nat /\ att'[e][c].attempts \in Nat
            BY <2>2, <2>3, Zenon
        <3>2. QED
            BY <3>1, SMTT(60) DEF RowStep
    <2>5. QED
        BY <2>4, Zenon
<1>4. QED
    BY <1>2, <1>3, PTL DEF Spec, LettersEndOnlyByRetryOrExpiry, FailuresNeverForgotten
=============================================================================
