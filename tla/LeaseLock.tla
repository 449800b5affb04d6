------------------------------ MODULE LeaseLock ------------------------------
(***************************************************************************)
(* Package lock: one key's lease row in the table locks, and the calls of   *)
(* Locker.Hold that compete for it.  A holder is one call of Hold: newOwner *)
(* gives each call an owner of its own, so holder and owner are the same.   *)
(*                                                                         *)
(* The store runs every statement on its own connection, so each statement  *)
(* is one step: the UPDATE, the SELECT of mine and the INSERT of acquire,   *)
(* the UPDATE and the SELECT of Refresh, the DELETE of Release.  Hold runs   *)
(* its function and the heartbeat at the same time.  A process can die      *)
(* anywhere, a statement can fail before or after it committed, and each    *)
(* holder reads the time from its server's clock, Ahead[h] in front of the  *)
(* slowest.                                                                 *)
(***************************************************************************)
EXTENDS Integers, FiniteSets

CONSTANTS
    Holders,    \* the calls of Hold for the key
    Nobody,     \* the owner of a row that is not there
    TTL,        \* Hold's ttl
    Attempts,   \* gormstore's attempts
    Ahead,      \* how far each holder's clock runs in front
    Skew,       \* the largest of them
    Slack,      \* the longest a statement, or a due heartbeat, is kept waiting
    Steady,     \* the holders none of whose refreshes fails while run's context is live
    MaxClock    \* bound: the last instant looked at

ASSUME HolderAssumption == Nobody \notin Holders /\ Steady \subseteq Holders
ASSUME TimeAssumption ==
    /\ TTL \in Nat \ {0} /\ Attempts \in Nat \ {0} /\ MaxClock \in Nat
    /\ Slack \in Nat /\ Skew \in Nat /\ Ahead \in [Holders -> 0..Skew]

VARIABLES
    clock,      \* the time of the slowest server
    row,        \* the row of the key: its owner and lease_until
    run,        \* how far each call of Hold is
    asked,      \* the time Acquire was called with
    tries,      \* attempts of acquire that ended in a deadlock
    beat,       \* how far each heartbeat is
    due,        \* when the ticker fires next
    seen,       \* the time a heartbeat read before its refresh
    until,      \* the end of the lease as the heartbeat knows it
    answer,     \* what the refresh returned
    since,      \* when the holder's pending work began
    cancelled,  \* the context of run has ended
    lost        \* the heartbeat found the lease lost

vars == <<clock, row, run, asked, tries, beat, due, seen, until, answer, since, cancelled, lost>>
time == <<clock>>
holding == <<asked, tries>>
beating == <<beat, due, seen, until, answer>>

Beat == IF TTL \div 3 > 1 THEN TTL \div 3 ELSE 1
Now(h) == clock + Ahead[h]
NoRow == [owner |-> Nobody, until |-> 0]
Lease(h, t) == [owner |-> h, until |-> t + TTL]

Acquiring == {"update", "mine", "insert"}
Returned == {"held", "failed", "ok", "lost"}
Refreshing == {"refresh", "confirm"}

TypeOK ==
    /\ clock \in Nat
    /\ row \in [owner : Holders \cup {Nobody}, until : Nat]
    /\ run \in [Holders -> {"idle", "running", "endOk", "endLost", "crashed"}
                            \cup Acquiring \cup Returned]
    /\ asked \in [Holders -> Nat]
    /\ tries \in [Holders -> 0..(Attempts - 1)]
    /\ beat \in [Holders -> {"off", "spawned", "waiting", "judge", "stopped"} \cup Refreshing]
    /\ due \in [Holders -> Nat]
    /\ seen \in [Holders -> Nat]
    /\ until \in [Holders -> Nat]
    /\ answer \in [Holders -> {"none", "held", "gone", "error"}]
    /\ since \in [Holders -> Nat]
    /\ cancelled \in [Holders -> BOOLEAN]
    /\ lost \in [Holders -> BOOLEAN]

Init ==
    /\ clock = 0
    /\ row = NoRow
    /\ run = [h \in Holders |-> "idle"]
    /\ asked = [h \in Holders |-> 0]
    /\ tries = [h \in Holders |-> 0]
    /\ beat = [h \in Holders |-> "off"]
    /\ due = [h \in Holders |-> 0]
    /\ seen = [h \in Holders |-> 0]
    /\ until = [h \in Holders |-> 0]
    /\ answer = [h \in Holders |-> "none"]
    /\ since = [h \in Holders |-> 0]
    /\ cancelled = [h \in Holders |-> FALSE]
    /\ lost = [h \in Holders |-> FALSE]

-----------------------------------------------------------------------------
(* Hold: Acquire reads the clock and asks the store.                         *)
Begin(h) ==
    /\ run[h] = "idle"
    /\ run' = [run EXCEPT ![h] = "update"]
    /\ asked' = [asked EXCEPT ![h] = Now(h)]
    /\ since' = [since EXCEPT ![h] = clock]
    /\ UNCHANGED <<time, row, tries, beating, cancelled, lost>>

(* The lease is taken: Hold starts the heartbeat and calls run.              *)
Acquired(h) ==
    /\ run' = [run EXCEPT ![h] = "running"]
    /\ beat' = [beat EXCEPT ![h] = "spawned"]
    /\ since' = [since EXCEPT ![h] = clock]

(* The row acquire's UPDATE takes over: the owner's own, or one whose lease  *)
(* ended before the time asked with.                                         *)
TakeableMutant(h) == row.owner # Nobody /\ (row.owner = h \/ row.until < asked[h] + TTL)
Takeable(h) == row.owner # Nobody /\ (row.owner = h \/ row.until < asked[h])

AcquireUpdate(h) ==
    /\ run[h] = "update"
    /\ \/ /\ Takeable(h)
          /\ row' = Lease(h, asked[h])
          /\ Acquired(h)
       \/ /\ ~Takeable(h)
          /\ run' = [run EXCEPT ![h] = "mine"]
          /\ UNCHANGED <<row, beat, since>>
    /\ UNCHANGED <<time, holding, due, seen, until, answer, cancelled, lost>>

AcquireMine(h) ==
    /\ run[h] = "mine"
    /\ \/ row.owner = h /\ Acquired(h)
       \/ /\ row.owner # h
          /\ run' = [run EXCEPT ![h] = "insert"]
          /\ UNCHANGED <<beat, since>>
    /\ UNCHANGED <<time, row, holding, due, seen, until, answer, cancelled, lost>>

(* CreateUnlessDuplicate: a row already there means the key is held.         *)
AcquireInsert(h) ==
    /\ run[h] = "insert"
    /\ \/ /\ row = NoRow
          /\ row' = Lease(h, asked[h])
          /\ Acquired(h)
       \/ /\ row # NoRow
          /\ run' = [run EXCEPT ![h] = "held"]
          /\ UNCHANGED <<row, beat, since>>
    /\ UNCHANGED <<time, holding, due, seen, until, answer, cancelled, lost>>

(* Two first acquires deadlock on the gap: the victim wrote nothing and      *)
(* starts again with the times it already has, up to Attempts times.         *)
AnotherTry(h) == tries[h] + 1 < Attempts
AcquireDeadlock(h) ==
    /\ run[h] = "insert"
    /\ row = NoRow
    /\ \E g \in Holders \ {h} : run[g] = "insert"
    /\ \/ /\ AnotherTry(h)
          /\ tries' = [tries EXCEPT ![h] = tries[h] + 1]
          /\ run' = [run EXCEPT ![h] = "update"]
       \/ /\ ~AnotherTry(h)
          /\ run' = [run EXCEPT ![h] = "failed"]
          /\ UNCHANGED tries
    /\ UNCHANGED <<time, row, asked, beating, since, cancelled, lost>>

(* The store does not answer; what the statement wrote may stay.             *)
AcquireFails(h) ==
    /\ run[h] \in Acquiring
    /\ run' = [run EXCEPT ![h] = "failed"]
    /\ \/ UNCHANGED row
       \/ run[h] = "update" /\ Takeable(h) /\ row' = Lease(h, asked[h])
       \/ run[h] = "insert" /\ row = NoRow /\ row' = Lease(h, asked[h])
    /\ UNCHANGED <<time, holding, beating, since, cancelled, lost>>

-----------------------------------------------------------------------------
(* heartbeat: the ticker starts, the lease is taken to end in TTL from here. *)
BeatStart(h) ==
    /\ beat[h] = "spawned"
    /\ beat' = [beat EXCEPT ![h] = "waiting"]
    /\ due' = [due EXCEPT ![h] = clock + Beat]
    /\ until' = [until EXCEPT ![h] = Now(h) + TTL]
    /\ UNCHANGED <<time, row, run, holding, seen, answer, since, cancelled, lost>>

(* A tick; those that came while the last one waited were dropped.           *)
BeatTick(h) ==
    /\ beat[h] = "waiting"
    /\ clock >= due[h]
    /\ beat' = [beat EXCEPT ![h] = "refresh"]
    /\ seen' = [seen EXCEPT ![h] = Now(h)]
    /\ due' = [due EXCEPT ![h] = (clock + Beat) - ((clock - due[h]) % Beat)]
    /\ since' = [since EXCEPT ![h] = clock]
    /\ UNCHANGED <<time, row, run, holding, until, answer, cancelled, lost>>

BeatStop(h) ==
    /\ beat[h] = "waiting"
    /\ cancelled[h]
    /\ beat' = [beat EXCEPT ![h] = "stopped"]
    /\ UNCHANGED <<time, row, run, holding, due, seen, until, answer, since, cancelled, lost>>

(* Refresh's UPDATE: an unchanged row counts as no row, and mine is asked.   *)
Refresh(h) ==
    /\ beat[h] = "refresh"
    /\ \/ /\ row.owner = h
          /\ row # Lease(h, seen[h])
          /\ row' = Lease(h, seen[h])
          /\ beat' = [beat EXCEPT ![h] = "judge"]
          /\ answer' = [answer EXCEPT ![h] = "held"]
       \/ /\ row.owner # h \/ row = Lease(h, seen[h])
          /\ beat' = [beat EXCEPT ![h] = "confirm"]
          /\ UNCHANGED <<row, answer>>
    /\ UNCHANGED <<time, run, holding, due, seen, until, since, cancelled, lost>>

RefreshMine(h) ==
    /\ beat[h] = "confirm"
    /\ beat' = [beat EXCEPT ![h] = "judge"]
    /\ answer' = [answer EXCEPT ![h] = IF row.owner = h THEN "held" ELSE "gone"]
    /\ UNCHANGED <<time, row, run, holding, due, seen, until, since, cancelled, lost>>

RefreshFails(h) ==
    /\ beat[h] \in Refreshing
    /\ h \in Steady => cancelled[h]
    /\ beat' = [beat EXCEPT ![h] = "judge"]
    /\ answer' = [answer EXCEPT ![h] = "error"]
    /\ \/ UNCHANGED row
       \/ beat[h] = "refresh" /\ row.owner = h /\ row' = Lease(h, seen[h])
    /\ UNCHANGED <<time, run, holding, due, seen, until, since, cancelled, lost>>

(* The heartbeat's switch on the answer.                                     *)
TryAgainMutant(h) == answer[h] = "error"
TryAgain(h) == answer[h] = "error" /\ seen[h] < until[h]
Judge(h) ==
    /\ beat[h] = "judge"
    /\ answer' = [answer EXCEPT ![h] = "none"]
    /\ \/ /\ cancelled[h]
          /\ beat' = [beat EXCEPT ![h] = "stopped"]
          /\ UNCHANGED <<until, cancelled, lost>>
       \/ /\ ~cancelled[h] /\ TryAgain(h)
          /\ beat' = [beat EXCEPT ![h] = "waiting"]
          /\ UNCHANGED <<until, cancelled, lost>>
       \/ /\ ~cancelled[h] /\ ~TryAgain(h) /\ answer[h] # "held"
          /\ beat' = [beat EXCEPT ![h] = "stopped"]
          /\ lost' = [lost EXCEPT ![h] = TRUE]
          /\ cancelled' = [cancelled EXCEPT ![h] = TRUE]
          /\ UNCHANGED until
       \/ /\ ~cancelled[h] /\ answer[h] = "held"
          /\ beat' = [beat EXCEPT ![h] = "waiting"]
          /\ until' = [until EXCEPT ![h] = seen[h] + TTL]
          /\ UNCHANGED <<cancelled, lost>>
    /\ UNCHANGED <<time, row, run, holding, due, seen, since>>

-----------------------------------------------------------------------------
(* The caller's context ends while run runs.                                 *)
CallerCancels(h) ==
    /\ run[h] = "running"
    /\ ~cancelled[h]
    /\ cancelled' = [cancelled EXCEPT ![h] = TRUE]
    /\ UNCHANGED <<time, row, run, holding, beating, since, lost>>

(* run returns, or panics; the deferred function cancels.                    *)
RunReturns(h) ==
    /\ run[h] = "running"
    /\ run' = [run EXCEPT ![h] = IF lost[h] THEN "endLost" ELSE "endOk"]
    /\ cancelled' = [cancelled EXCEPT ![h] = TRUE]
    /\ UNCHANGED <<time, row, holding, beating, since, lost>>

(* The release, once the heartbeat has stopped, on a context of its own.     *)
OwnRowMutant(h) == row.owner # Nobody
OwnRow(h) == row.owner = h
Release(h) ==
    /\ run[h] \in {"endOk", "endLost"}
    /\ beat[h] = "stopped"
    /\ row' = IF OwnRow(h) THEN NoRow ELSE row
    /\ run' = [run EXCEPT ![h] = IF run[h] = "endOk" THEN "ok" ELSE "lost"]
    /\ UNCHANGED <<time, holding, beating, since, cancelled, lost>>

ReleaseFails(h) ==
    /\ run[h] \in {"endOk", "endLost"}
    /\ beat[h] = "stopped"
    /\ row' = row
    /\ run' = [run EXCEPT ![h] = IF run[h] = "endOk" THEN "ok" ELSE "lost"]
    /\ UNCHANGED <<time, holding, beating, since, cancelled, lost>>

Crash(h) ==
    /\ run[h] \notin Returned \cup {"idle", "crashed"}
    /\ run' = [run EXCEPT ![h] = "crashed"]
    /\ beat' = [beat EXCEPT ![h] = "off"]
    /\ UNCHANGED <<time, row, holding, due, seen, until, answer, since, cancelled, lost>>

(* Time passes, but nothing is kept waiting longer than Slack; the clock     *)
(* starts with the first call.                                               *)
Overdue(h) ==
    \/ run[h] \in Acquiring /\ clock >= since[h] + Slack
    \/ beat[h] \in {"spawned", "judge"} \cup Refreshing /\ clock >= since[h] + Slack
    \/ beat[h] = "waiting" /\ clock >= due[h] + Slack
Tick ==
    /\ clock < MaxClock
    /\ \E h \in Holders : run[h] # "idle"
    /\ \A h \in Holders : ~Overdue(h)
    /\ clock' = clock + 1
    /\ UNCHANGED <<row, run, holding, beating, since, cancelled, lost>>

Next ==
    \/ \E h \in Holders : Begin(h)
    \/ \E h \in Holders : AcquireUpdate(h)
    \/ \E h \in Holders : AcquireMine(h)
    \/ \E h \in Holders : AcquireInsert(h)
    \/ \E h \in Holders : AcquireDeadlock(h)
    \/ \E h \in Holders : AcquireFails(h)
    \/ \E h \in Holders : BeatStart(h)
    \/ \E h \in Holders : BeatTick(h)
    \/ \E h \in Holders : BeatStop(h)
    \/ \E h \in Holders : Refresh(h)
    \/ \E h \in Holders : RefreshMine(h)
    \/ \E h \in Holders : RefreshFails(h)
    \/ \E h \in Holders : Judge(h)
    \/ \E h \in Holders : CallerCancels(h)
    \/ \E h \in Holders : RunReturns(h)
    \/ \E h \in Holders : Release(h)
    \/ \E h \in Holders : ReleaseFails(h)
    \/ \E h \in Holders : Crash(h)
    \/ Tick

Spec == Init /\ [][Next]_vars

-----------------------------------------------------------------------------
Working(h) == run[h] = "running" /\ ~cancelled[h]

(* Room for the heartbeat: the ttl outlasts a beat, the waits around it and  *)
(* the difference between the clocks.                                        *)
Roomy == Beat + 4 * Slack + Skew <= TTL

(* Hold: "only one of these runs at a time".  When the ttl leaves the        *)
(* heartbeat room, a function whose refreshes get through owns the row for   *)
(* as long as its context is live, whatever crashes and whoever else's       *)
(* statements fail: two such functions never run at once.                    *)
Exclusion == Roomy => \A h \in Steady : Working(h) => row.owner = h

(* heartbeat: a function whose refreshes fail is not left running: its       *)
(* context ends at the latest one beat, and the waits around it, after the   *)
(* lease has run out as the holder knows it.                                 *)
LossNoticed ==
    \A h \in Holders :
        Working(h) /\ beat[h] # "spawned" => Now(h) <= until[h] + Beat + 2 * Slack

(* A lease ends only at the hand of its owner, who has stopped working, or   *)
(* when a taker's clock has passed its end: no release or acquire takes a    *)
(* running lease away.                                                       *)
LeaseEndsRightly ==
    [][\A h \in Holders :
          (row.owner = h /\ row'.owner # h) =>
              \/ run[h] \in {"endOk", "endLost"} /\ row' = NoRow
              \/ row'.owner # Nobody /\ row.until < asked[row'.owner]]_vars
=============================================================================
