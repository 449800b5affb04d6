-------------------------- MODULE LockAndFileProofs --------------------------
(***************************************************************************)
(* Proofs about two things that several processes share: the lease lock,   *)
(* for any number of holders, any ttl, any skew of the clocks and any      *)
(* delay of the statements; and the file drivers, which implement          *)
(* AtomicFiles for any number of clients, names, tries of PutUnique and    *)
(* crashes.                                                                *)
(***************************************************************************)
EXTENDS LeaseLock, FileStore, TLAPS

-----------------------------------------------------------------------------
(* The lease lock.                                                           *)

USE HolderAssumption, TimeAssumption

LEMMA BeatType == Beat \in Nat /\ Beat >= 1
BY DEF Beat

LEMMA NowType ==
    ASSUME TypeOK, NEW h \in Holders
    PROVE  Now(h) \in Nat /\ Ahead[h] \in 0..Skew /\ Ahead[h] \in Nat
BY DEF TypeOK, Now

LEMMA LeaseType ==
    ASSUME NEW h \in Holders, NEW t \in Nat
    PROVE  /\ Lease(h, t) \in [owner : Holders \cup {Nobody}, until : Nat]
           /\ Lease(h, t).owner = h /\ Lease(h, t).until = t + TTL
           /\ Lease(h, t) # NoRow
           /\ NoRow \in [owner : Holders \cup {Nobody}, until : Nat]
           /\ NoRow.owner = Nobody
BY DEF Lease, NoRow

LEMMA TypeInit == Init => TypeOK
BY LeaseType DEF Init, TypeOK, NoRow

LEMMA NextDue ==
    ASSUME NEW c \in Nat, NEW d \in Nat, c >= d
    PROVE  LET n == (c + Beat) - ((c - d) % Beat) IN n \in Nat /\ n > c /\ n <= c + Beat
<1>1. (c - d) % Beat \in 0..(Beat - 1)
    BY BeatType
<1>2. QED
    BY <1>1, BeatType

LEMMA TypeStep == TypeOK /\ [Next]_vars => TypeOK'
<1> SUFFICES ASSUME TypeOK, [Next]_vars PROVE TypeOK'
    BY Zenon
<1> USE DEF Acquiring, Returned, Refreshing, time, holding, beating
<1>1. CASE UNCHANGED vars
    BY <1>1, Zenon DEF vars, TypeOK
<1>2. ASSUME NEW h \in Holders,
             \/ Begin(h) \/ AcquireUpdate(h) \/ AcquireMine(h) \/ AcquireInsert(h)
             \/ AcquireDeadlock(h) \/ AcquireFails(h)
      PROVE  TypeOK'
    <2>1. asked[h] \in Nat /\ Lease(h, asked[h]) \in [owner : Holders \cup {Nobody}, until : Nat]
        BY LeaseType, Zenon DEF TypeOK
    <2>2. CASE Begin(h)
        BY <2>2, NowType, Zenon DEF Begin, TypeOK
    <2>3. CASE AcquireUpdate(h)
        BY <2>1, <2>3 DEF AcquireUpdate, Acquired, TypeOK
    <2>4. CASE AcquireMine(h)
        BY <2>4, SMTT(60) DEF AcquireMine, Acquired, TypeOK
    <2>5. CASE AcquireInsert(h)
        BY <2>1, <2>5 DEF AcquireInsert, Acquired, TypeOK
    <2>6. CASE AcquireDeadlock(h)
        BY <2>6 DEF AcquireDeadlock, AnotherTry, TypeOK
    <2>7. CASE AcquireFails(h)
        BY <2>1, <2>7, Zenon DEF AcquireFails, TypeOK
    <2>8. QED
        BY <1>2, <2>2, <2>3, <2>4, <2>5, <2>6, <2>7, Zenon
<1>3. ASSUME NEW h \in Holders,
             \/ BeatStart(h) \/ BeatTick(h) \/ BeatStop(h) \/ Refresh(h)
             \/ RefreshMine(h) \/ RefreshFails(h) \/ Judge(h)
      PROVE  TypeOK'
    <2>1. seen[h] \in Nat /\ Lease(h, seen[h]) \in [owner : Holders \cup {Nobody}, until : Nat]
        BY LeaseType, Zenon DEF TypeOK
    <2>2. CASE BeatStart(h)
        BY <2>2, NowType, BeatType DEF BeatStart, TypeOK
    <2>3. CASE BeatTick(h)
        <3>1. (clock + Beat) - ((clock - due[h]) % Beat) \in Nat
            BY <2>3, NextDue, Zenon DEF BeatTick, TypeOK
        <3>2. QED
            BY <2>3, <3>1, NowType, Zenon DEF BeatTick, TypeOK
    <2>4. CASE BeatStop(h)
        BY <2>4, Zenon DEF BeatStop, TypeOK
    <2>5. CASE Refresh(h)
        BY <2>1, <2>5 DEF Refresh, TypeOK
    <2>6. CASE RefreshMine(h)
        <3>1. PICK a \in {"held", "gone"} : answer' = [answer EXCEPT ![h] = a]
            BY <2>6, Zenon DEF RefreshMine
        <3>2. QED
            BY <2>6, <3>1 DEF RefreshMine, TypeOK
    <2>7. CASE RefreshFails(h)
        BY <2>1, <2>7, Zenon DEF RefreshFails, TypeOK
    <2>8. CASE Judge(h)
        <3>1. seen[h] + TTL \in Nat
            BY <2>1
        <3>2. until' \in [Holders -> Nat]
            BY <2>8, <3>1 DEF Judge, TypeOK
        <3>2a. cancelled' = cancelled \/ cancelled' = [cancelled EXCEPT ![h] = TRUE]
            BY <2>8, Zenon DEF Judge
        <3>2b. cancelled' \in [Holders -> BOOLEAN]
            BY <3>2a, Zenon DEF TypeOK
        <3>3. beat' \in [Holders -> {"off", "spawned", "waiting", "judge", "stopped"} \cup Refreshing]
            BY <2>8 DEF Judge, TypeOK
        <3>4. lost' \in [Holders -> BOOLEAN] /\ answer' \in [Holders -> {"none", "held", "gone", "error"}]
            BY <2>8, ZenonT(60) DEF Judge, TypeOK
        <3>5. QED
            BY <2>8, <3>2, <3>2b, <3>3, <3>4, Zenon DEF Judge, TypeOK
    <2>9. QED
        BY <1>3, <2>2, <2>3, <2>4, <2>5, <2>6, <2>7, <2>8, Zenon
<1>4. ASSUME NEW h \in Holders,
             \/ CallerCancels(h) \/ RunReturns(h) \/ Release(h) \/ ReleaseFails(h) \/ Crash(h)
      PROVE  TypeOK'
    <2>1. NoRow \in [owner : Holders \cup {Nobody}, until : Nat]
        BY Zenon DEF NoRow
    <2>2. CASE CallerCancels(h) \/ RunReturns(h)
        <3>1. cancelled' \in [Holders -> BOOLEAN]
            BY <2>2, ZenonT(60) DEF CallerCancels, RunReturns, TypeOK
        <3>2. PICK r \in {run[h], "endLost", "endOk"} : run' = [run EXCEPT ![h] = r]
            BY <2>2, Zenon DEF CallerCancels, RunReturns, TypeOK
        <3>3. QED
            BY <2>2, <3>1, <3>2 DEF CallerCancels, RunReturns, TypeOK
    <2>3. CASE Release(h) \/ ReleaseFails(h)
        BY <2>1, <2>3, Zenon DEF Release, ReleaseFails, TypeOK
    <2>4. CASE Crash(h)
        BY <2>4, Zenon DEF Crash, TypeOK
    <2>5. QED
        BY <1>4, <2>2, <2>3, <2>4, Zenon
<1>5. CASE Tick
    BY <1>5 DEF Tick, TypeOK
<1>6. QED
    BY <1>1, <1>2, <1>3, <1>4, <1>5, Zenon DEF Next

-----------------------------------------------------------------------------
(* What is known of one holder's times: pending work is at most Slack old,   *)
(* and a heartbeat's next tick, or the tick it is serving, comes at most a   *)
(* beat after the end of the lease as it knows it.                           *)
Fresh(h) == since[h] <= clock /\ clock <= since[h] + Slack
Timing(h) ==
    /\ run[h] \in Acquiring => Fresh(h) /\ asked[h] = since[h] + Ahead[h]
    /\ beat[h] = "spawned" => Fresh(h)
    /\ beat[h] = "waiting" => clock <= due[h] + Slack /\ due[h] + Ahead[h] <= until[h] + Beat
    /\ beat[h] \in Refreshing \cup {"judge"} =>
           /\ Fresh(h)
           /\ seen[h] = since[h] + Ahead[h]
           /\ since[h] + Ahead[h] <= until[h] + Beat + Slack
           /\ since[h] < due[h] /\ due[h] <= since[h] + Beat
    /\ run[h] \in {"running", "endOk", "endLost"} \cup (Returned \ {"held", "failed"})
           <=> beat[h] # "off"
    /\ beat[h] = "stopped" => cancelled[h]

TimedInv == TypeOK /\ \A h \in Holders : Timing(h)

LEMMA TimedInit == Init => TimedInv
BY TypeInit DEF Init, TimedInv, Timing, Acquiring, Returned, Refreshing

LEMMA TimedStep == TimedInv /\ [Next]_vars => TimedInv'
<1> SUFFICES ASSUME TimedInv, [Next]_vars, NEW k \in Holders PROVE Timing(k)'
    BY TypeStep, Zenon DEF TimedInv
<1> USE DEF Acquiring, Returned, Refreshing, time, holding, beating, Fresh
<1>0. /\ TypeOK /\ Timing(k)
      /\ Ahead[k] \in Nat /\ Beat \in Nat /\ Beat >= 1
    BY BeatType, NowType, Zenon DEF TimedInv
<1>1. CASE UNCHANGED vars
    BY <1>0, <1>1, Zenon DEF vars, Timing
<1>2. ASSUME NEW h \in Holders,
             \/ Begin(h) \/ AcquireUpdate(h) \/ AcquireMine(h) \/ AcquireInsert(h)
             \/ AcquireDeadlock(h) \/ AcquireFails(h)
      PROVE  Timing(k)'
    <2>1. CASE Begin(h)
        BY <1>0, <2>1 DEF Begin, TypeOK, Timing, Now
    <2>2. CASE AcquireUpdate(h)
        BY <1>0, <2>2 DEF AcquireUpdate, Acquired, TypeOK, Timing
    <2>3. CASE AcquireMine(h)
        BY <1>0, <2>3, SMTT(60) DEF AcquireMine, Acquired, TypeOK, Timing
    <2>4. CASE AcquireInsert(h)
        BY <1>0, <2>4, SMTT(60) DEF AcquireInsert, Acquired, TypeOK, Timing
    <2>5. CASE AcquireDeadlock(h)
        BY <1>0, <2>5 DEF AcquireDeadlock, TypeOK, Timing
    <2>6. CASE AcquireFails(h)
        BY <1>0, <2>6, Zenon DEF AcquireFails, TypeOK, Timing
    <2>7. QED
        BY <1>2, <2>1, <2>2, <2>3, <2>4, <2>5, <2>6, Zenon
<1>3. ASSUME NEW h \in Holders,
             \/ BeatStart(h) \/ BeatTick(h) \/ BeatStop(h) \/ Refresh(h)
             \/ RefreshMine(h) \/ RefreshFails(h) \/ Judge(h)
      PROVE  Timing(k)'
    <2>1. CASE BeatStart(h)
        BY <1>0, <2>1, SMTT(60) DEF BeatStart, TypeOK, Timing, Now
    <2>2. CASE BeatTick(h)
        <3> DEFINE n == (clock + Beat) - ((clock - due[h]) % Beat)
        <3>0. clock \in Nat /\ due[h] \in Nat /\ clock >= due[h]
            BY <1>0, <2>2, Zenon DEF BeatTick, TypeOK
        <3>1. n \in Nat /\ n > clock /\ n <= clock + Beat
            BY <3>0, NextDue, ZenonT(60)
        <3>2. due' = [due EXCEPT ![h] = n]
            BY <2>2, Zenon DEF BeatTick
        <3> HIDE DEF n
        <3>3. QED
            BY <1>0, <2>2, <3>1, <3>2 DEF BeatTick, TypeOK, Timing, Now
    <2>3. CASE BeatStop(h)
        BY <1>0, <2>3, Zenon DEF BeatStop, TypeOK, Timing
    <2>4. CASE Refresh(h)
        BY <1>0, <2>4 DEF Refresh, TypeOK, Timing
    <2>5. CASE RefreshMine(h)
        BY <1>0, <2>5, Zenon DEF RefreshMine, TypeOK, Timing
    <2>6. CASE RefreshFails(h)
        BY <1>0, <2>6, Zenon DEF RefreshFails, TypeOK, Timing
    <2>7. CASE Judge(h)
        <3>1. CASE k # h
            <4>1. /\ beat'[k] = beat[k] /\ until'[k] = until[k] /\ cancelled'[k] = cancelled[k]
                  /\ run'[k] = run[k] /\ due'[k] = due[k] /\ since'[k] = since[k]
                  /\ seen'[k] = seen[k] /\ asked'[k] = asked[k] /\ clock' = clock
                BY <1>0, <2>7, <3>1, SMTT(60) DEF Judge, TypeOK
            <4>2. QED
                BY <1>0, <4>1, Zenon DEF Timing
        <3>2. CASE k = h
            <4>1. /\ run'[h] = run[h] /\ due'[h] = due[h] /\ since'[h] = since[h]
                  /\ clock' = clock /\ asked'[h] = asked[h] /\ run[h] \notin Acquiring
                  /\ beat[h] = "judge" /\ Fresh(h) /\ seen[h] = since[h] + Ahead[h]
                  /\ since[h] < due[h] /\ due[h] <= since[h] + Beat
                BY <1>0, <2>7, <3>2, Zenon DEF Judge, TypeOK, Timing
            <4>2. \/ beat'[h] = "stopped" /\ cancelled'[h]
                  \/ beat'[h] = "waiting" /\ until'[h] = until[h] /\ seen[h] < until[h]
                  \/ beat'[h] = "waiting" /\ until'[h] = seen[h] + TTL
                BY <1>0, <2>7 DEF Judge, TryAgain, TypeOK
            <4>3. /\ clock \in Nat /\ due[h] \in Nat /\ since[h] \in Nat /\ until[h] \in Nat
                  /\ seen[h] \in Nat
                BY <1>0, Zenon DEF TypeOK
            <4>4. CASE beat'[h] = "stopped" /\ cancelled'[h]
                BY <1>0, <3>2, <4>1, <4>4, ZenonT(60) DEF Timing
            <4>5. CASE beat'[h] = "waiting" /\ (until'[h] = seen[h] + TTL \/ until'[h] = until[h])
                <5>1. clock <= due[h] + Slack /\ due[h] + Ahead[h] <= until'[h] + Beat
                    BY <1>0, <3>2, <4>1, <4>2, <4>3, <4>5, SMTT(60)
                <5>2. QED
                    BY <1>0, <3>2, <4>1, <4>5, <5>1, Zenon DEF Timing
            <4>6. QED
                BY <4>2, <4>4, <4>5, Zenon
        <3>3. QED
            BY <3>1, <3>2, Zenon
    <2>8. QED
        BY <1>3, <2>1, <2>2, <2>3, <2>4, <2>5, <2>6, <2>7, Zenon
<1>4. ASSUME NEW h \in Holders,
             \/ CallerCancels(h) \/ RunReturns(h) \/ Release(h) \/ ReleaseFails(h) \/ Crash(h)
      PROVE  Timing(k)'
    BY <1>0, <1>4, SMTT(60) DEF CallerCancels, RunReturns, Release, ReleaseFails, Crash, TypeOK, Timing
<1>5. CASE Tick
    BY <1>0, <1>5 DEF Tick, Overdue, TypeOK, Timing
<1>6. QED
    BY <1>1, <1>2, <1>3, <1>4, <1>5, Zenon DEF Next

(* The row, the heartbeats and the calls keep their types, and a run whose   *)
(* refreshes fail is cancelled at most a beat and two waits after its lease. *)
THEOREM LossIsNoticed == Spec => [](TypeOK /\ LossNoticed)
<1>1. TimedInv => TypeOK /\ LossNoticed
    <2> SUFFICES ASSUME TimedInv, NEW h \in Holders, Working(h), beat[h] # "spawned"
                 PROVE  Now(h) <= until[h] + Beat + 2 * Slack
        BY Zenon DEF LossNoticed, TimedInv
    <2>1. /\ Timing(h) /\ beat[h] \in {"waiting", "judge"} \cup Refreshing
          /\ Ahead[h] \in Nat /\ Beat \in Nat
        BY BeatType, NowType, Zenon DEF TimedInv, TypeOK, Timing, Working
    <2>2. clock \in Nat /\ due[h] \in Nat /\ since[h] \in Nat /\ until[h] \in Nat
        BY Zenon DEF TimedInv, TypeOK
    <2>3. QED
        BY <2>1, <2>2 DEF Timing, Fresh, Now, Refreshing
<1>2. QED
    BY <1>1, TimedInit, TimedStep, PTL DEF Spec

-----------------------------------------------------------------------------
(* A working holder owns the row, and the lease outlasts the time at which   *)
(* its next refresh is done at the latest.                                   *)
Left(h) ==
    /\ beat[h] = "spawned" => row.until + Slack >= since[h] + Ahead[h] + TTL
    /\ beat[h] = "waiting" => row.until + Beat + 2 * Slack >= due[h] + Ahead[h] + TTL
    /\ beat[h] = "refresh" => row.until + Beat + 3 * Slack >= since[h] + Ahead[h] + TTL
    /\ beat[h] \in {"confirm", "judge"} => row.until >= since[h] + Ahead[h] + TTL
    /\ beat[h] = "judge" => answer[h] = "held"
Held(h) == Working(h) => row.owner = h /\ Left(h)
(* An owner is new: no row is its own before it has acquired.                *)
New(h) == run[h] \in {"idle"} \cup Acquiring => row.owner # h
HeldInv == TimedInv /\ (\A h \in Holders : New(h)) /\ (\A h \in Steady : Held(h))

LEMMA Covered ==
    ASSUME Roomy, HeldInv, NEW h \in Steady, Working(h)
    PROVE  row.owner = h /\ row.until >= clock + Skew
<1>1. /\ Timing(h) /\ Left(h) /\ row.owner = h
      /\ beat[h] \in {"spawned", "waiting", "judge"} \cup Refreshing
      /\ Ahead[h] \in Nat /\ Beat \in Nat
    BY BeatType, NowType, Zenon DEF HeldInv, TimedInv, TypeOK, Timing, Working, Held
<1>2. /\ clock \in Nat /\ due[h] \in Nat /\ since[h] \in Nat /\ row.until \in Nat
    BY Zenon DEF HeldInv, TimedInv, TypeOK
<1>3. QED
    BY <1>1, <1>2, SMTT(60) DEF Timing, Left, Fresh, Refreshing, Roomy

HolderStep(h) ==
    \/ Begin(h) \/ AcquireUpdate(h) \/ AcquireMine(h) \/ AcquireInsert(h)
    \/ AcquireDeadlock(h) \/ AcquireFails(h) \/ BeatStart(h) \/ BeatTick(h) \/ BeatStop(h)
    \/ Refresh(h) \/ RefreshMine(h) \/ RefreshFails(h) \/ Judge(h) \/ CallerCancels(h)
    \/ RunReturns(h) \/ Release(h) \/ ReleaseFails(h) \/ Crash(h)

(* Nobody takes over a row whose lease has not ended on the fastest clock.   *)
LEMMA NotTakeable ==
    ASSUME Roomy, HeldInv, NEW k \in Steady, Working(k), NEW h \in Holders, h # k,
           run[h] \in Acquiring
    PROVE  ~Takeable(h) /\ row # NoRow
<1>1. Timing(h) /\ Ahead[h] \in 0..Skew
    BY Zenon DEF HeldInv, TimedInv
<1>2. clock \in Nat /\ since[h] \in Nat /\ row.until \in Nat /\ asked[h] \in Nat
    BY Zenon DEF HeldInv, TimedInv, TypeOK
<1>3. asked[h] <= clock + Skew
    BY <1>1, <1>2 DEF Timing, Fresh
<1>4. row.owner = k /\ row.until >= clock + Skew
    BY Covered, Zenon
<1>5. QED
    BY <1>2, <1>3, <1>4 DEF Takeable, NoRow

(* A step of another holder leaves a working holder, and its row, alone.     *)
LEMMA OthersStep ==
    ASSUME Roomy, HeldInv, NEW k \in Steady, NEW h \in Holders, h # k, HolderStep(h),
           Working(k)'
    PROVE  /\ Working(k) /\ row' = row /\ clock' = clock
           /\ beat'[k] = beat[k] /\ since'[k] = since[k] /\ due'[k] = due[k]
           /\ answer'[k] = answer[k]
<1> USE DEF time, holding, beating
<1>1. /\ clock' = clock /\ run'[k] = run[k] /\ cancelled'[k] = cancelled[k]
      /\ beat'[k] = beat[k] /\ since'[k] = since[k] /\ due'[k] = due[k]
      /\ answer'[k] = answer[k]
    <2>1. TypeOK
        BY Zenon DEF HeldInv, TimedInv
    <2>2. CASE \/ Begin(h) \/ AcquireUpdate(h) \/ AcquireMine(h) \/ AcquireInsert(h)
               \/ AcquireDeadlock(h) \/ AcquireFails(h)
        BY <2>1, <2>2, Zenon DEF Begin, AcquireUpdate, AcquireMine, AcquireInsert, AcquireDeadlock,
           AcquireFails, Acquired, TypeOK
    <2>3. CASE \/ BeatStart(h) \/ BeatTick(h) \/ BeatStop(h) \/ Refresh(h) \/ RefreshMine(h)
               \/ RefreshFails(h)
        BY <2>1, <2>3, Zenon DEF BeatStart, BeatTick, BeatStop, Refresh, RefreshMine, RefreshFails, TypeOK
    <2>4. CASE Judge(h)
        BY <2>1, <2>4, Zenon DEF Judge, TypeOK
    <2>5. CASE CallerCancels(h) \/ RunReturns(h) \/ Release(h) \/ ReleaseFails(h) \/ Crash(h)
        BY <2>1, <2>5, Zenon DEF CallerCancels, RunReturns, Release, ReleaseFails, Crash, TypeOK
    <2>6. QED
        BY <2>2, <2>3, <2>4, <2>5, Zenon DEF HolderStep
<1>2. Working(k)
    BY <1>1, Zenon DEF Working
<1>3. row.owner = k /\ row.owner # h
    BY <1>2, Covered, Zenon
<1>4. run[h] \in Acquiring => ~Takeable(h) /\ row # NoRow
    BY <1>2, NotTakeable, Zenon
<1>5. row' = row
    BY <1>3, <1>4, ZenonT(60) DEF HolderStep, Begin, AcquireUpdate, AcquireMine, AcquireInsert,
       AcquireDeadlock, AcquireFails, BeatStart, BeatTick, BeatStop, Refresh, RefreshMine,
       RefreshFails, Judge, CallerCancels, RunReturns, Release, ReleaseFails, Crash, OwnRow,
       Acquiring
<1>6. QED
    BY <1>1, <1>2, <1>5, Zenon

LEMMA HeldInit == Init => HeldInv
BY TimedInit, SMTT(60) DEF Init, HeldInv, Held, New, Working, NoRow

LEMMA NewStep ==
    ASSUME HeldInv, NEW h \in Holders, HolderStep(h), NEW k \in Holders
    PROVE  New(k)'
<1> USE DEF time, holding, beating
<1>0. TypeOK /\ New(k) /\ New(h) /\ Timing(h)
    BY Zenon DEF HeldInv, TimedInv
<1>1. run'[k] \in {"idle"} \cup Acquiring => run[k] \in {"idle"} \cup Acquiring
    <2>1. CASE \/ Begin(h) \/ AcquireUpdate(h) \/ AcquireMine(h) \/ AcquireInsert(h)
               \/ AcquireDeadlock(h) \/ AcquireFails(h)
        <3>1. run[h] \in {"idle"} \cup Acquiring
            BY <2>1, ZenonT(30) DEF Begin, AcquireUpdate, AcquireMine, AcquireInsert, AcquireDeadlock, AcquireFails, Acquiring
        <3>2. k # h => run'[k] = run[k]
            BY <1>0, <2>1, Zenon DEF Begin, AcquireUpdate, AcquireMine, AcquireInsert, AcquireDeadlock,
               AcquireFails, Acquired, TypeOK
        <3>3. QED
            BY <3>1, <3>2, Zenon
    <2>2. CASE \/ BeatStart(h) \/ BeatTick(h) \/ BeatStop(h) \/ Refresh(h) \/ RefreshMine(h)
               \/ RefreshFails(h) \/ Judge(h) \/ CallerCancels(h)
        <3>1. run' = run
            BY <2>2, Zenon DEF BeatStart, BeatTick, BeatStop, Refresh, RefreshMine, RefreshFails, Judge, CallerCancels
        <3>2. QED
            BY <3>1, Zenon
    <2>3. CASE RunReturns(h) \/ Release(h) \/ ReleaseFails(h) \/ Crash(h)
        BY <1>0, <2>3, SMTT(60) DEF RunReturns, Release, ReleaseFails, Crash, TypeOK, Acquiring
    <2>4. QED
        BY <2>1, <2>2, <2>3, Zenon DEF HolderStep
<1>2. \/ row' = row \/ row' = NoRow
      \/ row'.owner = h /\ run'[h] \notin {"idle"} \cup Acquiring
    <2>1. asked[h] \in Nat /\ seen[h] \in Nat
        BY <1>0, Zenon DEF TypeOK
    <2>2. Lease(h, asked[h]).owner = h /\ Lease(h, seen[h]).owner = h
        BY <2>1, LeaseType, Zenon
    <2>3. beat[h] \in Refreshing => run[h] \notin {"idle"} \cup Acquiring
        BY <1>0, Zenon DEF Timing, Refreshing, Acquiring, Returned
    <2>4. QED
        BY <1>0, <2>2, <2>3, ZenonT(60) DEF HolderStep, Begin, AcquireUpdate, AcquireMine, AcquireInsert,
           AcquireDeadlock, AcquireFails, Acquired, BeatStart, BeatTick, BeatStop, Refresh,
           RefreshMine, RefreshFails, Judge, CallerCancels, RunReturns, Release, ReleaseFails,
           Crash, TypeOK, Acquiring, Refreshing
<1>3. QED
    BY <1>0, <1>1, <1>2 DEF New, NoRow

(* The holder's own step keeps its lease ahead of its next refresh.          *)
LEMMA OwnStep ==
    ASSUME Roomy, HeldInv, NEW k \in Steady, HolderStep(k), Working(k)'
    PROVE  row'.owner = k /\ Left(k)'
<1> USE DEF time, holding, beating, Acquiring, Refreshing
<1>0. /\ TypeOK /\ Timing(k) /\ Held(k) /\ New(k)
      /\ Ahead[k] \in Nat /\ Beat \in Nat /\ Beat >= 1
    BY BeatType, NowType, Zenon DEF HeldInv, TimedInv
<1>1. /\ clock \in Nat /\ due[k] \in Nat /\ since[k] \in Nat /\ row.until \in Nat
      /\ asked[k] \in Nat /\ seen[k] \in Nat
    BY <1>0, Zenon DEF TypeOK
<1>2. /\ Lease(k, asked[k]).owner = k /\ Lease(k, asked[k]).until = asked[k] + TTL
      /\ Lease(k, seen[k]).owner = k /\ Lease(k, seen[k]).until = seen[k] + TTL
    BY <1>1, LeaseType, Zenon
<1>3. CASE AcquireUpdate(k) \/ AcquireMine(k) \/ AcquireInsert(k)
    <2>1. /\ run[k] \in Acquiring /\ row' = Lease(k, asked[k])
          /\ beat'[k] = "spawned" /\ since'[k] = clock
        BY <1>0, <1>3, Zenon DEF AcquireUpdate, AcquireMine, AcquireInsert, Acquired, Working, TypeOK, New
    <2>2. asked[k] = since[k] + Ahead[k] /\ clock <= since[k] + Slack
        BY <1>0, <2>1, Zenon DEF Timing, Fresh
    <2>3. QED
        BY <1>0, <1>1, <1>2, <2>1, <2>2, SMTT(60) DEF Left
<1>4. CASE BeatStart(k)
    <2>1. Working(k) /\ row' = row /\ beat'[k] = "waiting" /\ due'[k] = clock + Beat
        BY <1>0, <1>4, Zenon DEF BeatStart, Working, TypeOK
    <2>2. beat[k] = "spawned"
        BY <1>4, Zenon DEF BeatStart
    <2>3. row.until + Slack >= since[k] + Ahead[k] + TTL /\ clock <= since[k] + Slack
        BY <1>0, <2>1, <2>2, Zenon DEF Held, Left, Timing, Fresh
    <2>4. Left(k)'
        BY <1>0, <1>1, <2>1, <2>3, SMTT(60) DEF Left, TypeOK
    <2>5. QED
        BY <1>0, <1>1, <2>1, <2>4, Zenon DEF Held
<1>5. CASE BeatTick(k)
    <2>1. Working(k) /\ row' = row /\ beat'[k] = "refresh" /\ since'[k] = clock
        BY <1>0, <1>5, Zenon DEF BeatTick, Working, TypeOK
    <2>2. beat[k] = "waiting"
        BY <1>5, Zenon DEF BeatTick
    <2>3. QED
        BY <1>0, <1>1, <2>1, <2>2, SMTT(60) DEF Held, Left, Timing
<1>6. CASE Refresh(k)
    <2>1. Working(k) /\ since'[k] = since[k] /\ beat[k] = "refresh"
        BY <1>0, <1>6, Zenon DEF Refresh, Working, TypeOK
    <2>2. row.owner = k /\ seen[k] = since[k] + Ahead[k]
        BY <1>0, <2>1, Zenon DEF Held, Timing
    <2>3. /\ row' = Lease(k, seen[k])
          /\ beat'[k] = "confirm" \/ (beat'[k] = "judge" /\ answer'[k] = "held")
        BY <1>0, <1>6, <2>2, SMTT(60) DEF Refresh, TypeOK
    <2>4. QED
        BY <1>0, <1>1, <1>2, <2>1, <2>2, <2>3, SMTT(60) DEF Left
<1>7. CASE RefreshMine(k)
    <2>1. /\ Working(k) /\ since'[k] = since[k] /\ beat[k] = "confirm" /\ beat'[k] = "judge"
          /\ row' = row
        BY <1>0, <1>7, Zenon DEF RefreshMine, Working, TypeOK
    <2>2. row.owner = k
        BY <1>0, <2>1, Zenon DEF Held
    <2>3. answer'[k] = "held"
        BY <1>0, <1>7, <2>2, Zenon DEF RefreshMine, TypeOK
    <2>4. QED
        BY <1>0, <1>1, <2>1, <2>2, <2>3, Zenon DEF Left, Held
<1>8. CASE Judge(k)
    <2>1. /\ Working(k) /\ since'[k] = since[k] /\ beat[k] = "judge" /\ row' = row
          /\ due'[k] = due[k]
        BY <1>0, <1>8, Zenon DEF Judge, Working, TypeOK
    <2>2. row.owner = k /\ answer[k] = "held" /\ ~cancelled[k]
        BY <1>0, <2>1, Zenon DEF Held, Left, Working
    <2>3. beat'[k] = "waiting"
        BY <1>0, <1>8, <2>2, Zenon DEF Judge, TryAgain, TypeOK
    <2>4. QED
        BY <1>0, <1>1, <2>1, <2>2, <2>3, SMTT(60) DEF Left, Held, Timing
<1>9. CASE RefreshFails(k)
    BY <1>0, <1>9, Zenon DEF RefreshFails, Working, TypeOK
<1>10. CASE \/ Begin(k) \/ AcquireDeadlock(k) \/ AcquireFails(k) \/ BeatStop(k)
            \/ CallerCancels(k) \/ RunReturns(k) \/ Release(k) \/ ReleaseFails(k) \/ Crash(k)
    BY <1>0, <1>10, Zenon DEF Begin, AcquireDeadlock, AcquireFails, BeatStop, CallerCancels,
       RunReturns, Release, ReleaseFails, Crash, Working, TypeOK
<1>11. QED
    BY <1>3, <1>4, <1>5, <1>6, <1>7, <1>8, <1>9, <1>10, Zenon DEF HolderStep

LEMMA HeldStep ==
    ASSUME Roomy
    PROVE  HeldInv /\ [Next]_vars => HeldInv'
<1> SUFFICES ASSUME HeldInv, [Next]_vars
             PROVE  (\A k \in Holders : New(k)') /\ (\A k \in Steady : Held(k)')
    BY TimedStep, Zenon DEF HeldInv
<1>0. ASSUME NEW h \in Holders, HolderStep(h), NEW k \in Holders PROVE New(k)'
    BY <1>0, NewStep, Zenon
<1>1. ASSUME NEW h \in Holders, HolderStep(h), NEW k \in Steady PROVE Held(k)'
    <2>2. SUFFICES ASSUME Working(k)' PROVE row'.owner = k /\ Left(k)'
        BY Zenon DEF Held
    <2>3. CASE h = k
        BY <1>1, <2>2, <2>3, OwnStep, Zenon
    <2>4. CASE h # k
        <3>1. /\ Working(k) /\ row' = row
              /\ beat'[k] = beat[k] /\ since'[k] = since[k] /\ due'[k] = due[k]
              /\ answer'[k] = answer[k]
            BY <1>1, <2>2, <2>4, OthersStep, Zenon
        <3>2. row.owner = k /\ Left(k)
            BY <3>1, Zenon DEF HeldInv, Held
        <3>3. QED
            BY <3>1, <3>2, Zenon DEF Left
    <2>5. QED
        BY <2>3, <2>4, Zenon
<1>2. CASE Tick \/ UNCHANGED vars
    BY <1>2, Zenon DEF Tick, vars, HeldInv, Held, Left, New, Working, time, holding, beating
<1>3. QED
    BY <1>0, <1>1, <1>2, Zenon DEF Next, HolderStep

(* "Only one of these runs at a time": with a ttl that leaves the heartbeat  *)
(* room, a function whose refreshes get through and whose context is live    *)
(* owns the row.                                                             *)
THEOREM HoldExcludes == Spec => []Exclusion
<1>1. CASE Roomy
    <2>1. HeldInv /\ [Next]_vars => HeldInv'
        BY <1>1, HeldStep, Zenon
    <2>2. HeldInv => Exclusion
        BY Zenon DEF HeldInv, Held, Exclusion
    <2>3. QED
        BY <2>1, <2>2, HeldInit, PTL DEF Spec
<1>2. CASE ~Roomy
    <2>1. Exclusion
        BY <1>2, Zenon DEF Exclusion
    <2>2. QED
        BY <2>1, PTL
<1>3. QED
    BY <1>1, <1>2, Zenon

(* Whatever the delays and failures, a lease ends only by its owner's own    *)
(* release or under a taker whose clock has passed its end.                  *)
THEOREM LeasesEndRightly == Spec => LeaseEndsRightly
<1> DEFINE Ends == \A h \in Holders : (row.owner = h /\ row'.owner # h) =>
                       \/ run[h] \in {"endOk", "endLost"} /\ row' = NoRow
                       \/ row'.owner # Nobody /\ row.until < asked[row'.owner]
<1>1. Spec => []TypeOK
    BY TypeInit, TypeStep, PTL DEF Spec
<1>2. TypeOK /\ [Next]_vars => [Ends]_vars
    <2> SUFFICES ASSUME TypeOK, Next, NEW h \in Holders, row.owner = h, row'.owner # h
                 PROVE  \/ run[h] \in {"endOk", "endLost"} /\ row' = NoRow
                        \/ row'.owner # Nobody /\ row.until < asked[row'.owner]
        BY Zenon
    <2> USE DEF time, holding, beating
    <2>1. PICK g \in Holders : HolderStep(g)
        BY Zenon DEF Next, HolderStep, Tick
    <2>2. /\ asked[g] \in Nat /\ seen[g] \in Nat /\ g # Nobody
          /\ Lease(g, asked[g]).owner = g /\ Lease(g, seen[g]).owner = g
        BY LeaseType, Zenon DEF TypeOK
    <2>3. \/ row' = Lease(g, asked[g]) /\ Takeable(g)
          \/ row' = Lease(g, asked[g]) /\ row = NoRow
          \/ row' = Lease(g, seen[g]) /\ row.owner = g
          \/ row' = NoRow /\ row.owner = g /\ run[g] \in {"endOk", "endLost"}
        BY <2>1, ZenonT(60) DEF HolderStep, Begin, AcquireUpdate, AcquireMine, AcquireInsert,
           AcquireDeadlock, AcquireFails, BeatStart, BeatTick, BeatStop, Refresh, RefreshMine,
           RefreshFails, Judge, CallerCancels, RunReturns, Release, ReleaseFails, Crash, OwnRow
    <2>4. QED
        BY <2>2, <2>3, SMTT(60) DEF Takeable, NoRow
<1>3. QED
    BY <1>1, <1>2, PTL DEF Spec, LeaseEndsRightly

HIDE TimeAssumption
HIDE HolderAssumption

-----------------------------------------------------------------------------
(* The file drivers.                                                         *)

USE FileStoreAssumption

Calls == [op : {"none", "put", "unique", "get", "delete", "list"}, key : Keys, body : Clients,
          status : {"idle", "called", "done"}, ok : BOOLEAN, at : SUBSET Keys, read : SUBSET Clients]
\* Where the call of each operation may be while its effect is still to come.
Before(op) ==
  CASE op = "put"    -> {"stage", "write", "place", "read", "lock"}
    [] op = "unique" -> {"look", "stage", "write", "place", "discard", "read", "lock"}
    [] op = "list"   -> {"names", "walk"}
    [] OTHER         -> {"act"}

Places == {"idle", "look", "stage", "write", "place", "discard", "cleanup", "read", "lock", "act", "names", "walk", "return"}
FilesType ==
  /\ files \in [Keys -> SUBSET Clients] /\ call \in [Clients -> Calls]
  /\ pc \in [Clients -> Places] /\ try \in [Clients -> 0..(maxUniqueTries - 1)]
  /\ DOMAIN names = Clients /\ DOMAIN ever = Clients
\* A call has answered exactly when it is on its way out.
Answered(c) ==
  \/ pc[c] = "idle" /\ call[c] = AF!Nothing
  \/ pc[c] \in {"cleanup", "return"} /\ call[c].status = "done" /\ call[c].op # "none"
  \/ pc[c] \in Before(call[c].op) /\ call[c].status = "called" /\ call[c].op # "none"
\* What a walk has still to look at is a temporary file or was there already.
Walks(c) ==
  /\ pc[c] # "walk" => names[c] = {}
  /\ \A name \in names[c] : name[1] # "temp" => name \in Keys /\ name \in ever[c]
  /\ pc[c] # "idle" => there \subseteq ever[c]
  /\ pc[c] # "idle" /\ call[c].op = "list" => call[c].at \subseteq ever[c]
FilesInv == FilesType /\ \A c \in Clients : Answered(c) /\ Walks(c)

LEMMA NothingIsACall == ASSUME NEW c \in Clients PROVE AF!Nothing \in Calls /\ AF!Nothing.op = "none" /\ AF!Nothing.status = "idle" /\ AF!Nothing.at = {}
<1>1. Keys # {}
    <2>1. PICK n \in BaseNames : TRUE
        BY Zenon
    <2>2. <<n, 0>> \in Keys
        BY DEF Keys
    <2>3. QED
        BY <2>2, Zenon
<1>2. (CHOOSE k \in Keys : TRUE) \in Keys
    BY <1>1, Zenon
<1>3. (CHOOSE b \in Bodies : TRUE) \in Clients
    BY Zenon DEF Bodies
<1>4. QED
    BY <1>2, <1>3, Zenon DEF AF!Nothing, Calls

LEMMA WantedIsAKey ==
    ASSUME FilesType, NEW c \in Clients
    PROVE  wanted(c) \in Keys /\ call[c].key \in Keys
<1>1. call[c].key \in Keys /\ try[c] \in 0..(maxUniqueTries - 1)
    BY Zenon DEF FilesType, Calls
<1>2. call[c].key[1] \in BaseNames
    BY <1>1, Zenon DEF Keys
<1>3. QED
    BY <1>1, <1>2, Zenon DEF wanted, Keys

LEMMA FilesInvInit == FilesInit => FilesInv
<1> SUFFICES ASSUME FilesInit PROVE FilesInv
    BY Zenon
<1>0. \A c \in Clients : AF!Nothing \in Calls
    BY NothingIsACall, Zenon
<1>1. FilesType
    <2>1. 0 \in 0..(maxUniqueTries - 1)
        OBVIOUS
    <2>2. call \in [Clients -> Calls]
        BY <1>0, Zenon DEF FilesInit
    <2>3. files \in [Keys -> SUBSET Clients]
        BY Zenon DEF FilesInit
    <2>4. pc \in [Clients -> Places]
        BY Zenon DEF FilesInit, Places
    <2>5. try \in [Clients -> 0..(maxUniqueTries - 1)]
        BY <2>1, Zenon DEF FilesInit
    <2>6. DOMAIN names = Clients /\ DOMAIN ever = Clients
        BY Zenon DEF FilesInit
    <2>7. QED
        BY <2>2, <2>3, <2>4, <2>5, <2>6, Zenon DEF FilesType
<1>2. ASSUME NEW c \in Clients PROVE Answered(c) /\ Walks(c)
    BY NothingIsACall, Zenon DEF FilesInit, Answered, Walks
<1>3. QED
    BY <1>1, <1>2, Zenon DEF FilesInv

-----------------------------------------------------------------------------
(* The shapes a step of a call has.                                         *)
Moves(c) ==
  /\ \E at \in Before(call[c].op) \ {"walk"} : goes(c, at)
  /\ pc[c] \notin {"idle", "walk"} /\ call[c].status = "called" /\ call[c].op # "none"
  /\ try' \in [Clients -> 0..(maxUniqueTries - 1)] /\ quiet /\ UNCHANGED <<call, names>>
Answering(c) ==
  /\ pc[c] # "idle" /\ call[c].status = "called" /\ call[c].op # "none"
  /\ \E ok \in BOOLEAN, at \in SUBSET Keys, read \in SUBSET Clients :
        answerCall(c, ok, at, read) /\ (call[c].op = "list" => at \subseteq ever[c])
  /\ \E at \in {"cleanup", "return"} : goes(c, at)
  /\ \/ quiet
     \/ \E now \in [Keys -> SUBSET Clients] : store(now)
  /\ UNCHANGED try
  /\ (UNCHANGED names /\ names[c] = {}) \/ names' = [names EXCEPT ![c] = {}]

LEMMA AnswerShape ==
    ASSUME NEW c \in Clients, pc[c] # "idle", call[c].status = "called", call[c].op # "none",
           NEW ok \in BOOLEAN, NEW at \in SUBSET Keys, NEW read \in SUBSET Clients,
           answerCall(c, ok, at, read), call[c].op = "list" => at \subseteq ever[c],
           goes(c, "cleanup") \/ goes(c, "return"),
           quiet \/ \E now \in [Keys -> SUBSET Clients] : store(now),
           UNCHANGED try, (UNCHANGED names /\ names[c] = {}) \/ names' = [names EXCEPT ![c] = {}]
    PROVE  Answering(c)
BY Zenon DEF Answering

LEMMA AnotherMoves ==
    ASSUME FilesInv, NEW c \in Clients, another(c), quiet, UNCHANGED names, names[c] = {}, pc[c] \notin {"idle", "walk"},
           call[c].op = "unique", call[c].status = "called"
    PROVE  Moves(c) \/ Answering(c)
<1>1. CASE try[c] + 1 < maxUniqueTries
    <2>1. try' \in [Clients -> 0..(maxUniqueTries - 1)]
        BY <1>1 DEF another, FilesInv, FilesType
    <2>2. QED
        BY <1>1, <2>1, Zenon DEF another, Moves, Before
<1>2. CASE ~(try[c] + 1 < maxUniqueTries)
    <2>1. answerCall(c, FALSE, {}, {}) /\ goes(c, "return") /\ UNCHANGED try
        BY <1>2, Zenon DEF another, fail
    <2>2. {} \in SUBSET Keys /\ {} \in SUBSET Clients /\ call[c].op # "list" /\ call[c].op # "none"
        BY Zenon
    <2>3. QED
        BY <2>1, <2>2, AnswerShape, Zenon
<1>3. QED
    BY <1>1, <1>2, Zenon

LEMMA StepShapes ==
    ASSUME FilesInv, NEW c \in Clients, Step(c)
    PROVE  Moves(c) \/ Answering(c) \/ Cleanup(c) \/ ReadNames(c) \/ Walk(c) \/ Return(c)
<1> USE DEF local
<1>0. Answered(c) /\ Walks(c) /\ call[c] \in Calls /\ try \in [Clients -> 0..(maxUniqueTries - 1)]
    BY Zenon DEF FilesInv, FilesType
<1>1. pc[c] # "walk" => names[c] = {}
    BY <1>0, Zenon DEF Walks
<1>2. CASE Look(c)
    <2>1. call[c].op = "unique" /\ call[c].status = "called"
        BY <1>0, <1>2, Zenon DEF Look, Answered, Before
    <2>2. CASE files[wanted(c)] # {}
        BY <1>2, <2>1, <2>2, <1>1, AnotherMoves, Zenon DEF Look
    <2>3. CASE files[wanted(c)] = {}
        BY <1>0, <1>2, <2>1, <2>3, Zenon DEF Look, Moves, Before
    <2>4. QED
        BY <2>2, <2>3, Zenon
<1>3. CASE Stage(c)
    BY <1>0, <1>3, Zenon DEF Stage, Moves, Answered, Before
<1>4. CASE writeAll(c)
    BY <1>0, <1>4, Zenon DEF writeAll, Moves, Answered, Before
<1>5. CASE LinkTaken(c)
    BY <1>0, <1>5, Zenon DEF LinkTaken, Moves, Answered, Before
<1>6. CASE MemoryRead(c)
    BY <1>0, <1>6, Zenon DEF MemoryRead, Moves, Answered, Before
<1>7. CASE Discard(c)
    <2>1. call[c].op = "unique" /\ call[c].status = "called"
        BY <1>0, <1>7, Zenon DEF Discard, Answered, Before
    <2>2. QED
        BY <1>7, <2>1, <1>1, AnotherMoves, Zenon DEF Discard
<1>8. {} \in SUBSET Keys /\ {} \in SUBSET Clients
    BY Zenon
<1>9. CASE writeAllFails(c) \/ placeFails(c) \/ MemoryReadFails(c)
    <2>1. pc[c] # "idle" /\ call[c].status = "called" /\ call[c].op \in {"put", "unique"}
        BY <1>0, <1>9, Zenon DEF writeAllFails, placeFails, MemoryReadFails, Answered, Before
    <2>2. QED
        BY <1>9, <2>1, <1>8, <1>1, AnswerShape, Zenon DEF writeAllFails, placeFails, MemoryReadFails, fail
<1>10. wanted(c) \in Keys /\ call[c].key \in Keys
    BY WantedIsAKey, Zenon DEF FilesInv
<1>11. ASSUME NEW b \in SUBSET Clients, NEW k \in Keys
      PROVE  [files EXCEPT ![k] = b] \in [Keys -> SUBSET Clients]
    BY Zenon DEF FilesInv, FilesType
<1>12. call[c].body \in Clients
    BY <1>0, Zenon DEF Calls
<1>13. {wanted(c)} \in SUBSET Keys
    BY <1>10, Zenon
<1>14. CASE Rename(c) \/ Link(c)
    <2>1. [files EXCEPT ![wanted(c)] = {call[c].body}] \in [Keys -> SUBSET Clients]
        BY <1>10, <1>11, <1>12, Zenon
    <2>2. pc[c] # "idle" /\ call[c].status = "called" /\ call[c].op \in {"put", "unique"}
        BY <1>0, <1>14, Zenon DEF Rename, Link, Answered, Before
    <2>3. QED
        BY <1>14, <1>8, <1>13, <2>1, <2>2, <1>1, AnswerShape, ZenonT(30) DEF Rename, Link
<1>15. CASE MemoryPut(c)
    <2>1. pc[c] # "idle" /\ call[c].status = "called" /\ call[c].op \in {"put", "unique"}
        BY <1>0, <1>15, Zenon DEF MemoryPut, Answered, Before
    <2>2. CASE call[c].op = "unique" /\ files[wanted(c)] # {}
        BY <1>15, <2>1, <2>2, <1>1, AnotherMoves, Zenon DEF MemoryPut
    <2>3. CASE ~(call[c].op = "unique" /\ files[wanted(c)] # {})
        <3>1. [files EXCEPT ![wanted(c)] = {call[c].body}] \in [Keys -> SUBSET Clients]
            BY <1>10, <1>11, <1>12, Zenon
        <3>2. QED
            BY <1>15, <1>8, <1>13, <2>1, <2>3, <3>1, <1>1, AnswerShape, Zenon DEF MemoryPut
    <2>4. QED
        BY <2>2, <2>3, Zenon
<1>16. CASE Get(c)
    <2>1. files[call[c].key] \in SUBSET Clients
        BY <1>10, Zenon DEF FilesInv, FilesType
    <2>2. pc[c] # "idle" /\ call[c].status = "called" /\ call[c].op \notin {"list", "none"}
          /\ (files[call[c].key] # {}) \in BOOLEAN
        BY <1>0, <1>16, Zenon DEF Get, Answered, Before
    <2>3. QED
        BY <1>16, <1>8, <2>1, <2>2, <1>1, AnswerShape, ZenonT(30) DEF Get
<1>17. CASE Delete(c)
    <2>1. [files EXCEPT ![call[c].key] = {}] \in [Keys -> SUBSET Clients]
        BY <1>10, <1>11, Zenon
    <2>2. pc[c] # "idle" /\ call[c].status = "called" /\ call[c].op \notin {"list", "none"}
        BY <1>0, <1>17, Zenon DEF Delete, Answered, Before
    <2>3. QED
        BY <1>17, <1>8, <2>1, <2>2, <1>1, AnswerShape, Zenon DEF Delete
<1>18. CASE MemoryList(c) \/ Vanished(c) \/ Walked(c)
    <2>1. pc[c] # "idle" /\ call[c].status = "called" /\ call[c].op = "list"
        BY <1>0, <1>18, ZenonT(30) DEF MemoryList, Vanished, Walked, Answered, Before
    <2>2. there \subseteq ever[c] /\ call[c].at \subseteq ever[c] /\ there \in SUBSET Keys /\ call[c].at \in SUBSET Keys
        BY <1>0, <2>1, Zenon DEF Walks, there, Calls
    <2>3. QED
        BY <1>18, <1>8, <2>1, <2>2, <1>1, AnswerShape, Zenon DEF MemoryList, Vanished, Walked
<1>19. QED
    BY <1>2, <1>3, <1>4, <1>5, <1>6, <1>7, <1>9, <1>14, <1>15, <1>16, <1>17, <1>18, Zenon DEF Step

\* What a call knows stays true while others work.
LEMMA OthersKeep ==
    ASSUME FilesInv, NEW c \in Clients, pc'[c] = pc[c], call'[c] = call[c], names'[c] = names[c],
           quiet \/ \E now \in [Keys -> SUBSET Clients] : store(now)
    PROVE  Answered(c)' /\ Walks(c)'
<1>1. Answered(c) /\ Walks(c)
    BY Zenon DEF FilesInv
<1>2. Answered(c)'
    BY <1>1, Zenon DEF Answered, AF!Nothing
<1>3. ever[c] \subseteq ever'[c] /\ (there \subseteq ever[c] => there' \subseteq ever'[c])
    BY Zenon DEF quiet, store, there
<1>4. QED
    BY <1>1, <1>2, <1>3, Zenon DEF Walks

LEMMA FilesInvStep == FilesInv /\ [FilesNext]_fileVars => FilesInv'
<1> SUFFICES ASSUME FilesInv, [FilesNext]_fileVars PROVE FilesInv'
    BY Zenon
<1> USE DEF goes, local
<1>1. CASE UNCHANGED fileVars
    BY <1>1, Zenon DEF fileVars, FilesInv, FilesType, Answered, Walks, there, AF!Nothing
<1>2. CASE CrashFiles
    <2>1. \A c \in Clients : AF!Nothing \in Calls
        BY NothingIsACall, Zenon
    <2>2. FilesType'
        BY <1>2, <2>1 DEF CrashFiles, quiet, FilesInv, FilesType, Places
    <2>3. ASSUME NEW c \in Clients PROVE Answered(c)' /\ Walks(c)'
        BY <1>2, Zenon DEF CrashFiles, Answered, Walks, AF!Nothing
    <2>4. QED
        BY <2>2, <2>3, Zenon DEF FilesInv
<1>3. ASSUME NEW c \in Clients, BeginCall(c) PROVE FilesInv'
    <2>1. PICK op \in {"put", "unique", "get", "delete", "list"}, n \in BaseNames :
             /\ call' = [call EXCEPT ![c] = [AF!Nothing EXCEPT !.op = op, !.key = <<n, 0>>, !.body = c, !.status = "called"]]
             /\ goes(c, CASE op = "list" -> "names" [] op \in {"get", "delete"} -> "act" [] op \in {"put", "unique"} /\ driver = "memory" -> "read"
                          [] op = "unique" /\ driver # "memory" -> "look" [] OTHER -> "stage")
        BY <1>3, Zenon DEF BeginCall
    <2> DEFINE new == [AF!Nothing EXCEPT !.op = op, !.key = <<n, 0>>, !.body = c, !.status = "called"]
    <2>2. new \in Calls /\ new.op = op /\ new.status = "called" /\ new.at = {}
        <3>1. <<n, 0>> \in Keys
            BY DEF Keys
        <3>2. QED
            BY <3>1, NothingIsACall, Zenon DEF Calls
    <2>3. pc'[c] \in Before(op) /\ pc' \in [Clients -> Places] /\ pc'[c] \notin {"idle", "walk"}
        <3> DEFINE to == CASE op = "list" -> "names" [] op \in {"get", "delete"} -> "act" [] op \in {"put", "unique"} /\ driver = "memory" -> "read"
                           [] op = "unique" /\ driver # "memory" -> "look" [] OTHER -> "stage"
        <3>1. to \in Before(op) /\ to \in Places /\ to \notin {"idle", "walk"}
            <4>1. CASE op = "put"
                <5>1. to \in {"read", "stage"}
                    BY <4>1, Zenon
                <5>2. QED
                    BY <4>1, <5>1, Zenon DEF Before, Places
            <4>2. CASE op = "unique"
                <5>1. to \in {"read", "look"}
                    BY <4>2, Zenon
                <5>2. QED
                    BY <4>2, <5>1, Zenon DEF Before, Places
            <4>3. CASE op \in {"get", "delete"}
                <5>1. to = "act"
                    BY <4>3, Zenon
                <5>2. QED
                    BY <4>3, <5>1, Zenon DEF Before, Places
            <4>4. CASE op = "list"
                <5>1. to = "names"
                    BY <4>4, Zenon
                <5>2. QED
                    BY <4>4, <5>1, Zenon DEF Before, Places
            <4>5. QED
                BY <4>1, <4>2, <4>3, <4>4, Zenon
        <3>2. pc \in [Clients -> Places] /\ pc' = [pc EXCEPT ![c] = to]
            BY <2>1, Zenon DEF FilesInv, FilesType
        <3> HIDE DEF to
        <3>3. QED
            BY <3>1, <3>2, Zenon
    <2>4. call'[c] = new /\ call' \in [Clients -> Calls]
        BY <2>1, <2>2, Zenon DEF FilesInv, FilesType
    <2>5. FilesType'
        BY <1>3, <2>3, <2>4, Zenon DEF BeginCall, FilesInv, FilesType
    <2>6. Answered(c)'
        BY <2>2, <2>3, <2>4, Zenon DEF Answered
    <2>7. Walks(c)'
        BY <1>3, <2>2, <2>3, <2>4, Zenon DEF BeginCall, Walks, FilesInv, FilesType, there
    <2>8. ASSUME NEW d \in Clients, d # c PROVE Answered(d)' /\ Walks(d)'
        <3>1. Answered(d) /\ Walks(d)
            BY Zenon DEF FilesInv
        <3>2. pc'[d] = pc[d] /\ call'[d] = call[d] /\ names'[d] = names[d] /\ ever'[d] = ever[d] /\ files' = files
            BY <1>3, <2>1, <2>8, Zenon DEF BeginCall, FilesInv, FilesType
        <3>3. QED
            BY <3>1, <3>2, Zenon DEF Answered, Walks, there, AF!Nothing
    <2>9. QED
        BY <2>5, <2>6, <2>7, <2>8, Zenon DEF FilesInv
<1>4. ASSUME NEW c \in Clients, Step(c) PROVE FilesInv'
    <2>0. Answered(c) /\ Walks(c) /\ call[c] \in Calls
        BY Zenon DEF FilesInv, FilesType
    <2>1. CASE Moves(c)
        <3>1. FilesType'
            <4>1. Before(call[c].op) \subseteq Places
                BY Zenon DEF Before, Places
            <4>2. QED
                BY <2>1, <4>1, Zenon DEF Moves, FilesInv, FilesType, quiet
        <3>2. Answered(c)' /\ Walks(c)'
            BY <2>0, <2>1, Zenon DEF Moves, FilesInv, FilesType, quiet, Answered, Walks, there, Before
        <3>3. ASSUME NEW d \in Clients, d # c PROVE Answered(d)' /\ Walks(d)'
            BY <2>1, <3>3, OthersKeep, Zenon DEF Moves, FilesInv, FilesType
        <3>4. QED
            BY <3>1, <3>2, <3>3, Zenon DEF FilesInv
    <2>2. CASE Answering(c)
        <3>1. PICK ok \in BOOLEAN, at \in SUBSET Keys, read \in SUBSET Clients :
                 answerCall(c, ok, at, read) /\ (call[c].op = "list" => at \subseteq ever[c])
            BY <2>2, Zenon DEF Answering
        <3>2. /\ call' \in [Clients -> Calls] /\ call'[c].op = call[c].op /\ call'[c].at = at /\ call'[c].status = "done"
              /\ \A d \in Clients \ {c} : call'[d] = call[d]
            BY <2>0, <3>1, ZenonT(30) DEF answerCall, Calls, FilesInv, FilesType
        <3>3. /\ pc' \in [Clients -> Places] /\ pc'[c] \in {"cleanup", "return"} /\ try' = try
              /\ \A d \in Clients \ {c} : pc'[d] = pc[d] /\ names'[d] = names[d]
              /\ DOMAIN names' = Clients /\ (names'[c] = names[c] \/ names'[c] = {})
            BY <2>2 DEF Answering, FilesInv, FilesType, Places
        <3>4. /\ files' \in [Keys -> SUBSET Clients] /\ DOMAIN ever' = Clients
              /\ ever[c] \subseteq ever'[c] /\ (there \subseteq ever[c] => there' \subseteq ever'[c])
            BY <2>2 DEF Answering, FilesInv, FilesType, quiet, store, there
        <3>5. FilesType'
            BY <3>2, <3>3, <3>4, ZenonT(30) DEF FilesInv, FilesType
        <3>6. Answered(c)' /\ Walks(c)'
            <4>1. Answered(c)'
                BY <2>2, <3>2, <3>3, ZenonT(30) DEF Answering, Answered
            <4>2. QED
                BY <2>0, <2>2, <3>1, <3>2, <3>3, <3>4, <4>1, ZenonT(30) DEF Answering, Walks
        <3>7. ASSUME NEW d \in Clients, d # c PROVE Answered(d)' /\ Walks(d)'
            BY <2>2, <3>2, <3>3, <3>7, OthersKeep, ZenonT(30) DEF Answering
        <3>8. QED
            BY <3>5, <3>6, <3>7, Zenon DEF FilesInv
    <2>3. CASE Cleanup(c)
        <3>1. FilesType'
            BY <2>3, Zenon DEF Cleanup, FilesInv, FilesType, quiet, Places
        <3>2. Answered(c)' /\ Walks(c)'
            BY <2>0, <2>3, Zenon DEF Cleanup, FilesInv, FilesType, quiet, Answered, Walks, there, Before
        <3>3. ASSUME NEW d \in Clients, d # c PROVE Answered(d)' /\ Walks(d)'
            BY <2>3, <3>3, OthersKeep, Zenon DEF Cleanup, FilesInv, FilesType
        <3>4. QED
            BY <3>1, <3>2, <3>3, Zenon DEF FilesInv
    <2>4. CASE ReadNames(c)
        <3>1. FilesType'
            BY <2>4, Zenon DEF ReadNames, FilesInv, FilesType, quiet, Places
        <3>2. call[c].op = "list" /\ call[c].status = "called" /\ pc[c] # "idle"
            BY <2>0, <2>4, Zenon DEF ReadNames, Answered, Before
        <3>3. Answered(c)'
            BY <2>4, <3>2, Zenon DEF ReadNames, FilesInv, FilesType, Answered, Before
        <3>4. Walks(c)'
            <4>1. names'[c] = there \cup ({"temp"} \X temps) /\ there \subseteq ever[c] /\ there \subseteq Keys
                BY <2>0, <2>4, <3>2, Zenon DEF ReadNames, FilesInv, FilesType, Walks, there
            <4>2. \A name \in {"temp"} \X temps : name[1] = "temp"
                BY Zenon
            <4>3. QED
                BY <2>0, <2>4, <3>2, <4>1, <4>2, ZenonT(30) DEF ReadNames, Walks, quiet, there, FilesInv, FilesType
        <3>5. ASSUME NEW d \in Clients, d # c PROVE Answered(d)' /\ Walks(d)'
            BY <2>4, <3>5, OthersKeep, Zenon DEF ReadNames, FilesInv, FilesType
        <3>6. QED
            BY <3>1, <3>3, <3>4, <3>5, Zenon DEF FilesInv
    <2>5. CASE Walk(c)
        <3>1. PICK name \in names[c] : /\ names' = [names EXCEPT ![c] = @ \ {name}]
                                       /\ call' = [call EXCEPT ![c].at = @ \cup listed(name)]
            BY <2>5, Zenon DEF Walk
        <3>2. call[c].op = "list" /\ call[c].status = "called" /\ pc[c] = "walk"
            BY <2>0, <2>5, Zenon DEF Walk, Answered, Before
        <3>3. listed(name) \subseteq Keys /\ listed(name) \subseteq ever[c]
            BY <2>0, Zenon DEF Walks, listed
        <3>4. /\ call' \in [Clients -> Calls] /\ call'[c].at = call[c].at \cup listed(name)
              /\ call'[c].op = "list" /\ call'[c].status = "called" /\ \A d \in Clients \ {c} : call'[d] = call[d]
            BY <2>0, <3>1, <3>2, <3>3, Zenon DEF Calls, FilesInv, FilesType
        <3>5. FilesType'
            BY <2>5, <3>1, <3>4, Zenon DEF Walk, FilesInv, FilesType, quiet
        <3>6. Answered(c)' /\ Walks(c)'
            BY <2>0, <2>5, <3>1, <3>2, <3>3, <3>4, Zenon DEF Walk, FilesInv, FilesType, quiet, Answered, Walks, there, Before
        <3>7. ASSUME NEW d \in Clients, d # c PROVE Answered(d)' /\ Walks(d)'
            BY <2>5, <3>1, <3>4, <3>7, OthersKeep, Zenon DEF Walk, FilesInv, FilesType
        <3>8. QED
            BY <3>5, <3>6, <3>7, Zenon DEF FilesInv
    <2>6. CASE Return(c)
        <3>1. 0 \in 0..(maxUniqueTries - 1) /\ AF!Nothing \in Calls
            BY NothingIsACall, SMTT(20)
        <3>2. FilesType'
            BY <2>6, <3>1, Zenon DEF Return, FilesInv, FilesType, quiet, Places
        <3>3. Answered(c)' /\ Walks(c)'
            BY <2>0, <2>6, ZenonT(30) DEF Return, FilesInv, FilesType, quiet, Answered, Walks, there, AF!Nothing
        <3>4. ASSUME NEW d \in Clients, d # c PROVE Answered(d)' /\ Walks(d)'
            BY <2>6, <3>4, OthersKeep, ZenonT(30) DEF Return, FilesInv, FilesType
        <3>5. QED
            BY <3>2, <3>3, <3>4, Zenon DEF FilesInv
    <2>7. QED
        BY <1>4, <2>1, <2>2, <2>3, <2>4, <2>5, <2>6, StepShapes, Zenon
<1>5. QED
    BY <1>1, <1>2, <1>3, <1>4, Zenon DEF FilesNext

-----------------------------------------------------------------------------
(* The abstract call is the call itself, but for what a walk has collected. *)
LEMMA AbstractCall ==
    ASSUME FilesInv, NEW c \in Clients
    PROVE  /\ AtomicCall[c] \in Calls /\ AtomicCall[c].op = call[c].op /\ AtomicCall[c].key = call[c].key
           /\ AtomicCall[c].body = call[c].body /\ AtomicCall[c].status = call[c].status
           /\ (~listing(c) => AtomicCall[c] = call[c])
<1>1. call[c] \in Calls
    BY Zenon DEF FilesInv, FilesType
<1>2. CASE listing(c)
    BY <1>1, <1>2, Zenon DEF AtomicCall, Calls
<1>3. CASE ~listing(c)
    BY <1>1, <1>3, Zenon DEF AtomicCall, Calls
<1>4. QED
    BY <1>2, <1>3, Zenon

LEMMA AbstractAnswer ==
    ASSUME FilesInv, NEW c \in Clients, NEW ok \in BOOLEAN, NEW at \in SUBSET Keys, NEW read \in SUBSET Clients,
           answerCall(c, ok, at, read), pc[c] \notin {"idle", "return", "cleanup"}
    PROVE  Atomic!Answers(c, ok, at, read)
<1>0. call \in [Clients -> Calls] /\ call[c].status = "called"
    BY Zenon DEF FilesInv, FilesType, Answered
<1>1. call'[c] = [call[c] EXCEPT !.status = "done", !.ok = ok, !.at = at, !.read = read] /\ \A d \in Clients \ {c} : call'[d] = call[d]
    BY <1>0, Zenon DEF answerCall
<1>2. AtomicCall'[c] = call'[c]
    BY <1>0, <1>1, Zenon DEF AtomicCall, listing, Calls
<1>3. \A d \in Clients \ {c} : AtomicCall'[d] = AtomicCall[d]
    BY <1>1, Zenon DEF AtomicCall, listing
<1>4. [AtomicCall[c] EXCEPT !.status = "done", !.ok = ok, !.at = at, !.read = read] = call'[c]
    <2>1. CASE listing(c)
        BY <1>0, <1>1, <2>1, Zenon DEF AtomicCall, Calls
    <2>2. CASE ~listing(c)
        BY <1>0, <1>1, <2>2, Zenon DEF AtomicCall, Calls
    <2>3. QED
        BY <2>1, <2>2, Zenon
<1>5. AtomicCall' = [AtomicCall EXCEPT ![c].status = "done", ![c].ok = ok, ![c].at = at, ![c].read = read]
    <2>1. DOMAIN AtomicCall = Clients /\ DOMAIN AtomicCall' = Clients
        BY Zenon DEF AtomicCall
    <2>2. QED
        BY <1>2, <1>3, <1>4, <2>1, Zenon DEF AtomicCall
<1>6. AtomicCall[c].status = "called"
    BY <1>0, AbstractCall, Zenon
<1>7. QED
    BY <1>5, <1>6, Zenon DEF Atomic!Answers

LEMMA AbstractFails ==
    ASSUME FilesInv, NEW c \in Clients, fail(c), UNCHANGED files, pc[c] \notin {"idle", "return", "cleanup"}
    PROVE  Atomic!Fails(c)
<1>1. {} \in SUBSET Keys /\ {} \in SUBSET Clients /\ answerCall(c, FALSE, {}, {})
    BY Zenon DEF fail
<1>2. Atomic!Answers(c, FALSE, {}, {})
    BY <1>1, AbstractAnswer, Zenon
<1>3. QED
    BY <1>2, Zenon DEF Atomic!Fails

LEMMA AbstractStutter == ASSUME UNCHANGED <<files, call>> PROVE UNCHANGED <<files, AtomicCall>>
BY Zenon DEF AtomicCall, listing

LEMMA AbstractBegin == ASSUME FilesInv, NEW c \in Clients, BeginCall(c) PROVE Atomic!Begin(c)
<1>1. PICK op \in {"put", "unique", "get", "delete", "list"}, n \in BaseNames :
         call' = [call EXCEPT ![c] = [AF!Nothing EXCEPT !.op = op, !.key = <<n, 0>>, !.body = c, !.status = "called"]]
    BY Zenon DEF BeginCall
<1> DEFINE new == [AF!Nothing EXCEPT !.op = op, !.key = <<n, 0>>, !.body = c, !.status = "called"]
<1>2. AF!Nothing \in Calls /\ AF!Nothing.at = {} /\ call \in [Clients -> Calls] /\ call[c] = AF!Nothing /\ AF!Nothing.status = "idle"
    BY NothingIsACall, Zenon DEF FilesInv, FilesType, Answered, BeginCall, Before
<1>3. <<n, 0>> \in Keys
    BY DEF Keys
<1>4. new \in Calls /\ new.at = {}
    BY <1>2, <1>3, Zenon DEF Calls
<1>5. [new EXCEPT !.at = {}] = new
    BY <1>4, Zenon DEF Calls
<1> HIDE DEF new
<1>6. call'[c] = new /\ \A d \in Clients \ {c} : call'[d] = call[d]
    BY <1>1, <1>2, Zenon DEF new
<1>7. AtomicCall'[c] = new
    BY <1>5, <1>6, Zenon DEF AtomicCall
<1>8. \A d \in Clients \ {c} : AtomicCall'[d] = AtomicCall[d]
    BY <1>6, Zenon DEF AtomicCall, listing
<1>9. AtomicCall' = [AtomicCall EXCEPT ![c] = new]
    BY <1>7, <1>8, Zenon DEF AtomicCall
<1>10. AtomicCall' = [AtomicCall EXCEPT ![c] = [Atomic!Nothing EXCEPT !.op = op, !.key = <<n, 0>>, !.body = c, !.status = "called"]]
    BY <1>9, ZenonT(30) DEF new, AF!Nothing, Atomic!Nothing
<1>11. AtomicCall[c].status = "idle"
    BY <1>2, AbstractCall, Zenon
<1>12. QED
    BY <1>3, <1>10, <1>11, Zenon DEF Atomic!Begin, Bodies, BeginCall

LEMMA AbstractReturn == ASSUME FilesInv, NEW c \in Clients, Return(c) PROVE Atomic!Finish(c)
<1>1. call \in [Clients -> Calls] /\ call[c].status = "done" /\ AF!Nothing.op = "none"
    BY NothingIsACall, Zenon DEF FilesInv, FilesType, Answered, Return, Before
<1>2. call'[c] = AF!Nothing /\ \A d \in Clients \ {c} : call'[d] = call[d]
    BY <1>1, Zenon DEF Return
<1>3. AtomicCall'[c] = AF!Nothing
    BY <1>1, <1>2, Zenon DEF AtomicCall, listing
<1>4. \A d \in Clients \ {c} : AtomicCall'[d] = AtomicCall[d]
    BY <1>2, Zenon DEF AtomicCall, listing
<1>5. AtomicCall' = [AtomicCall EXCEPT ![c] = AF!Nothing]
    BY <1>3, <1>4, ZenonT(30) DEF AtomicCall
<1>6. AF!Nothing = Atomic!Nothing
    BY Zenon DEF AF!Nothing, Atomic!Nothing
<1>7. AtomicCall[c].status = "done"
    BY <1>1, AbstractCall, Zenon
<1>8. QED
    BY <1>5, <1>6, <1>7, Zenon DEF Atomic!Finish, Return, quiet

LEMMA AbstractCrash == ASSUME FilesInv, CrashFiles PROVE Atomic!Crash
<1>1. \A c \in Clients : call'[c] = AF!Nothing /\ AF!Nothing.op = "none"
    BY NothingIsACall, Zenon DEF CrashFiles
<1>2. AtomicCall' = [c \in Clients |-> AF!Nothing]
    BY <1>1, Zenon DEF AtomicCall, listing
<1>3. AF!Nothing = Atomic!Nothing
    BY ZenonT(30) DEF AF!Nothing, Atomic!Nothing
<1>4. QED
    BY <1>2, <1>3, Zenon DEF Atomic!Crash, CrashFiles, quiet

LEMMA AbstractStep ==
    ASSUME FilesInv, NEW c \in Clients, Step(c)
    PROVE  \/ UNCHANGED <<files, AtomicCall>>
           \/ Atomic!Puts(c) \/ Atomic!PutsUnique(c) \/ Atomic!Deletes(c) \/ Atomic!Gets(c) \/ Atomic!Lists(c)
           \/ Atomic!Fails(c) \/ Atomic!Finish(c)
<1> USE DEF local, quiet
<1>0. Answered(c) /\ Walks(c) /\ call[c] \in Calls /\ wanted(c) \in Keys /\ call[c].key \in Keys
    BY WantedIsAKey, ZenonT(30) DEF FilesInv, FilesType
<1>1. /\ AtomicCall[c].op = call[c].op /\ AtomicCall[c].key = call[c].key /\ AtomicCall[c].body = call[c].body
      /\ {} \in SUBSET Keys /\ {} \in SUBSET Clients /\ {wanted(c)} \in SUBSET Keys
    BY <1>0, AbstractCall, Zenon
<1>2. ASSUME another(c), UNCHANGED files, pc[c] \notin {"idle", "return", "cleanup"}
      PROVE  Atomic!Fails(c) \/ UNCHANGED <<files, AtomicCall>>
    <2>1. CASE fail(c)
        BY <1>2, <2>1, AbstractFails, Zenon
    <2>2. CASE UNCHANGED call
        BY <1>2, <2>2, AbstractStutter, Zenon
    <2>3. QED
        BY <1>2, <2>1, <2>2, Zenon DEF another
<1>3. CASE Look(c) \/ Discard(c)
    BY <1>2, <1>3, AbstractStutter, ZenonT(30) DEF Look, Discard
<1>4. CASE Stage(c) \/ writeAll(c) \/ LinkTaken(c) \/ Cleanup(c) \/ MemoryRead(c) \/ ReadNames(c)
    BY <1>4, AbstractStutter, Zenon DEF Stage, writeAll, LinkTaken, Cleanup, MemoryRead, ReadNames
<1>5. CASE writeAllFails(c) \/ placeFails(c) \/ MemoryReadFails(c)
    BY <1>5, AbstractFails, Zenon DEF writeAllFails, placeFails, MemoryReadFails
<1>6. ASSUME call[c].op = "put", files' = [files EXCEPT ![wanted(c)] = {call[c].body}], answerCall(c, TRUE, {wanted(c)}, {}),
             pc[c] \notin {"idle", "return", "cleanup"}
      PROVE  Atomic!Puts(c)
    <2>1. wanted(c) = call[c].key
        BY <1>6, Zenon DEF wanted
    <2>2. Atomic!Answers(c, TRUE, {wanted(c)}, {})
        BY <1>1, <1>6, AbstractAnswer, Zenon
    <2>3. QED
        BY <1>1, <1>6, <2>1, <2>2, Zenon DEF Atomic!Puts
<1>7. ASSUME call[c].op = "unique", files[wanted(c)] = {}, files' = [files EXCEPT ![wanted(c)] = {call[c].body}],
             answerCall(c, TRUE, {wanted(c)}, {}), pc[c] \notin {"idle", "return", "cleanup"}
      PROVE  Atomic!PutsUnique(c)
    <2>1. wanted(c) \in Series(call[c].key)
        BY <1>7, Zenon DEF wanted, Series, FilesInv, FilesType
    <2>2. Atomic!Answers(c, TRUE, {wanted(c)}, {})
        BY <1>1, <1>7, AbstractAnswer, Zenon
    <2>3. QED
        BY <1>1, <1>7, <2>1, <2>2, ZenonT(30) DEF Atomic!PutsUnique
<1>8. CASE Rename(c)
    BY <1>6, <1>8, Zenon DEF Rename, store
<1>9. CASE Link(c)
    BY <1>7, <1>9, ZenonT(30) DEF Link, store
<1>10. CASE MemoryPut(c)
    <2>1. pc[c] = "lock" /\ call[c].op \in {"put", "unique"}
        BY <1>0, <1>10, Zenon DEF MemoryPut, Answered, Before
    <2>2. CASE call[c].op = "unique" /\ files[wanted(c)] # {}
        BY <1>2, <1>10, <2>1, <2>2, Zenon DEF MemoryPut
    <2>3. CASE call[c].op = "put"
        BY <1>6, <1>10, <2>1, <2>3, Zenon DEF MemoryPut, store
    <2>4. CASE call[c].op = "unique" /\ files[wanted(c)] = {}
        BY <1>7, <1>10, <2>1, <2>4, Zenon DEF MemoryPut, store
    <2>5. QED
        BY <2>1, <2>2, <2>3, <2>4, Zenon
<1>11. CASE Get(c)
    <2>1. files[call[c].key] \in SUBSET Clients /\ (files[call[c].key] # {}) \in BOOLEAN
        BY <1>0, Zenon DEF FilesInv, FilesType
    <2>2. Atomic!Answers(c, files[call[c].key] # {}, {}, files[call[c].key])
        BY <1>1, <1>11, <2>1, AbstractAnswer, Zenon DEF Get
    <2>3. QED
        BY <1>1, <1>11, <2>2, ZenonT(30) DEF Atomic!Gets, Get
<1>12. CASE Delete(c)
    <2>1. Atomic!Answers(c, TRUE, {}, {})
        BY <1>1, <1>12, AbstractAnswer, Zenon DEF Delete
    <2>2. QED
        BY <1>1, <1>12, <2>1, Zenon DEF Atomic!Deletes, Delete, store
<1>13. ASSUME NEW at \in SUBSET Keys, answerCall(c, TRUE, at, {}), call[c].op = "list", UNCHANGED files,
              pc[c] \notin {"idle", "return", "cleanup"}
       PROVE  Atomic!Lists(c)
    <2>1. Atomic!Answers(c, TRUE, at, {})
        BY <1>1, <1>13, AbstractAnswer, Zenon
    <2>2. QED
        BY <1>1, <1>13, <2>1, Zenon DEF Atomic!Lists
<1>14. CASE MemoryList(c) \/ Vanished(c) \/ Walked(c)
    <2>1. call[c].op = "list" /\ there \in SUBSET Keys /\ call[c].at \in SUBSET Keys /\ pc[c] \notin {"idle", "return", "cleanup"}
        BY <1>0, <1>14, Zenon DEF MemoryList, Vanished, Walked, Answered, Before, there, Calls
    <2>2. QED
        BY <1>1, <1>13, <1>14, <2>1, Zenon DEF MemoryList, Vanished, Walked
<1>15. CASE Walk(c)
    <2>1. PICK at : call' = [call EXCEPT ![c].at = at]
        BY <1>15, Zenon DEF Walk
    <2>2. listing(c) /\ call \in [Clients -> Calls]
        BY <1>0, <1>15, Zenon DEF Walk, Answered, Before, listing, FilesInv, FilesType
    <2>3. call'[c] = [call[c] EXCEPT !.at = at] /\ \A d \in Clients \ {c} : call'[d] = call[d]
        BY <2>1, <2>2, Zenon
    <2>4. listing(c)' /\ [call'[c] EXCEPT !.at = {}] = [call[c] EXCEPT !.at = {}]
        BY <2>2, <2>3, Zenon DEF listing, Calls
    <2>5. \A d \in Clients : AtomicCall'[d] = AtomicCall[d]
        BY <2>2, <2>3, <2>4, Zenon DEF AtomicCall, listing
    <2>6. AtomicCall' = AtomicCall
        BY <2>5, Zenon DEF AtomicCall
    <2>7. QED
        BY <1>15, <2>6, Zenon DEF Walk
<1>16. CASE Return(c)
    BY <1>16, AbstractReturn, Zenon
<1>17. QED
    BY <1>3, <1>4, <1>5, <1>8, <1>9, <1>10, <1>11, <1>12, <1>14, <1>15, <1>16, ZenonT(30) DEF Step

(* However the calls race, fail and are cut off by a crash, the drivers'    *)
(* files change as if each call took effect at one moment or not at all,    *)
(* PutUnique never replaces a file, and a list names only what was there.   *)
THEOREM FilesRefine == FilesSpec => FilesAtomic
<1>1. FilesSpec => []FilesInv
    BY FilesInvInit, FilesInvStep, PTL DEF FilesSpec
<1>2. FilesInit => Atomic!Init
    <2> SUFFICES ASSUME FilesInit PROVE Atomic!Init
        BY Zenon
    <2>1. \A c \in Clients : call[c] = AF!Nothing /\ AF!Nothing.op = "none"
        BY NothingIsACall, Zenon DEF FilesInit
    <2>2. AtomicCall = [c \in Clients |-> AF!Nothing]
        BY <2>1, Zenon DEF AtomicCall, listing
    <2>3. AF!Nothing = Atomic!Nothing
        BY Zenon DEF AF!Nothing, Atomic!Nothing
    <2>4. QED
        BY <2>2, <2>3, Zenon DEF Atomic!Init, FilesInit
<1>3. FilesInv /\ [FilesNext]_fileVars => [Atomic!Next]_<<files, AtomicCall>>
    <2> SUFFICES ASSUME FilesInv, [FilesNext]_fileVars PROVE Atomic!Next \/ UNCHANGED <<files, AtomicCall>>
        BY Zenon
    <2>1. CASE UNCHANGED fileVars
        BY <2>1, AbstractStutter, Zenon DEF fileVars
    <2>2. CASE CrashFiles
        BY <2>2, AbstractCrash, Zenon DEF Atomic!Next
    <2>3. ASSUME NEW c \in Clients, BeginCall(c) PROVE Atomic!Next
        BY <2>3, AbstractBegin, Zenon DEF Atomic!Next
    <2>4. ASSUME NEW c \in Clients, Step(c) PROVE Atomic!Next \/ UNCHANGED <<files, AtomicCall>>
        BY <2>4, AbstractStep, Zenon DEF Atomic!Next
    <2>5. QED
        BY <2>1, <2>2, <2>3, <2>4, Zenon DEF FilesNext
<1>4. FilesInv => ListedWasThere
    <2> SUFFICES ASSUME FilesInv, NEW c \in Clients, call[c].op = "list" PROVE call[c].at \subseteq ever[c]
        BY Zenon DEF ListedWasThere
    <2>1. AF!Nothing.op = "none"
        BY NothingIsACall, Zenon
    <2>2. QED
        BY <2>1, Zenon DEF FilesInv, Answered, Walks, Before
<1>5. QED
    BY <1>1, <1>2, <1>3, <1>4, PTL DEF FilesSpec, FilesAtomic, Atomic!Spec
==============================================================================
