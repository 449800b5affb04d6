---------------------------- MODULE ServiceProofs ----------------------------
(***************************************************************************)
(* Proofs about what serves every request from behind: the audit queue, for *)
(* any entries, workers and buffer; retention, for any rules, tables and    *)
(* commands at once; and the circuit breaker, for any number of callers,    *)
(* any threshold and any open timeout.                                      *)
(***************************************************************************)
EXTENDS AuditQueue, Retention, CircuitBreaker, FiniteSetTheorems, WellFoundedInduction, TLAPS

-----------------------------------------------------------------------------
(* The audit queue.                                                          *)

Fates == {"new", "refused", "queued", "taken", "written", "reported"}
Shutdowns == {"no", "waiting", "flushed", "timed out"}

\* What the WaitGroup counts: the goroutines that run and the entries accepted
\* and not yet done.
Running == {w \in AuditWorkers : drainer[w] # {"gone"}}
Pending == {e \in AuditEntries : entryIs[e] \in {"queued", "taken"}}

QueueType ==
    /\ entryIs \in [AuditEntries -> Fates]
    /\ channel \in Seq(AuditEntries)
    /\ closed \in BOOLEAN
    /\ drainer \in [AuditWorkers -> SUBSET (AuditEntries \cup {"gone"})]
    /\ shutdown \in Shutdowns

\* Who has an entry: the channel one that is queued, once; a goroutine one that
\* is taken, and no other goroutine.
Holding ==
    /\ \A i \in 1..Len(channel) : entryIs[channel[i]] = "queued"
    /\ \A i, j \in 1..Len(channel) : channel[i] = channel[j] => i = j
    /\ \A w \in AuditWorkers : \/ drainer[w] \in {{}, {"gone"}}
                               \/ \E e \in AuditEntries : drainer[w] = {e} /\ entryIs[e] = "taken"
    /\ \A v, w \in AuditWorkers : \A e \in AuditEntries : e \in drainer[v] /\ e \in drainer[w] => v = w

Counting ==
    /\ IsFiniteSet(Pending)
    /\ waitGroup = Cardinality(Running) + Cardinality(Pending)

Closing ==
    /\ shutdown # "no" => closed
    /\ shutdown = "flushed" => Running = {} /\ Pending = {}

QueueInv == QueueType /\ Holding /\ Counting /\ Closing

LEMMA CountsAreNat ==
    ASSUME QueueInv
    PROVE  /\ IsFiniteSet(Running) /\ Cardinality(Running) \in Nat /\ Cardinality(Pending) \in Nat
           /\ waitGroup \in Nat
<1>1. IsFiniteSet(Running)
    BY AuditQueueAssumption, FS_Subset, Zenon DEF Running
<1> QED
    BY <1>1, FS_CardinalityType DEF QueueInv, Counting

LEMMA QueueStarts ==
    ASSUME AuditInit
    PROVE  QueueInv
<1>0. closed \in BOOLEAN
    BY Zenon DEF AuditInit
<1>1. QueueType
    BY <1>0 DEF AuditInit, QueueType, Fates, Shutdowns
<1>2. Holding
    BY DEF AuditInit, Holding
<1>3. Pending = {} /\ Running = AuditWorkers
    BY Zenon DEF AuditInit, Pending, Running
<1>4. Counting
    BY <1>3, AuditQueueAssumption, FS_EmptySet, FS_CardinalityType DEF AuditInit, Counting
<1>5. Closing
    BY Zenon DEF AuditInit, Closing
<1> QED
    BY <1>1, <1>2, <1>4, <1>5, Zenon DEF QueueInv

LEMMA WriteKeeps ==
    ASSUME QueueInv, NEW e \in AuditEntries, QueueWrite(e)
    PROVE  QueueInv'
<1> USE DEF QueueInv
<1>0. Running' = Running
    BY Zenon DEF QueueWrite, Running
<1>1. CASE closed \/ Len(channel) = AuditBuffer
    <2>1. /\ entryIs' = [entryIs EXCEPT ![e] = "refused"] /\ entryIs[e] = "new"
          /\ UNCHANGED <<channel, waitGroup, closed, drainer, shutdown>>
        BY <1>1, Zenon DEF QueueWrite
    <2>2. QueueType'
        BY <2>1, Zenon DEF QueueType, Fates
    <2>3. Holding'
        BY <2>1 DEF QueueType, Holding
    <2>4. Pending' = Pending
        BY <2>1, Zenon DEF QueueType, Pending
    <2> QED
        BY <1>0, <2>1, <2>2, <2>3, <2>4, Zenon DEF Counting, Closing
<1>2. CASE ~(closed \/ Len(channel) = AuditBuffer)
    <2>1. /\ entryIs' = [entryIs EXCEPT ![e] = "queued"] /\ entryIs[e] = "new"
          /\ channel' = Append(channel, e) /\ waitGroup' = waitGroup + 1
          /\ UNCHANGED <<closed, drainer, shutdown>> /\ ~closed
        BY <1>2, Zenon DEF QueueWrite
    <2>2. QueueType'
        BY <2>1 DEF QueueType, Fates
    <2>3. Holding'
        BY <2>1 DEF QueueType, Holding
    <2>4. Pending' = Pending \cup {e} /\ e \notin Pending
        BY <2>1, Zenon DEF QueueType, Pending
    <2>5. IsFiniteSet(Pending') /\ Cardinality(Pending') = Cardinality(Pending) + 1
        BY <2>4, FS_AddElement, Zenon DEF Counting
    <2>6. Counting'
        BY <1>0, <2>1, <2>5, CountsAreNat DEF Counting
    <2> QED
        BY <2>1, <2>2, <2>3, <2>6, Zenon DEF Closing
<1> QED
    BY <1>1, <1>2, Zenon

LEMMA TakeKeeps ==
    ASSUME QueueInv, NEW w \in AuditWorkers, LoopTake(w)
    PROVE  QueueInv'
<1> USE DEF QueueInv
<1>1. PICK e \in AuditEntries : /\ e = Head(channel) /\ entryIs[e] = "queued"
                                /\ \A i \in 2..Len(channel) : channel[i] # e
    BY DEF LoopTake, QueueType, Holding
<1>2. /\ drainer' = [drainer EXCEPT ![w] = {e}] /\ entryIs' = [entryIs EXCEPT ![e] = "taken"]
      /\ drainer[w] = {} /\ channel' = Tail(channel) /\ UNCHANGED <<closed, waitGroup, shutdown>>
      /\ channel # <<>>
    BY <1>1, Zenon DEF LoopTake
<1>3. QueueType'
    BY <1>2 DEF QueueType, Fates
<1>4. Len(channel') = Len(channel) - 1 /\ \A i \in 1..Len(channel') : channel'[i] = channel[i + 1] /\ i + 1 \in 2..Len(channel)
    BY <1>2 DEF QueueType
<1>5. \A v \in AuditWorkers : e \notin drainer[v]
    BY <1>1, AuditQueueAssumption DEF Holding
<1>6. Holding'
    <2>1. /\ \A i \in 1..Len(channel') : entryIs'[channel'[i]] = "queued"
          /\ \A i, j \in 1..Len(channel') : channel'[i] = channel'[j] => i = j
        BY <1>1, <1>2, <1>4 DEF QueueType, Holding
    <2>2. ASSUME NEW v \in AuditWorkers
          PROVE  \/ drainer'[v] \in {{}, {"gone"}}
                 \/ \E d \in AuditEntries : drainer'[v] = {d} /\ entryIs'[d] = "taken"
        BY <1>1, <1>2, Zenon DEF QueueType, Holding
    <2>3. ASSUME NEW u \in AuditWorkers, NEW v \in AuditWorkers, NEW d \in AuditEntries, d \in drainer'[u], d \in drainer'[v]
          PROVE  u = v
        BY <1>2, <1>5, <2>3 DEF QueueType, Holding
    <2> QED
        BY <2>1, <2>2, <2>3, Zenon DEF Holding
<1>7. Pending' = Pending
    BY <1>1, <1>2, Zenon DEF QueueType, Pending
<1>8. Running' = Running
    BY <1>1, <1>2, AuditQueueAssumption, Zenon DEF QueueType, Running
<1> QED
    BY <1>2, <1>3, <1>6, <1>7, <1>8, Zenon DEF Counting, Closing

LEMMA WroteKeeps ==
    ASSUME QueueInv, NEW w \in AuditWorkers, LoopWrote(w)
    PROVE  QueueInv'
<1> USE DEF QueueInv
<1>1. PICK e \in drainer[w] \cap AuditEntries, how \in {"written", "reported"} : entryIs' = [entryIs EXCEPT ![e] = how]
    BY Zenon DEF LoopWrote
<1>2. /\ drainer' = [drainer EXCEPT ![w] = {}] /\ waitGroup' = waitGroup - 1
      /\ UNCHANGED <<channel, closed, shutdown>>
    BY Zenon DEF LoopWrote
<1>3. drainer[w] = {e} /\ entryIs[e] = "taken" /\ e \in AuditEntries
    BY <1>1, AuditQueueAssumption DEF Holding
<1>4. QueueType'
    BY <1>1, <1>2, Zenon DEF QueueType, Fates
<1>5. Holding'
    <2>1. /\ \A i \in 1..Len(channel') : entryIs'[channel'[i]] = "queued"
          /\ \A i, j \in 1..Len(channel') : channel'[i] = channel'[j] => i = j
        BY <1>1, <1>2, <1>3 DEF QueueType, Holding
    <2>2. ASSUME NEW v \in AuditWorkers
          PROVE  \/ drainer'[v] \in {{}, {"gone"}}
                 \/ \E d \in AuditEntries : drainer'[v] = {d} /\ entryIs'[d] = "taken"
        BY <1>1, <1>2, <1>3 DEF QueueType, Holding
    <2>3. ASSUME NEW u \in AuditWorkers, NEW v \in AuditWorkers, NEW d \in AuditEntries, d \in drainer'[u], d \in drainer'[v]
          PROVE  u = v
        BY <1>2, <2>3 DEF QueueType, Holding
    <2> QED
        BY <2>1, <2>2, <2>3, Zenon DEF Holding
<1>6. Pending' = Pending \ {e} /\ e \in Pending
    BY <1>1, <1>3, Zenon DEF QueueType, Pending
<1>7. Running' = Running
    BY <1>2, <1>3, AuditQueueAssumption, Zenon DEF QueueType, Running
<1>8. IsFiniteSet(Pending') /\ Cardinality(Pending') = Cardinality(Pending) - 1
    BY <1>6, FS_RemoveElement, Zenon DEF Counting
<1>9. Counting'
    BY <1>2, <1>7, <1>8, CountsAreNat DEF Counting
<1> QED
    BY <1>2, <1>4, <1>5, <1>6, <1>7, <1>9, Zenon DEF Closing

LEMMA GoneKeeps ==
    ASSUME QueueInv, NEW w \in AuditWorkers, LoopGone(w)
    PROVE  QueueInv'
<1> USE DEF QueueInv
<1>1. /\ drainer' = [drainer EXCEPT ![w] = {"gone"}] /\ waitGroup' = waitGroup - 1 /\ drainer[w] = {}
      /\ UNCHANGED <<entryIs, channel, closed, shutdown>>
    BY Zenon DEF LoopGone
<1>2. QueueType'
    BY <1>1, Zenon DEF QueueType
<1>3. Holding'
    BY <1>1, AuditQueueAssumption DEF QueueType, Holding
<1>4. Pending' = Pending
    BY <1>1, Zenon DEF Pending
<1>5. Running' = Running \ {w} /\ w \in Running
    BY <1>1, Zenon DEF QueueType, Running
<1>6. Cardinality(Running') = Cardinality(Running) - 1
    BY <1>5, CountsAreNat, FS_RemoveElement, Zenon
<1>7. Counting'
    BY <1>1, <1>4, <1>6, CountsAreNat DEF Counting
<1> QED
    BY <1>1, <1>2, <1>3, <1>4, <1>5, <1>7, Zenon DEF Closing

LEMMA ShutdownKeeps ==
    ASSUME QueueInv, ShutdownQueue \/ Flushed
    PROVE  QueueInv'
<1> USE DEF QueueInv
<1>1. Pending' = Pending /\ Running' = Running
    BY Zenon DEF ShutdownQueue, Flushed, Pending, Running
<1>2. Holding' /\ Counting'
    BY <1>1, Zenon DEF ShutdownQueue, Flushed, Holding, Counting
<1>3. QueueType'
    BY Zenon DEF ShutdownQueue, Flushed, QueueType, Shutdowns
<1>4. Closing'
    <2>1. CASE ShutdownQueue
        BY <2>1, Zenon DEF ShutdownQueue, Closing
    <2>2. CASE Flushed /\ shutdown' = "flushed"
        <3>1. waitGroup = 0 /\ UNCHANGED closed /\ shutdown = "waiting"
            BY <2>2, Zenon DEF Flushed
        <3>2. Cardinality(Running) = 0 /\ Cardinality(Pending) = 0
            BY <3>1, CountsAreNat DEF Counting
        <3>3. Running = {} /\ Pending = {}
            BY <3>2, CountsAreNat, FS_EmptySet, Zenon DEF Counting
        <3> QED
            BY <1>1, <3>1, <3>3, Zenon DEF Closing
    <2>3. CASE Flushed /\ shutdown' = "timed out"
        BY <2>3, Zenon DEF Flushed, Closing
    <2> QED
        BY <2>1, <2>2, <2>3, Zenon DEF Flushed
<1> QED
    BY <1>2, <1>3, <1>4, Zenon

-----------------------------------------------------------------------------
\* Spans: a statement in progress is one whose span is started, each has its own, and the finish
\* stored for it is its own.
SpanInv ==
    /\ spans \in Seq({"started", "ok", "failed"})
    /\ statements \in Seq(Nat) /\ finishes = statements
    /\ \A j \in 1..Len(statements) : statements[j] \in 1..Len(spans)
    /\ \A j, k \in 1..Len(statements) : statements[j] = statements[k] => j = k
    /\ \A i \in 1..Len(spans) : spans[i] = "started" <=> \E j \in 1..Len(statements) : statements[j] = i

LEMMA SpansStart ==
    ASSUME AuditInit
    PROVE  SpanInv
BY DEF AuditInit, SpanInv

LEMMA SpansKept ==
    ASSUME SpanInv, TracedStatement
    PROVE  SpanInv'
<1>1. CASE statements' = Append(statements, Len(spans) + 1) /\ finishes' = StoredFinishes /\ spans' = Append(spans, "started")
    <2>0. PICK n, m \in Nat : n = Len(spans) /\ m = Len(statements)
        BY DEF SpanInv
    <2>1. /\ spans' \in Seq({"started", "ok", "failed"}) /\ Len(spans') = n + 1
          /\ \A i \in 1..n : spans'[i] = spans[i]
          /\ spans'[n + 1] = "started"
        BY <1>1, <2>0 DEF SpanInv
    <2>2. /\ statements' \in Seq(Nat) /\ Len(statements') = m + 1
          /\ \A j \in 1..m : statements'[j] = statements[j]
          /\ statements'[m + 1] = n + 1
        BY <1>1, <2>0 DEF SpanInv
    <2>3. finishes' = statements'
        BY <1>1, Zenon DEF SpanInv, StoredFinishes
    <2>4. /\ \A j \in 1..m : statements[j] \in 1..n
          /\ \A j, k \in 1..m : statements[j] = statements[k] => j = k
          /\ \A i \in 1..n : spans[i] = "started" <=> \E j \in 1..m : statements[j] = i
        BY <2>0, Zenon DEF SpanInv
    <2>5. \A j \in 1..(m + 1) : j \in 1..m \/ j = m + 1
        OBVIOUS
    <2>6. \A j, k \in 1..(m + 1) : statements'[j] = statements'[k] => j = k
        BY <2>2, <2>4, <2>5
    <2>7. ASSUME NEW i \in 1..(n + 1)
          PROVE  spans'[i] = "started" <=> \E j \in 1..(m + 1) : statements'[j] = i
        <3>1. CASE i = n + 1
            BY <2>1, <2>2, <3>1
        <3>2. CASE i \in 1..n
            <4>1. \A j \in 1..m : j \in 1..(m + 1)
                OBVIOUS
            <4> QED
                BY <2>1, <2>2, <2>4, <2>5, <3>2, <4>1
        <3> QED
            BY <3>1, <3>2
    <2>8. \A j \in 1..(m + 1) : statements'[j] \in 1..(n + 1)
        BY <2>2, <2>4, <2>5
    <2> QED
        BY <2>1, <2>2, <2>3, <2>6, <2>7, <2>8, Zenon DEF SpanInv
<1>2. CASE /\ statements # <<>>
           /\ \E outcome \in {"ok", "failed"} :
                 spans' = [spans EXCEPT ![finishes[Len(finishes)]] = IF @ = "started" THEN outcome ELSE "ended twice"]
           /\ statements' = SubSeq(statements, 1, Len(statements) - 1)
           /\ finishes' = SubSeq(finishes, 1, Len(finishes) - 1)
    <2>0. statements # <<>> /\ statements \in Seq(Nat) /\ finishes = statements
        BY <1>2, ZenonT(30) DEF SpanInv
    <2>1. PICK m \in Nat : Len(statements) = m + 1
        <3>1. Len(statements) \in Nat /\ Len(statements) # 0
            BY <2>0
        <3>2. Len(statements) - 1 \in Nat /\ Len(statements) = (Len(statements) - 1) + 1
            BY <3>1
        <3> QED
            BY <3>2, Zenon
    <2>2. PICK i \in 1..Len(spans) : i = statements[m + 1] /\ i = finishes[Len(finishes)] /\ spans[i] = "started"
        <3>1. m + 1 \in 1..Len(statements)
            BY <2>1
        <3> QED
            BY <2>1, <3>1 DEF SpanInv
    <2>3. PICK outcome \in {"ok", "failed"} : spans' = [spans EXCEPT ![i] = outcome]
        BY <1>2, <2>2, Zenon DEF SpanInv
    <2>4. /\ spans' \in Seq({"started", "ok", "failed"}) /\ Len(spans') = Len(spans)
          /\ \A k \in 1..Len(spans) : k # i => spans'[k] = spans[k]
          /\ spans'[i] # "started"
        BY <2>2, <2>3 DEF SpanInv
    <2>5. /\ statements' \in Seq(Nat) /\ Len(statements') = m /\ finishes' = statements'
          /\ \A j \in 1..m : statements'[j] = statements[j]
        <3>0. (m + 1) - 1 = m
            OBVIOUS
        <3>1. statements' = SubSeq(statements, 1, m) /\ finishes' = SubSeq(finishes, 1, m)
            BY <1>2, <2>0, <2>1, <3>0, Zenon
        <3> QED
            BY <2>1, <3>1 DEF SpanInv
    <2>6. \A j \in 1..m : j \in 1..Len(statements) /\ statements[j] # i
        BY <2>1, <2>2 DEF SpanInv
    <2>7. \A j \in 1..Len(statements) : j \in 1..m \/ j = m + 1
        BY <2>1 DEF SpanInv
    <2>8. ASSUME NEW k \in 1..Len(spans')
          PROVE  spans'[k] = "started" <=> \E j \in 1..Len(statements') : statements'[j] = k
        <3>1. CASE k = i
            BY <2>4, <2>5, <2>6, <3>1, Zenon
        <3>2. CASE k # i
            <4>1. spans[k] = "started" <=> \E j \in 1..Len(statements) : statements[j] = k
                BY <2>4, Zenon DEF SpanInv
            <4> QED
                BY <2>1, <2>2, <2>4, <2>5, <2>6, <2>7, <3>2, <4>1, Zenon
        <3> QED
            BY <3>1, <3>2, Zenon
    <2>9. /\ \A j \in 1..m : statements'[j] \in 1..Len(spans')
          /\ \A j, k \in 1..m : statements'[j] = statements'[k] => j = k
        <3>1. /\ \A j \in 1..Len(statements) : statements[j] \in 1..Len(spans)
              /\ \A j, k \in 1..Len(statements) : statements[j] = statements[k] => j = k
            BY Zenon DEF SpanInv
        <3>2. \A j \in 1..m : j \in 1..Len(statements) /\ statements'[j] = statements[j]
            BY <2>5, <2>6, Zenon
        <3>3. \A j \in 1..m : statements'[j] \in 1..Len(spans)
            BY <3>1, <3>2, Zenon
        <3>4. \A j, k \in 1..m : statements'[j] = statements'[k] => j = k
            BY <3>1, <3>2, Zenon
        <3> QED
            BY <2>4, <3>3, <3>4, Zenon
    <2> QED
        BY <2>4, <2>5, <2>8, <2>9, Zenon DEF SpanInv
<1> QED
    BY <1>1, <1>2, Zenon DEF TracedStatement

-----------------------------------------------------------------------------
AuditInv == QueueInv /\ SpanInv

LEMMA AuditStep ==
    ASSUME AuditInv, [AuditNext]_auditVars
    PROVE  AuditInv'
<1> USE DEF AuditInv
<1>1. ASSUME UNCHANGED spanVars
      PROVE  SpanInv'
    BY <1>1, Zenon DEF spanVars, SpanInv
<1>2. ASSUME UNCHANGED queueVars
      PROVE  QueueInv'
    BY <1>2 DEF queueVars, QueueInv, QueueType, Holding, Counting, Closing, Running, Pending
<1>3. ASSUME NEW e \in AuditEntries, QueueWrite(e)
      PROVE  AuditInv'
    BY <1>1, <1>3, WriteKeeps, Zenon DEF QueueWrite
<1>4. ASSUME NEW w \in AuditWorkers, Drain(w)
      PROVE  AuditInv'
    BY <1>1, <1>4, TakeKeeps, WroteKeeps, GoneKeeps, Zenon DEF Drain, LoopTake, LoopWrote, LoopGone
<1>5. CASE ShutdownQueue \/ Flushed
    BY <1>1, <1>5, ShutdownKeeps, Zenon DEF ShutdownQueue, Flushed
<1>6. CASE TracedStatement
    BY <1>2, <1>6, SpansKept, Zenon DEF TracedStatement
<1>7. CASE UNCHANGED auditVars
    BY <1>1, <1>2, <1>7, Zenon DEF auditVars
<1> QED
    BY <1>3, <1>4, <1>5, <1>6, <1>7, Zenon DEF AuditNext

LEMMA AuditInvKept ==
    ASSUME AuditInv
    PROVE  AuditKept
<1>1. waitGroup >= 0
    BY CountsAreNat DEF AuditInv
<1>2. ASSUME shutdown = "flushed"
      PROVE  /\ \A e \in AuditEntries : entryIs[e] \notin {"queued", "taken"}
             /\ \A w \in AuditWorkers : drainer[w] = {"gone"}
    BY <1>2, Zenon DEF AuditInv, QueueInv, Closing, Running, Pending
<1>3. ASSUME NEW i \in 1..Len(spans)
      PROVE  /\ spans[i] # "ended twice"
             /\ spans[i] = "started" <=> i \in {statements[j] : j \in 1..Len(statements)}
    <2>1. spans[i] \in {"started", "ok", "failed"}
        BY DEF AuditInv, SpanInv
    <2>2. spans[i] = "started" <=> \E j \in 1..Len(statements) : statements[j] = i
        BY Zenon DEF AuditInv, SpanInv
    <2> QED
        BY <2>1, <2>2, Zenon
<1>4. SpansPaired
    BY <1>3, Zenon DEF SpansPaired
<1> QED
    BY <1>1, <1>2, <1>4, Zenon DEF AuditKept, NothingUnwritten

(* audit.AsyncRepository and database.EnableDBTracing, for any number of entries, goroutines,     *)
(* any buffer and any nesting of statements: a Shutdown that returned nil left no accepted entry   *)
(* unwritten and unreported, and every statement ended its own span once.                          *)
THEOREM AuditIsKept == AuditSpec => []AuditKept
<1>1. AuditInit => AuditInv
    BY QueueStarts, SpansStart, Zenon DEF AuditInv
<1>2. AuditInv /\ [AuditNext]_auditVars => AuditInv'
    BY AuditStep, Zenon
<1>3. AuditInv => AuditKept
    BY AuditInvKept, Zenon
<1> QED
    BY <1>1, <1>2, <1>3, PTL DEF AuditSpec

-----------------------------------------------------------------------------
(* Retention.                                                                *)

Steps == {"idle", "next", "count", "batch", "done"}
RowStates == {"kept", "redacted", "deleted"}
Row == [table : Tables, stamp : Nat, state : RowStates]
Command == [at : Steps, dry : BOOLEAN, only : Selections \cup {{}}, now : Nat, rule : Nat, failed : BOOLEAN]

RetentionType ==
    /\ clock \in Nat /\ rows \in Seq(Row)
    /\ rules \in RuleSets /\ Accepted(rules)
    /\ pruner \in [Pruners -> Command]

(* No row and no run is ahead of the clock.                                   *)
NothingAhead ==
    /\ \A i \in 1..Len(rows) : rows[i].stamp <= clock
    /\ \A p \in Pruners : pruner[p].now <= clock

(* A run starts at the first rule, and works on a rule it picked; only one    *)
(* that is not dry comes to a statement that writes.                          *)
OnItsRule ==
    \A p \in Pruners :
        /\ pruner[p].at = "idle" => pruner[p].rule = 1
        /\ pruner[p].at \in {"count", "batch"} => pruner[p].rule \in pick(pruner[p].only)
        /\ pruner[p].at = "batch" => ~pruner[p].dry

(* The rules a run has passed without an error are cleared.                   *)
Behind(p) ==
    \A i \in pick(pruner[p].only) :
        pruner[p].at = "done" \/ i < pruner[p].rule => Cleared(i, pruner[p].now)
PassedAreCleared ==
    \A p \in Pruners : pruner[p].at # "idle" /\ ~pruner[p].failed /\ ~pruner[p].dry => Behind(p)

(* What was changed was past the window of a rule, by a run that is not dry.  *)
ChangedRightly ==
    \A i \in 1..Len(rows) : rows[i].state # "kept" =>
        /\ \E p \in Pruners : pruner[p].at # "idle" /\ ~pruner[p].dry
        /\ \E j \in 1..Len(rules) : /\ rules[j].set = (rows[i].state = "redacted")
                                    /\ rows[i].stamp < clock - rules[j].keep

RetentionInv == RetentionType /\ NothingAhead /\ OnItsRule /\ PassedAreCleared /\ ChangedRightly

-----------------------------------------------------------------------------
LEMMA LeastNat == ASSUME NEW S \in SUBSET Nat, S # {}
                  PROVE  \E n \in S : \A m \in S : n <= m
<1>1. PICK n \in S : \A m \in S : ~(<<m, n>> \in OpToRel(<, Nat))
    BY NatLessThanWellFounded, WFMin, Zenon
<1>2. \A m \in S : n <= m
    <2> SUFFICES ASSUME NEW m \in S PROVE ~(m < n)
        OBVIOUS
    <2>1. m < n => <<m, n>> \in {ss \in Nat \X Nat : ss[1] < ss[2]}
        BY Zenon
    <2> QED
        BY <1>1, <2>1, Zenon DEF OpToRel
<1> QED
    BY <1>2, Zenon

(* A batch takes the oldest rows that match; one that comes back short took   *)
(* them all.                                                                  *)
LEMMA ShortIsAll ==
    ASSUME NEW n \in Nat, NEW S \in SUBSET (1..n), NEW b \in Nat, Cardinality(FirstOf(S, b)) < b
    PROVE  FirstOf(S, b) = S
<1> SUFFICES ASSUME S \ FirstOf(S, b) # {} PROVE FALSE
    BY Zenon DEF FirstOf
<1>0. IsFiniteSet(S)
    <2>1. IsFiniteSet(1..n)
        BY FS_Interval
    <2> QED
        BY <2>1, FS_Subset, Zenon
<1>1. PICK i \in S \ FirstOf(S, b) : \A m \in S \ FirstOf(S, b) : i <= m
    <2>0. S \subseteq Nat
        OBVIOUS
    <2>1. S \ FirstOf(S, b) \in SUBSET Nat
        BY <2>0, Zenon
    <2> QED
        BY <2>1, LeastNat, Zenon
<1>2. {j \in S : j < i} \subseteq FirstOf(S, b)
    <2> SUFFICES ASSUME NEW j \in S, j < i, j \notin FirstOf(S, b) PROVE FALSE
        BY Zenon
    <2>1. i <= j
        BY <1>1, Zenon
    <2> QED
        BY <1>1, <2>1
<1>3. FirstOf(S, b) \subseteq S
    BY Zenon DEF FirstOf
<1>4. IsFiniteSet(FirstOf(S, b)) /\ IsFiniteSet({j \in S : j < i})
    BY <1>0, <1>3, FS_Subset, Zenon
<1>5. Cardinality({j \in S : j < i}) <= Cardinality(FirstOf(S, b))
    BY <1>2, <1>4, FS_Subset, Zenon
<1>6. ~(Cardinality({j \in S : j < i}) < b)
    BY <1>1, Zenon DEF FirstOf
<1>7. Cardinality({j \in S : j < i}) \in Nat /\ Cardinality(FirstOf(S, b)) \in Nat
    BY <1>4, FS_CardinalityType, Zenon
<1> QED
    BY <1>5, <1>6, <1>7

(* Rows are appended at the time of the clock and never come back.            *)
RowsGo ==
    /\ rules' = rules /\ rows' \in Seq(Row) /\ Len(rows) <= Len(rows')
    /\ \A i \in 1..Len(rows) : /\ rows'[i].table = rows[i].table /\ rows'[i].stamp = rows[i].stamp
                               /\ rows'[i].state = "kept" => rows[i].state = "kept"
    /\ \A i \in 1..Len(rows') : i \in 1..Len(rows) \/ rows'[i].stamp = clock

LEMMA ClearedStays ==
    ASSUME RetentionType, RowsGo, NEW i \in 1..Len(rules), NEW now \in Nat, now <= clock, Cleared(i, now)
    PROVE  Cleared(i, now)'
<1>0. rules[i].keep \in Int /\ rules[i].keep > 0
    BY RetentionAssumption, Zenon DEF RetentionType, Accepted, check
<1>1. rows \in Seq(Row) /\ rows' \in Seq(Row) /\ rules' = rules
    BY Zenon DEF RetentionType, RowsGo
<1> SUFFICES ASSUME NEW k \in 1..Len(rows'), rows'[k].table = rules[i].table,
                    rows'[k].stamp < now - rules[i].keep, rows'[k].state = "kept"
             PROVE  FALSE
    BY <1>1, Zenon DEF Cleared, Matches
<1>2. clock \in Nat /\ rows'[k] \in Row
    BY <1>1 DEF RetentionType
<1>3. k \in 1..Len(rows)
    BY <1>0, <1>2, SMTT(20) DEF RowsGo, Row
<1> QED
    BY <1>3, Zenon DEF Cleared, Matches, RowsGo

-----------------------------------------------------------------------------
(* What a step of one command may do to it and to the rows.                   *)
GoesOn(p, c) ==
    /\ clock' = clock /\ RowsGo /\ pruner' = [pruner EXCEPT ![p] = c]
    /\ c.now <= clock /\ c.at # "idle"
    /\ c.at \in {"count", "batch"} => c.rule \in pick(c.only)
    /\ c.at = "batch" => ~c.dry
    /\ pruner[p].at # "idle" /\ ~pruner[p].dry => ~c.dry
    /\ ~c.failed /\ ~c.dry => \A i \in pick(c.only) : c.at = "done" \/ i < c.rule => Cleared(i, c.now)'
    /\ \A i \in 1..Len(rows') : rows'[i].state # "kept" =>
          \/ i \in 1..Len(rows) /\ rows[i].state = rows'[i].state
          \/ ~c.dry /\ \E j \in 1..Len(rules) : /\ rules[j].set = (rows'[i].state = "redacted")
                                               /\ rows'[i].stamp < clock - rules[j].keep

LEMMA CommandGoesOn ==
    ASSUME RetentionInv, NEW p \in Pruners, NEW c \in Command, GoesOn(p, c)
    PROVE  RetentionInv'
<1>0. /\ RetentionType /\ NothingAhead /\ OnItsRule /\ PassedAreCleared /\ ChangedRightly
      /\ clock \in Nat /\ pruner \in [Pruners -> Command]
      /\ clock' = clock /\ RowsGo /\ rules' = rules /\ pruner' \in [Pruners -> Command]
      /\ pruner'[p] = c /\ \A q \in Pruners : q # p => pruner'[q] = pruner[q]
    BY Zenon DEF RetentionInv, RetentionType, GoesOn, RowsGo
<1>1. RetentionType'
    BY <1>0, Zenon DEF RetentionType, RowsGo, Accepted, check
<1>2. NothingAhead'
    <2>1. ASSUME NEW i \in 1..Len(rows') PROVE rows'[i].stamp <= clock
        <3>1. rows \in Seq(Row) /\ rows' \in Seq(Row)
            BY <1>0, Zenon DEF RetentionType, RowsGo
        <3>2. CASE i \in 1..Len(rows)
            BY <1>0, <3>2, Zenon DEF NothingAhead, RowsGo
        <3>3. CASE i \notin 1..Len(rows)
            BY <1>0, <3>3 DEF RowsGo
        <3> QED
            BY <3>2, <3>3, Zenon
    <2> QED
        BY <1>0, <2>1, Zenon DEF NothingAhead, GoesOn
<1>3. OnItsRule'
    <2>1. \A only : pick(only)' = pick(only)
        BY <1>0, Zenon DEF pick
    <2> QED
        BY <1>0, <2>1, Zenon DEF OnItsRule, GoesOn
<1>4. PassedAreCleared'
    <2> SUFFICES ASSUME NEW q \in Pruners, (pruner[q].at # "idle" /\ ~pruner[q].failed /\ ~pruner[q].dry)'
                 PROVE  Behind(q)'
        BY Zenon DEF PassedAreCleared
    <2>1. \A only : pick(only)' = pick(only)
        BY <1>0, Zenon DEF pick
    <2>2. CASE q = p
        <3>1. /\ ~c.failed /\ ~c.dry
              /\ \A i \in pick(c.only) : c.at = "done" \/ i < c.rule => Cleared(i, c.now)'
            BY <1>0, <2>2, Zenon DEF GoesOn
        <3> QED
            BY <1>0, <2>1, <2>2, <3>1, Zenon DEF Behind
    <2>3. CASE q # p
        <3>1. Behind(q) /\ pruner'[q] = pruner[q] /\ pruner[q].now \in Nat /\ pruner[q].now <= clock
            BY <1>0, <2>3, Zenon DEF PassedAreCleared, NothingAhead, Command
        <3>2. PICK now \in Nat : now = pruner[q].now
            BY <3>1, Zenon
        <3>3. ASSUME NEW i \in pick(pruner[q].only), pruner[q].at = "done" \/ i < pruner[q].rule
              PROVE  Cleared(i, now)'
            <4>1. i \in 1..Len(rules) /\ Cleared(i, now)
                BY <3>1, <3>2, <3>3, Zenon DEF Behind, pick
            <4> QED
                BY <1>0, <3>1, <3>2, <4>1, ClearedStays, Zenon
        <3> QED
            BY <2>1, <3>1, <3>2, <3>3, Zenon DEF Behind
    <2> QED
        BY <2>2, <2>3, Zenon
<1>5. ChangedRightly'
    <2> SUFFICES ASSUME NEW i \in 1..Len(rows'), rows'[i].state # "kept"
                 PROVE  /\ \E q \in Pruners : pruner'[q].at # "idle" /\ ~pruner'[q].dry
                        /\ \E j \in 1..Len(rules) : /\ rules[j].set = (rows'[i].state = "redacted")
                                                    /\ rows'[i].stamp < clock - rules[j].keep
        BY <1>0, Zenon DEF ChangedRightly
    <2>1. CASE i \in 1..Len(rows) /\ rows[i].state = rows'[i].state
        <3>1. PICK q \in Pruners : pruner[q].at # "idle" /\ ~pruner[q].dry
            BY <1>0, <2>1, Zenon DEF ChangedRightly
        <3>2. pruner'[q].at # "idle" /\ ~pruner'[q].dry
            BY <1>0, <3>1, Zenon DEF GoesOn
        <3>3. rows'[i].stamp = rows[i].stamp
            BY <1>0, <2>1, Zenon DEF RowsGo
        <3> QED
            BY <1>0, <2>1, <3>2, <3>3, Zenon DEF ChangedRightly
    <2>2. CASE /\ ~c.dry
               /\ \E j \in 1..Len(rules) : /\ rules[j].set = (rows'[i].state = "redacted")
                                            /\ rows'[i].stamp < clock - rules[j].keep
        <3>1. pruner'[p].at # "idle" /\ ~pruner'[p].dry
            BY <1>0, <2>2, Zenon DEF GoesOn
        <3> QED
            BY <2>2, <3>1, Zenon
    <2> QED
        BY <2>1, <2>2, Zenon DEF GoesOn
<1> QED
    BY <1>1, <1>2, <1>3, <1>4, <1>5, Zenon DEF RetentionInv

(* Nothing happened to the rows.                                              *)
LEMMA SameRows ==
    ASSUME RetentionInv, UNCHANGED <<clock, rows, rules>>
    PROVE  /\ RowsGo
           /\ \A i \in 1..Len(rows') : i \in 1..Len(rows) /\ rows[i].state = rows'[i].state
           /\ \A i, now : Cleared(i, now)' = Cleared(i, now)
BY DEF RetentionInv, RetentionType, RowsGo, Cleared, Matches

LEMMA RunStep ==
    ASSUME RetentionInv, NEW p \in Pruners, NEW dry \in BOOLEAN, NEW only \in Selections, Run(p, dry, only)
    PROVE  RetentionInv'
<1>0. pruner \in [Pruners -> Command] /\ clock \in Nat /\ pruner[p].at = "idle" /\ pruner[p].rule = 1
    BY Zenon DEF RetentionInv, RetentionType, OnItsRule, Run
<1>1. CASE unknown(only) # {}
    <2>1. PICK c : c = [pruner[p] EXCEPT !.at = "done", !.failed = TRUE]
        BY Zenon
    <2>2. c \in Command /\ c.at = "done" /\ c.failed /\ c.now = pruner[p].now
        BY <1>0, <2>1, Zenon DEF Command, Steps
    <2>3. pruner' = [pruner EXCEPT ![p] = c]
        BY <1>1, <2>1, Zenon DEF Run
    <2>4. GoesOn(p, c)
        BY <1>0, <2>2, <2>3, SameRows, Zenon DEF GoesOn, Run, RetentionInv, NothingAhead
    <2> QED
        BY <2>2, <2>4, CommandGoesOn, Zenon
<1>2. CASE unknown(only) = {}
    <2>1. PICK c : c = [pruner[p] EXCEPT !.at = "next", !.dry = dry, !.only = only, !.now = clock]
        BY Zenon
    <2>2. c \in Command /\ c.at = "next" /\ c.now = clock /\ c.rule = 1
        BY <1>0, <2>1, Zenon DEF Command, Steps
    <2>3. pruner' = [pruner EXCEPT ![p] = c]
        BY <1>2, <2>1, Zenon DEF Run
    <2>4. \A i \in pick(c.only) : ~(c.at = "done" \/ i < c.rule)
        BY <2>2 DEF pick
    <2>5. clock' = clock /\ RowsGo /\ \A i \in 1..Len(rows') : i \in 1..Len(rows) /\ rows[i].state = rows'[i].state
        BY SameRows, Zenon DEF Run
    <2>6. GoesOn(p, c)
        BY <1>0, <2>2, <2>3, <2>4, <2>5 DEF GoesOn
    <2> QED
        BY <2>2, <2>6, CommandGoesOn, Zenon
<1> QED
    BY <1>1, <1>2, Zenon

(* A command whose rule failed or was cancelled answers for nothing.          *)
LEMMA FailedStep ==
    ASSUME RetentionInv, NEW p \in Pruners, NEW c \in Command, UNCHANGED <<clock, rows, rules>>,
           pruner' = [pruner EXCEPT ![p] = c], c.failed, c.at \in {"next", "done"}, c.now <= clock,
           c.dry = pruner[p].dry
    PROVE  RetentionInv'
<1>1. GoesOn(p, c)
    BY SameRows, Zenon DEF GoesOn
<1> QED
    BY <1>1, CommandGoesOn, Zenon

LEMMA NextRuleStep ==
    ASSUME RetentionInv, NEW p \in Pruners, NextRule(p)
    PROVE  RetentionInv'
<1> DEFINE left == {i \in pick(pruner[p].only) : i >= pruner[p].rule}
<1>0. /\ pruner \in [Pruners -> Command] /\ pruner[p] \in Command /\ pruner[p].at = "next" /\ pruner[p].now <= clock
      /\ ~pruner[p].failed /\ ~pruner[p].dry =>
            \A i \in pick(pruner[p].only) : i < pruner[p].rule => Cleared(i, pruner[p].now)
    BY Zenon DEF RetentionInv, RetentionType, NextRule, NothingAhead, PassedAreCleared, Behind
<1>1. \A i \in pick(pruner[p].only) : i \in Nat
    BY DEF pick
<1>2. CASE left = {} /\ pruner' = [pruner EXCEPT ![p].at = "done", ![p].rule = 1]
    <2>1. PICK c : c = [pruner[p] EXCEPT !.at = "done", !.rule = 1]
        BY Zenon
    <2>2. c \in Command /\ c.at = "done" /\ c.now = pruner[p].now /\ c.only = pruner[p].only
          /\ c.dry = pruner[p].dry /\ c.failed = pruner[p].failed
        BY <1>0, <2>1, Zenon DEF Command, Steps
    <2>3. pruner' = [pruner EXCEPT ![p] = c]
        BY <1>0, <1>2, <2>1, Zenon
    <2>4. \A i \in pick(pruner[p].only) : i < pruner[p].rule
        BY <1>0, <1>1, <1>2 DEF Command
    <2>5. clock' = clock /\ RowsGo /\ \A k \in 1..Len(rows') : k \in 1..Len(rows) /\ rows[k].state = rows'[k].state
        BY SameRows, Zenon DEF NextRule
    <2>6. ~c.failed /\ ~c.dry => \A k \in pick(c.only) : c.at = "done" \/ k < c.rule => Cleared(k, c.now)'
        BY <1>0, <2>2, <2>4, SameRows, SMTT(20) DEF NextRule
    <2>7. GoesOn(p, c)
        BY <1>0, <2>2, <2>3, <2>5, <2>6, Zenon DEF GoesOn
    <2> QED
        BY <2>2, <2>7, CommandGoesOn, Zenon
<1>3. ASSUME NEW i \in left, \A j \in left : i <= j, pruner' = [pruner EXCEPT ![p].at = "count", ![p].rule = i]
      PROVE  RetentionInv'
    <2>1. PICK c : c = [pruner[p] EXCEPT !.at = "count", !.rule = i]
        BY Zenon
    <2>2. c \in Command /\ c.at = "count" /\ c.now = pruner[p].now /\ c.only = pruner[p].only /\ c.rule = i
          /\ c.dry = pruner[p].dry /\ c.failed = pruner[p].failed
        BY <1>0, <1>1, <2>1, Zenon DEF Command, Steps
    <2>3. pruner' = [pruner EXCEPT ![p] = c]
        BY <1>0, <1>3, <2>1, Zenon
    <2>4. \A j \in pick(pruner[p].only) : j < i => j < pruner[p].rule
        BY <1>0, <1>1, <1>3 DEF Command
    <2>5. clock' = clock /\ RowsGo /\ \A k \in 1..Len(rows') : k \in 1..Len(rows) /\ rows[k].state = rows'[k].state
        BY SameRows, Zenon DEF NextRule
    <2>6. ~c.failed /\ ~c.dry => \A k \in pick(c.only) : c.at = "done" \/ k < c.rule => Cleared(k, c.now)'
        BY <1>0, <2>2, <2>4, SameRows, SMTT(20) DEF NextRule
    <2>7. GoesOn(p, c)
        BY <1>0, <2>2, <2>3, <2>5, <2>6, Zenon DEF GoesOn
    <2> QED
        BY <2>2, <2>7, CommandGoesOn, Zenon
<1> QED
    BY <1>2, <1>3, Zenon DEF NextRule

LEMMA CountStep ==
    ASSUME RetentionInv, NEW p \in Pruners, Count(p)
    PROVE  RetentionInv'
<1>0. /\ pruner \in [Pruners -> Command] /\ pruner[p] \in Command /\ pruner[p].at = "count" /\ pruner[p].now <= clock
      /\ pruner[p].rule \in pick(pruner[p].only) /\ UNCHANGED <<clock, rows, rules>>
      /\ ~pruner[p].failed /\ ~pruner[p].dry =>
            \A i \in pick(pruner[p].only) : i < pruner[p].rule => Cleared(i, pruner[p].now)
    BY Zenon DEF RetentionInv, RetentionType, Count, NothingAhead, PassedAreCleared, Behind, OnItsRule
<1>a. pruner[p].rule \in Nat /\ pruner[p].rule + 1 \in Nat
    BY <1>0 DEF Command
<1>1. CASE pruner' = [pruner EXCEPT ![p].at = "next", ![p].failed = TRUE, ![p].rule = @ + 1]
    <2>1. PICK c : c = [pruner[p] EXCEPT !.at = "next", !.failed = TRUE, !.rule = @ + 1]
        BY Zenon
    <2>2. c \in Command /\ c.at = "next" /\ c.now = pruner[p].now /\ c.failed /\ c.dry = pruner[p].dry
        BY <1>0, <1>a, <2>1, Zenon DEF Command, Steps
    <2>3. pruner' = [pruner EXCEPT ![p] = c]
        BY <1>0, <1>1, <2>1, Zenon
    <2> QED
        BY <1>0, <2>2, <2>3, FailedStep, Zenon
<1>2. CASE pruner' = [pruner EXCEPT ![p].at = IF pruner[p].dry THEN "next" ELSE "batch",
                                    ![p].rule = IF pruner[p].dry THEN @ + 1 ELSE @]
    <2>1. PICK c : c = [pruner[p] EXCEPT !.at = IF pruner[p].dry THEN "next" ELSE "batch",
                                         !.rule = IF pruner[p].dry THEN @ + 1 ELSE @]
        BY Zenon
    <2>2. /\ c \in Command /\ c.now = pruner[p].now /\ c.failed = pruner[p].failed /\ c.dry = pruner[p].dry
          /\ c.only = pruner[p].only
          /\ c.dry => c.at = "next"
          /\ ~c.dry => c.at = "batch" /\ c.rule = pruner[p].rule
        BY <1>0, <1>a, <2>1, Zenon DEF Command, Steps
    <2>3. pruner' = [pruner EXCEPT ![p] = c]
        BY <1>0, <1>2, <2>1, Zenon
    <2>4. clock' = clock /\ RowsGo /\ \A k \in 1..Len(rows') : k \in 1..Len(rows) /\ rows[k].state = rows'[k].state
        BY <1>0, SameRows, Zenon
    <2>5. ~c.failed /\ ~c.dry => \A k \in pick(c.only) : c.at = "done" \/ k < c.rule => Cleared(k, c.now)'
        BY <1>0, <2>2, SameRows, Zenon
    <2>6. c.at \in {"next", "batch"}
        BY <2>2, Zenon
    <2>7. GoesOn(p, c)
        BY <1>0, <2>2, <2>3, <2>4, <2>5, <2>6, Zenon DEF GoesOn
    <2> QED
        BY <2>2, <2>7, CommandGoesOn, Zenon
<1> QED
    BY <1>1, <1>2, Zenon DEF Count

LEMMA BatchFailsStep ==
    ASSUME RetentionInv, NEW p \in Pruners, BatchFails(p)
    PROVE  RetentionInv'
<1>0. /\ pruner \in [Pruners -> Command] /\ pruner[p] \in Command /\ pruner[p].now <= clock
      /\ UNCHANGED <<clock, rows, rules>>
    BY Zenon DEF RetentionInv, RetentionType, BatchFails, NothingAhead
<1>a. pruner[p].rule \in Nat /\ pruner[p].rule + 1 \in Nat
    BY <1>0 DEF Command
<1>1. PICK c : c = [pruner[p] EXCEPT !.at = "next", !.failed = TRUE, !.rule = @ + 1]
    BY Zenon
<1>2. c \in Command /\ c.at = "next" /\ c.now = pruner[p].now /\ c.failed /\ c.dry = pruner[p].dry
    BY <1>0, <1>a, <1>1, Zenon DEF Command, Steps
<1>3. pruner' = [pruner EXCEPT ![p] = c]
    BY <1>0, <1>1, Zenon DEF BatchFails
<1> QED
    BY <1>0, <1>2, <1>3, FailedStep, Zenon

LEMMA CancelledStep ==
    ASSUME RetentionInv, NEW p \in Pruners, Cancelled(p)
    PROVE  RetentionInv'
<1>0. /\ pruner \in [Pruners -> Command] /\ pruner[p] \in Command /\ clock \in Nat
      /\ UNCHANGED <<clock, rows, rules>>
    BY Zenon DEF RetentionInv, RetentionType, Cancelled
<1>1. PICK c : c = [NobodyPrunes EXCEPT !.at = "done", !.failed = TRUE, !.dry = pruner[p].dry]
    BY Zenon
<1>2. c \in Command /\ c.at = "done" /\ c.now = 0 /\ c.failed /\ c.dry = pruner[p].dry
    BY <1>0, <1>1, Zenon DEF Command, Steps, NobodyPrunes
<1>3. pruner' = [pruner EXCEPT ![p] = c]
    BY <1>0, <1>1, Zenon DEF Cancelled
<1>4. c.now <= clock
    BY <1>0, <1>2
<1> QED
    BY <1>0, <1>2, <1>3, <1>4, FailedStep, Zenon

LEMMA RowIs ==
    ASSUME rows \in Seq(Row), NEW i \in 1..Len(rows)
    PROVE  rows[i] \in Row /\ rows[i].stamp \in Nat
<1>1. rows[i] \in Row
    OBVIOUS
<1> QED
    BY <1>1, Zenon DEF Row

LEMMA BatchStep ==
    ASSUME RetentionInv, NEW p \in Pruners, Batch(p)
    PROVE  RetentionInv'
<1>0. /\ pruner \in [Pruners -> Command] /\ pruner[p] \in Command /\ pruner[p].at = "batch" /\ pruner[p].now <= clock
      /\ pruner[p].rule \in pick(pruner[p].only) /\ ~pruner[p].dry
      /\ clock' = clock /\ rules' = rules /\ clock \in Nat /\ rows \in Seq(Row) /\ RetentionType
      /\ ~pruner[p].failed => \A i \in pick(pruner[p].only) : i < pruner[p].rule => Cleared(i, pruner[p].now)
    BY Zenon DEF RetentionInv, RetentionType, Batch, NothingAhead, PassedAreCleared, Behind, OnItsRule
<1>1. PICK k \in 1..Len(rules), now \in Nat : k = pruner[p].rule /\ now = pruner[p].now
    BY <1>0, Zenon DEF pick, Command
<1>2. rules[k].keep \in Int /\ rules[k].keep > 0 /\ rules[k].set \in BOOLEAN
    BY <1>0, RetentionAssumption, Zenon DEF RetentionType, Accepted, check
<1>3. PICK S : S = Matches(rules[k], now - rules[k].keep)
    BY Zenon
<1>4. PICK hit : hit = FirstOf(S, BatchSize)
    BY Zenon
<1>5. /\ S \subseteq 1..Len(rows) /\ hit \subseteq S
      /\ \A i \in S : rows[i].stamp < now - rules[k].keep /\ rows[i].state = "kept"
    BY <1>3, <1>4, Zenon DEF Matches, FirstOf
<1>6. PICK gone \in RowStates : gone = (IF rules[k].set THEN "redacted" ELSE "deleted")
    BY Zenon DEF RowStates
<1>7. gone # "kept" /\ rules[k].set = (gone = "redacted")
    BY <1>2, <1>6, Zenon
<1>8. rows' = [i \in DOMAIN rows |-> IF i \in hit THEN [rows[i] EXCEPT !.state = gone] ELSE rows[i]]
    BY <1>1, <1>3, <1>4, <1>6, Zenon DEF Batch, ruleOf, cutoff
<1>9. /\ rows' \in Seq(Row) /\ Len(rows') = Len(rows)
      /\ \A i \in 1..Len(rows) :
            /\ rows'[i].table = rows[i].table /\ rows'[i].stamp = rows[i].stamp
            /\ i \in hit => rows'[i].state = gone
            /\ i \notin hit => rows'[i].state = rows[i].state
    <2>1. ASSUME NEW i \in 1..Len(rows)
          PROVE  /\ (IF i \in hit THEN [rows[i] EXCEPT !.state = gone] ELSE rows[i]) \in Row
                 /\ [rows[i] EXCEPT !.state = gone].state = gone
                 /\ [rows[i] EXCEPT !.state = gone].table = rows[i].table
                 /\ [rows[i] EXCEPT !.state = gone].stamp = rows[i].stamp
        <3>1. rows[i] \in Row
            BY <1>0, RowIs, Zenon
        <3> QED
            BY <3>1, Zenon DEF Row
    <2>2. rows' \in [1..Len(rows) -> Row]
        BY <1>0, <1>8, <2>1, SMTT(20)
    <2> QED
        BY <1>0, <1>8, <2>1, <2>2
<1>10. RowsGo
    BY <1>0, <1>7, <1>9 DEF RowsGo
<1>11. PICK c : c = [pruner[p] EXCEPT !.at = IF Short(Cardinality(hit)) THEN "next" ELSE @,
                                      !.rule = IF Short(Cardinality(hit)) THEN @ + 1 ELSE @]
    BY Zenon
<1>12. pruner[p].rule \in Nat /\ pruner[p].rule + 1 \in Nat
    BY <1>0 DEF Command
<1>13. /\ c \in Command /\ c.now = now /\ c.only = pruner[p].only /\ c.dry = pruner[p].dry /\ c.failed = pruner[p].failed
       /\ Short(Cardinality(hit)) => c.at = "next" /\ c.rule = k + 1
       /\ ~Short(Cardinality(hit)) => c.at = "batch" /\ c.rule = k
    BY <1>0, <1>1, <1>11, <1>12, Zenon DEF Command, Steps
<1>14. pruner' = [pruner EXCEPT ![p] = c]
    <2>1. pruner' = [pruner EXCEPT ![p].at = IF Short(Cardinality(hit)) THEN "next" ELSE @,
                                   ![p].rule = IF Short(Cardinality(hit)) THEN @ + 1 ELSE @]
        BY <1>1, <1>3, <1>4, Zenon DEF Batch, ruleOf, cutoff
    <2> QED
        BY <1>0, <1>11, <2>1, ZenonT(30)
<1>15. ASSUME Short(Cardinality(hit)) PROVE Cleared(k, now)'
    <2>1. Len(rows) \in Nat /\ BatchSize \in Nat
        BY <1>0, RetentionAssumption
    <2>2. hit = S
        BY <1>4, <1>5, <1>15, <2>1, ShortIsAll, Zenon DEF Short
    <2>3. ASSUME NEW i \in 1..Len(rows'), rows'[i].table = rules[k].table, rows'[i].stamp < now - rules[k].keep
          PROVE  rows'[i].state # "kept"
        BY <1>3, <1>7, <1>9, <2>2, <2>3, Zenon DEF Matches
    <2> QED
        BY <1>0, <2>3, Zenon DEF Cleared, Matches
<1>16. ASSUME ~c.failed, NEW i \in pick(c.only), i < c.rule PROVE Cleared(i, now)'
    <2>1. i \in 1..Len(rules) /\ i \in pick(pruner[p].only) /\ (i < k => Cleared(i, now))
        BY <1>0, <1>1, <1>13, <1>16, Zenon DEF pick
    <2>2. CASE i < k
        BY <1>0, <1>1, <1>10, <2>1, <2>2, ClearedStays, Zenon
    <2>3. CASE ~(i < k)
        <3>1. i = k /\ Short(Cardinality(hit))
            BY <1>13, <1>16, <2>1, <2>3
        <3> QED
            BY <1>15, <3>1, Zenon
    <2> QED
        BY <2>2, <2>3, Zenon
<1>17. ASSUME NEW i \in 1..Len(rows'), rows'[i].state # "kept"
       PROVE  \/ i \in 1..Len(rows) /\ rows[i].state = rows'[i].state
              \/ \E j \in 1..Len(rules) : /\ rules[j].set = (rows'[i].state = "redacted")
                                          /\ rows'[i].stamp < clock - rules[j].keep
    <2>1. CASE i \notin hit
        BY <1>9, <2>1, Zenon
    <2>2. CASE i \in hit
        <3>1. rows'[i].state = gone /\ rows'[i].stamp = rows[i].stamp /\ rows[i].stamp < now - rules[k].keep
            BY <1>5, <1>9, <2>2, Zenon
        <3>2. PICK stamp \in Nat, keep \in Int : stamp = rows[i].stamp /\ keep = rules[k].keep
            BY <1>0, <1>2, <1>9, RowIs, Zenon
        <3>a. now <= clock
            BY <1>0, <1>1, Zenon
        <3>c. stamp < now - keep /\ stamp \in Nat /\ keep \in Int /\ now \in Nat /\ clock \in Nat
            BY <1>0, <3>1, <3>2, Zenon
        <3>b. stamp < clock - keep
            BY ONLY <3>a, <3>c
        <3>3. rows'[i].stamp < clock - rules[k].keep
            BY <3>1, <3>2, <3>b, Zenon
        <3>4. rules[k].set = (rows'[i].state = "redacted")
            BY <1>7, <3>1, Zenon
        <3> QED
            BY <3>3, <3>4, Zenon
    <2> QED
        BY <2>1, <2>2, Zenon
<1>18. ~c.dry /\ c.at # "idle" /\ c.at # "done" /\ (c.at \in {"count", "batch"} => c.rule \in pick(c.only))
    BY <1>0, <1>1, <1>13, Zenon
<1>19. ~c.failed /\ ~c.dry => \A i \in pick(c.only) : c.at = "done" \/ i < c.rule => Cleared(i, c.now)'
    BY <1>13, <1>16, <1>18, Zenon
<1>20. GoesOn(p, c)
    BY <1>0, <1>1, <1>10, <1>13, <1>14, <1>17, <1>18, <1>19, Zenon DEF GoesOn
<1> QED
    BY <1>13, <1>20, CommandGoesOn, Zenon

LEMMA WriteRowStep ==
    ASSUME RetentionInv, NEW t \in Tables, WriteRow(t)
    PROVE  RetentionInv'
<1>0. /\ RetentionType /\ NothingAhead /\ OnItsRule /\ PassedAreCleared /\ ChangedRightly
      /\ clock \in Nat /\ clock' = clock /\ rules' = rules /\ pruner' = pruner /\ rows \in Seq(Row)
      /\ pruner \in [Pruners -> Command]
    BY Zenon DEF RetentionInv, RetentionType, WriteRow
<1>1. PICK new \in Row : new.stamp = clock /\ new.state = "kept" /\ rows' = Append(rows, new)
    <2>1. PICK new : new = [table |-> t, stamp |-> clock, state |-> "kept"]
        BY Zenon
    <2>2. new \in Row /\ new.stamp = clock /\ new.state = "kept"
        BY <1>0, <2>1, Zenon DEF Row, RowStates
    <2> QED
        BY <2>1, <2>2, Zenon DEF WriteRow
<1>2. /\ rows' \in Seq(Row) /\ Len(rows') = Len(rows) + 1 /\ rows'[Len(rows) + 1] = new
      /\ \A i \in 1..Len(rows) : rows'[i] = rows[i]
      /\ \A i \in 1..Len(rows') : i \in 1..Len(rows) \/ i = Len(rows) + 1
    BY <1>0, <1>1
<1>3. RowsGo
    BY <1>0, <1>1, <1>2 DEF RowsGo
<1>4. RetentionType'
    BY <1>0, <1>2, Zenon DEF RetentionType, Accepted, check
<1>5. NothingAhead'
    BY <1>0, <1>1, <1>2 DEF NothingAhead
<1>6. \A only : pick(only)' = pick(only)
    BY <1>0, Zenon DEF pick
<1>7. OnItsRule'
    BY <1>0, <1>6, Zenon DEF OnItsRule
<1>8. PassedAreCleared'
    <2> SUFFICES ASSUME NEW q \in Pruners, pruner[q].at # "idle" /\ ~pruner[q].failed /\ ~pruner[q].dry
                 PROVE  Behind(q)'
        BY <1>0, Zenon DEF PassedAreCleared
    <2>1. PICK now \in Nat : now = pruner[q].now
        BY <1>0, Zenon DEF Command
    <2>2. Behind(q) /\ now <= clock
        BY <1>0, <2>1, Zenon DEF PassedAreCleared, NothingAhead
    <2>3. ASSUME NEW i \in pick(pruner[q].only), pruner[q].at = "done" \/ i < pruner[q].rule
          PROVE  Cleared(i, now)'
        <3>1. i \in 1..Len(rules) /\ Cleared(i, now)
            BY <2>1, <2>2, <2>3, Zenon DEF Behind, pick
        <3> QED
            BY <1>0, <1>3, <2>2, <3>1, ClearedStays, Zenon
    <2> QED
        BY <1>0, <1>6, <2>1, <2>3, Zenon DEF Behind
<1>9. ChangedRightly'
    <2> SUFFICES ASSUME NEW i \in 1..Len(rows'), rows'[i].state # "kept"
                 PROVE  /\ \E q \in Pruners : pruner[q].at # "idle" /\ ~pruner[q].dry
                        /\ \E j \in 1..Len(rules) : /\ rules[j].set = (rows'[i].state = "redacted")
                                                    /\ rows'[i].stamp < clock - rules[j].keep
        BY <1>0, Zenon DEF ChangedRightly
    <2>1. i \in 1..Len(rows) /\ rows'[i] = rows[i]
        BY <1>1, <1>2, Zenon
    <2> QED
        BY <1>0, <2>1, Zenon DEF ChangedRightly
<1> QED
    BY <1>4, <1>5, <1>7, <1>8, <1>9, Zenon DEF RetentionInv

LEMMA TimePassesStep ==
    ASSUME RetentionInv, TimePasses
    PROVE  RetentionInv'
<1>0. /\ RetentionType /\ NothingAhead /\ OnItsRule /\ PassedAreCleared /\ ChangedRightly
      /\ clock \in Nat /\ clock' = clock + 1 /\ rules' = rules /\ pruner' = pruner /\ rows' = rows /\ rows \in Seq(Row)
      /\ pruner \in [Pruners -> Command]
    BY Zenon DEF RetentionInv, RetentionType, TimePasses
<1>1. RetentionType'
    BY <1>0 DEF RetentionType, Accepted, check
<1>2. NothingAhead'
    <2>1. \A i \in 1..Len(rows) : rows[i].stamp \in Nat
        BY <1>0, RowIs, Zenon
    <2>2. \A p \in Pruners : pruner[p].now \in Nat
        BY <1>0, Zenon DEF Command
    <2> QED
        BY <1>0, <2>1, <2>2 DEF NothingAhead
<1>3. OnItsRule' /\ PassedAreCleared'
    BY <1>0 DEF OnItsRule, pick, PassedAreCleared, Behind, Cleared, Matches
<1>4. ChangedRightly'
    <2>1. \A j \in 1..Len(rules) : rules[j].keep \in Int
        BY <1>0, RetentionAssumption, Zenon DEF RetentionType
    <2>2. \A i \in 1..Len(rows) : rows[i].stamp \in Nat
        BY <1>0, RowIs, Zenon
    <2>3. \A i \in 1..Len(rows), j \in 1..Len(rules) :
             rows[i].stamp < clock - rules[j].keep => rows[i].stamp < clock' - rules[j].keep
        BY <1>0, <2>1, <2>2
    <2> QED
        BY <1>0, <2>3, Zenon DEF ChangedRightly
<1> QED
    BY <1>1, <1>2, <1>3, <1>4, Zenon DEF RetentionInv

LEMMA RetentionStart == RetentionInit => RetentionInv
<1> SUFFICES ASSUME RetentionInit PROVE RetentionInv
    BY Zenon
<1>1. NobodyPrunes \in Command /\ NobodyPrunes.at = "idle" /\ NobodyPrunes.rule = 1 /\ NobodyPrunes.now = 0
    BY Zenon DEF NobodyPrunes, Command, Steps
<1>2. RetentionType
    BY <1>1 DEF RetentionType, RetentionInit
<1> QED
    BY <1>1, <1>2 DEF RetentionInit, RetentionInv, NothingAhead, OnItsRule, PassedAreCleared, ChangedRightly

(* A run of db:prune that ends without an error left no row of the rules it   *)
(* picked that was past its window when it began, whatever other runs and     *)
(* writes came between its batches; rows change only by a run that is not     *)
(* dry, and only past a window (Pruner.Run, runRule).                         *)
THEOREM BacklogIsCleared == RetentionSpec => []BacklogCleared
<1>1. RetentionInit => RetentionInv
    BY RetentionStart, Zenon
<1>2. RetentionInv /\ [RetentionNext]_retentionVars => RetentionInv'
    <2> SUFFICES ASSUME RetentionInv, [RetentionNext]_retentionVars PROVE RetentionInv'
        BY Zenon
    <2>1. CASE UNCHANGED retentionVars
        <3>1. clock' = clock /\ rows' = rows /\ rules' = rules /\ pruner' = pruner
            BY <2>1, Zenon DEF retentionVars
        <3>2. RetentionType'
            BY <3>1, Zenon DEF RetentionInv, RetentionType, Accepted, check
        <3>3. NothingAhead' /\ OnItsRule'
            BY <3>1, Zenon DEF RetentionInv, NothingAhead, OnItsRule, pick
        <3>4. ChangedRightly'
            BY <3>1, Zenon DEF RetentionInv, ChangedRightly
        <3>5. PassedAreCleared'
            BY <3>1 DEF RetentionInv, PassedAreCleared, Behind, pick, Cleared, Matches
        <3>6. QED
            BY <3>2, <3>3, <3>4, <3>5, Zenon DEF RetentionInv
    <2>2. ASSUME NEW p \in Pruners,
                 \/ \E dry \in BOOLEAN, only \in Selections : Run(p, dry, only)
                 \/ Prunes(p) \/ Cancelled(p) \/ BatchFails(p)
          PROVE  RetentionInv'
        <3>1. CASE \E dry \in BOOLEAN, only \in Selections : Run(p, dry, only)
            BY <3>1, RunStep, Zenon
        <3>2. CASE Prunes(p)
            BY <3>2, NextRuleStep, CountStep, BatchStep, Zenon DEF Prunes
        <3>3. CASE Cancelled(p)
            BY <3>3, CancelledStep, Zenon
        <3>4. CASE BatchFails(p)
            BY <3>4, BatchFailsStep, Zenon
        <3> QED
            BY <2>2, <3>1, <3>2, <3>3, <3>4, Zenon
    <2>3. CASE TimePasses
        BY <2>3, TimePassesStep, Zenon
    <2>4. ASSUME NEW t \in Tables, WriteRow(t) PROVE RetentionInv'
        BY <2>4, WriteRowStep, Zenon
    <2> QED
        BY <2>1, <2>2, <2>3, <2>4, Zenon DEF RetentionNext
<1>3. RetentionInv => BacklogCleared
    BY Zenon DEF RetentionInv, PassedAreCleared, Behind, ChangedRightly, BacklogCleared
<1> QED
    BY <1>1, <1>2, <1>3, PTL DEF RetentionSpec

-----------------------------------------------------------------------------
(* The circuit breaker.                                                      *)

USE BreakerAssumption

Calls == {"idle", "closed", "trial", "settled"}

LEMMA TypeInit == Init => TypeOK
<1> SUFFICES ASSUME Init PROVE TypeOK
    BY Zenon
<1>1. trial \in BOOLEAN
    BY Zenon DEF Init
<1>2. 0 \in 0..(Attempts - 1) /\ 0 \in 0..OpenTimeout
    OBVIOUS
<1>3. QED
    BY <1>1, <1>2, Zenon DEF Init, TypeOK

LEMMA TypeStep == TypeOK /\ [Next]_vars => TypeOK'
<1> SUFFICES ASSUME TypeOK, [Next]_vars PROVE TypeOK'
    BY Zenon
<1>1. ASSUME NEW c \in Callers, NEW m \in Calls, Enter(c, m)
      PROVE  call' \in [Callers -> Calls] /\ attempt' \in [Callers -> 0..(Attempts - 1)]
    BY <1>1 DEF Enter, TypeOK, Calls
<1>2. ASSUME NEW c \in Callers,
             \/ ExecuteClosed(c) \/ ExecuteTrial(c) \/ ClosedSucceeds(c) \/ TrialSucceeds(c)
             \/ TrialFails(c) \/ TrialPanics(c) \/ ClearTrial(c)
      PROVE  TypeOK'
    <2>1. trial' \in BOOLEAN
        BY <1>2, Zenon DEF ExecuteClosed, ExecuteTrial, ClosedSucceeds, TrialSucceeds, TrialFails,
           TrialPanics, ClearTrial, TypeOK
    <2>2. call' \in [Callers -> Calls] /\ attempt' \in [Callers -> 0..(Attempts - 1)]
        BY <1>1, <1>2, Zenon DEF ExecuteClosed, ExecuteTrial, ClosedSucceeds, TrialSucceeds,
           TrialFails, TrialPanics, AfterPanic, ClearTrial, Calls
    <2>3. /\ state' \in {"closed", "open", "halfOpen"} /\ failures' \in Nat
          /\ age' \in 0..OpenTimeout
        BY <1>2 DEF ExecuteClosed, ExecuteTrial, ClosedSucceeds, TrialSucceeds, TrialFails,
           TrialPanics, ClearTrial, TypeOK
    <2>4. QED
        BY <2>1, <2>2, <2>3, Zenon DEF TypeOK, Calls
<1>3. ASSUME NEW c \in Callers, AttemptFails(c) PROVE TypeOK'
    BY <1>3 DEF AttemptFails, MoreAttempts, TypeOK
<1>4. ASSUME NEW c \in Callers, ClosedFails(c) PROVE TypeOK'
    BY <1>1, <1>4 DEF ClosedFails, TypeOK, Calls
<1>5. CASE Tick \/ UNCHANGED vars
    BY <1>5 DEF Tick, TypeOK, vars
<1>6. QED
    BY <1>2, <1>3, <1>4, <1>5, Zenon DEF Next, ExecuteRejected

-----------------------------------------------------------------------------
SafeInv == TypeOK /\ ClosedHasRoom /\ FlagHasTrial

LEMMA SafeStep == SafeInv /\ [Next]_vars => SafeInv'
<1> SUFFICES ASSUME SafeInv, [Next]_vars PROVE ClosedHasRoom' /\ FlagHasTrial'
    BY TypeStep, Zenon DEF SafeInv
<1>0. TypeOK /\ ClosedHasRoom /\ FlagHasTrial
    BY Zenon DEF SafeInv
<1>1. ClosedHasRoom'
    <2>1. ASSUME NEW c \in Callers, ClosedFails(c) PROVE ClosedHasRoom'
        BY <1>0, <2>1 DEF ClosedFails, Trips, ClosedHasRoom, TypeOK
    <2>2. QED
        BY <1>0, <2>1 DEF Next, vars, ExecuteRejected, ExecuteClosed, ExecuteTrial, AttemptFails, ClosedSucceeds,
           TrialSucceeds, TrialFails, TrialPanics, ClearTrial, Tick, ClosedHasRoom, TypeOK
<1>2. FlagHasTrial'
    <2>1. SUFFICES ASSUME trial' PROVE \E c \in Callers : call'[c] \in {"trial", "settled"}
        BY Zenon DEF FlagHasTrial
    <2>2. CASE \E c \in Callers : ExecuteTrial(c)
        BY <1>0, <2>2, Zenon DEF ExecuteTrial, Enter, TypeOK
    <2>3. CASE ~\E c \in Callers : ExecuteTrial(c)
        <3>1. trial /\ ~\E c \in Callers : ClearTrial(c)
            BY <1>0, <2>1, <2>3, Zenon DEF Next, vars, ExecuteRejected, ExecuteClosed, AttemptFails, ClosedSucceeds,
               ClosedFails, TrialSucceeds, TrialFails, TrialPanics, ClearTrial, Tick
        <3>2. PICK d \in Callers : call[d] \in {"trial", "settled"}
            BY <1>0, <3>1, Zenon DEF FlagHasTrial
        <3>3. call'[d] \in {"trial", "settled"}
            BY <1>0, <2>3, <3>1, <3>2, ZenonT(60) DEF Next, vars, ExecuteRejected, ExecuteClosed, AttemptFails,
               ClosedSucceeds, ClosedFails, TrialSucceeds, TrialFails, TrialPanics, AfterPanic,
               Tick, Enter, TypeOK
        <3>4. QED
            BY <3>3, Zenon
    <2>4. QED
        BY <2>2, <2>3, Zenon
<1>3. QED
    BY <1>1, <1>2, Zenon

(* However late the outcomes come: a closed breaker has room for a failure,  *)
(* and a set trial flag always has a trial that will clear it.               *)
THEOREM BreakerSafe == Spec => [](TypeOK /\ ClosedHasRoom /\ FlagHasTrial)
<1>1. Init => SafeInv
    BY TypeInit DEF Init, SafeInv, ClosedHasRoom, FlagHasTrial
<1>2. QED
    BY <1>1, SafeStep, PTL DEF Spec, SafeInv

-----------------------------------------------------------------------------
(* With prompt requests the breaker is half-open for one request alone.      *)
Alone(c) == \A d \in Callers \ {c} : call[d] = "idle"
TrialInv ==
    /\ TypeOK
    /\ \A c \in Callers : call[c] = "trial" => state = "halfOpen" /\ trial /\ Alone(c)
    /\ state = "open" /\ Elapsed => \A c \in Callers : call[c] = "idle"
    /\ state = "halfOpen" => \A c \in Callers : call[c] # "closed" /\ (call[c] # "idle" => Alone(c))
    /\ state = "halfOpen" /\ ~trial => \A c \in Callers : call[c] = "idle"

LEMMA TrialStep ==
    ASSUME Prompt
    PROVE  TrialInv /\ [Next]_vars => TrialInv'
<1> SUFFICES ASSUME TrialInv, [Next]_vars PROVE TrialInv'
    BY Zenon
<1>0. TypeOK /\ TypeOK'
    BY TypeStep, Zenon DEF TrialInv
<1>1. ASSUME NEW c \in Callers, ExecuteClosed(c) \/ ClosedSucceeds(c) \/ ClosedFails(c)
      PROVE  TrialInv'
    <2>1. state # "halfOpen" \/ call[c] = "closed"
        BY <1>1, Zenon DEF ExecuteClosed, ClosedSucceeds, ClosedFails
    <2>2. state # "halfOpen" /\ \A d \in Callers : call[d] # "trial"
        BY <1>1, <2>1, Zenon DEF TrialInv, ExecuteClosed, ClosedSucceeds, ClosedFails
    <2>3. state' # "halfOpen" /\ \A d \in Callers : call'[d] # "trial"
        BY <1>0, <1>1, <2>2, Zenon DEF ExecuteClosed, ClosedSucceeds, ClosedFails, Enter, TypeOK
    <2>4. state' = "open" /\ Elapsed' => state = "open" /\ Elapsed
        BY <1>0, <1>1, <2>2, Zenon DEF ExecuteClosed, ClosedSucceeds, ClosedFails, Elapsed, TypeOK
    <2>5. state' = "open" /\ Elapsed' => \A d \in Callers : call'[d] = "idle"
        BY <1>0, <1>1, <2>4, Zenon DEF ExecuteClosed, ClosedSucceeds, ClosedFails, Enter, TrialInv, TypeOK
    <2>6. QED
        BY <1>0, <2>3, <2>5, Zenon DEF TrialInv
<1>2. ASSUME NEW c \in Callers, ExecuteTrial(c) PROVE TrialInv'
    <2>1. \A d \in Callers : call[d] = "idle"
        BY <1>2, Zenon DEF ExecuteTrial, MayTry, TrialInv
    <2>2. call'[c] = "trial" /\ (\A d \in Callers \ {c} : call'[d] = "idle")
        BY <1>0, <1>2, <2>1, Zenon DEF ExecuteTrial, Enter, TypeOK
    <2>3. state' = "halfOpen" /\ trial'
        BY <1>2, Zenon DEF ExecuteTrial
    <2>4. QED
        BY <1>0, <2>2, <2>3, Zenon DEF TrialInv, Alone
<1>3. ASSUME NEW c \in Callers, TrialSucceeds(c) \/ TrialFails(c) PROVE TrialInv'
    <2>1. \A d \in Callers \ {c} : call[d] = "idle"
        BY <1>3, Zenon DEF TrialSucceeds, TrialFails, TrialInv, Alone
    <2>2. \A d \in Callers : call'[d] # "trial"
        BY <1>0, <1>3, <2>1, Zenon DEF TrialSucceeds, TrialFails, Enter, TypeOK
    <2>3. state' # "halfOpen" /\ (state' = "open" => ~Elapsed')
        BY <1>0, <1>3, Zenon DEF TrialSucceeds, TrialFails, Elapsed
    <2>4. QED
        BY <1>0, <2>2, <2>3, Zenon DEF TrialInv
<1>4. ASSUME NEW c \in Callers, TrialPanics(c) PROVE TrialInv'
    <2>1. \A d \in Callers \ {c} : call[d] = "idle"
        BY <1>4, Zenon DEF TrialPanics, TrialInv, Alone
    <2>2. call'[c] = "settled" /\ \A d \in Callers \ {c} : call'[d] = "idle"
        BY <1>0, <1>4, <2>1, Zenon DEF TrialPanics, AfterPanic, Enter, TypeOK
    <2>3. state' = "halfOpen" /\ trial'
        BY <1>4, Zenon DEF TrialPanics, TrialInv
    <2>4. QED
        BY <1>0, <2>2, <2>3, Zenon DEF TrialInv, Alone
<1>5. ASSUME NEW c \in Callers, ClearTrial(c) PROVE TrialInv'
    <2>1. call[c] = "settled" /\ state' = state /\ age' = age
        BY <1>5, Zenon DEF ClearTrial
    <2>2. \A d \in Callers : call'[d] = IF d = c THEN "idle" ELSE call[d]
        BY <1>0, <1>5, Zenon DEF ClearTrial, Enter, TypeOK
    <2>3. \A d \in Callers : call[d] # "trial"
        BY <2>1, Zenon DEF TrialInv, Alone
    <2>4. state = "halfOpen" => \A d \in Callers : call'[d] = "idle"
        BY <2>1, <2>2, Zenon DEF TrialInv, Alone
    <2>5. ~(state = "open" /\ Elapsed)
        BY <2>1, Zenon DEF TrialInv
    <2>6. QED
        BY <1>0, <2>1, <2>2, <2>3, <2>4, <2>5, Zenon DEF TrialInv, Alone, Elapsed
<1>6. CASE Tick
    <2>1. age' = OpenTimeout => \A d \in Callers : call[d] \in {"idle", "trial"}
        BY <1>0, <1>6, Zenon DEF Tick, TypeOK
    <2>2. state' = "open" /\ Elapsed' => \A d \in Callers : call'[d] = "idle"
        BY <1>6, <2>1, Zenon DEF Tick, Elapsed, TrialInv
    <2>3. QED
        BY <1>0, <1>6, <2>2, Zenon DEF Tick, TrialInv, Alone
<1>7. CASE UNCHANGED vars \/ \E c \in Callers : AttemptFails(c)
    BY <1>0, <1>7, Zenon DEF vars, AttemptFails, TrialInv, Alone, Elapsed
<1>8. QED
    BY <1>1, <1>2, <1>3, <1>4, <1>5, <1>6, <1>7, Zenon DEF Next, ExecuteRejected

(* When requests end within the open period, a half-open breaker admits one  *)
(* trial at a time.                                                          *)
THEOREM OneTrialAtATime ==
    ASSUME Prompt
    PROVE  Spec => []SingleTrial
<1>1. Init => TrialInv
    BY TypeInit, Zenon DEF Init, TrialInv
<1>2. TrialInv /\ [Next]_vars => TrialInv'
    BY TrialStep, Zenon
<1>3. TrialInv => SingleTrial
    BY Zenon DEF TrialInv, Alone, SingleTrial
<1>4. QED
    BY <1>1, <1>2, <1>3, PTL DEF Spec
=============================================================================
