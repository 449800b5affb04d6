----------------------------- MODULE AuditQueue -----------------------------
(***************************************************************************)
(* audit.AsyncRepository: callers put entries on a bounded channel, drain  *)
(* goroutines write them through the underlying repository, and Shutdown   *)
(* closes the channel and waits for the WaitGroup that counts goroutines   *)
(* and entries.  Write holds the mutex over its closed check, its Add and  *)
(* its send, so each of these is one step.  database.EnableDBTracing: the  *)
(* statements of one writer, each with the span it started.                *)
(***************************************************************************)
EXTENDS Integers, Sequences, FiniteSets

CONSTANTS AuditEntries,  \* entries handed to Write
          AuditWorkers,  \* drain goroutines
          AuditBuffer,   \* capacity of the channel
          MaxSpans       \* bound: statements traced

ASSUME AuditQueueAssumption == /\ AuditBuffer \in Nat \ {0} /\ AuditWorkers # {}
                               /\ IsFiniteSet(AuditWorkers) /\ "gone" \notin AuditEntries

VARIABLES entryIs,    \* entryIs[e]: "new", "refused", "queued", "taken", "written" or "reported"
          channel,    \* the buffered entries
          closed,     \* the channel is closed
          drainer,    \* drainer[w]: {} waiting, {e} writing, or {"gone"}
          waitGroup,  \* the WaitGroup's counter
          shutdown,   \* "no", "waiting", "flushed" or "timed out"
          statements, \* the statements being executed, outermost first
          finishes,   \* the finish function each of them stored
          spans       \* spans[i]: "started", or how it ended

queueVars == <<entryIs, channel, closed, drainer, waitGroup, shutdown>>
spanVars == <<statements, finishes, spans>>
auditVars == <<queueVars, spanVars>>

\* NewAsyncRepository: one Add per goroutine.
AuditInit == /\ entryIs = [e \in AuditEntries |-> "new"]
             /\ channel = <<>> /\ closed = FALSE
             /\ drainer = [w \in AuditWorkers |-> {}]
             /\ waitGroup = Cardinality(AuditWorkers)
             /\ shutdown = "no"
             /\ statements = <<>> /\ finishes = <<>> /\ spans = <<>>

\* Write: refused when shut down or when the buffer is full; a send also
\* reaches a goroutine that waits.
QueueWrite(e) ==
    /\ entryIs[e] = "new"
    /\ IF closed \/ Len(channel) = AuditBuffer
       THEN entryIs' = [entryIs EXCEPT ![e] = "refused"] /\ UNCHANGED <<channel, waitGroup>>
       ELSE /\ entryIs' = [entryIs EXCEPT ![e] = "queued"]
            /\ channel' = Append(channel, e)
            /\ waitGroup' = waitGroup + 1
    /\ UNCHANGED <<closed, drainer, shutdown, spanVars>>

\* loop: take the next entry; a closed channel hands out what it holds first.
LoopTake(w) ==
    /\ drainer[w] = {} /\ channel # <<>>
    /\ drainer' = [drainer EXCEPT ![w] = {Head(channel)}]
    /\ entryIs' = [entryIs EXCEPT ![Head(channel)] = "taken"]
    /\ channel' = Tail(channel)
    /\ UNCHANGED <<closed, waitGroup, shutdown, spanVars>>

\* loop: the underlying Write returned; a failure is reported to OnError.
LoopWrote(w) ==
    /\ \E e \in drainer[w] \cap AuditEntries : \E how \in {"written", "reported"} : entryIs' = [entryIs EXCEPT ![e] = how]
    /\ drainer' = [drainer EXCEPT ![w] = {}]
    /\ waitGroup' = waitGroup - 1
    /\ UNCHANGED <<channel, closed, shutdown, spanVars>>

\* loop: the channel is closed and empty.
LoopGone(w) ==
    /\ drainer[w] = {} /\ closed /\ channel = <<>>
    /\ drainer' = [drainer EXCEPT ![w] = {"gone"}]
    /\ waitGroup' = waitGroup - 1
    /\ UNCHANGED <<entryIs, channel, closed, shutdown, spanVars>>

\* Shutdown: close once, then wait for the counter or the context.
DroppingShutdownMutant ==
    /\ shutdown = "no"
    /\ closed' = TRUE /\ channel' = <<>> /\ waitGroup' = waitGroup - Len(channel)
    /\ shutdown' = "waiting"
    /\ UNCHANGED <<entryIs, drainer, spanVars>>
ShutdownQueue ==
    /\ shutdown = "no"
    /\ closed' = TRUE
    /\ shutdown' = "waiting"
    /\ UNCHANGED <<entryIs, channel, drainer, waitGroup, spanVars>>
Flushed ==
    /\ shutdown = "waiting"
    /\ \/ waitGroup = 0 /\ shutdown' = "flushed"
       \/ shutdown' = "timed out"
    /\ UNCHANGED <<entryIs, channel, closed, drainer, waitGroup, spanVars>>

---------------------------------------------------------------------------
\* EnableDBTracing, before a statement: start a span and keep its finish under
\* the statement, which may run others (a preload, a hook).
StoredFinishes == Append(finishes, Len(spans) + 1)
TracedStatement ==
    \/ /\ Len(spans) < MaxSpans
       /\ statements' = Append(statements, Len(spans) + 1)
       /\ finishes' = StoredFinishes
       /\ spans' = Append(spans, "started")
       /\ UNCHANGED queueVars
    \* after it: its finish is called with the statement's error
    \/ /\ statements # <<>>
       /\ \E outcome \in {"ok", "failed"} :
             spans' = [spans EXCEPT ![finishes[Len(finishes)]] = IF @ = "started" THEN outcome ELSE "ended twice"]
       /\ statements' = SubSeq(statements, 1, Len(statements) - 1)
       /\ finishes' = SubSeq(finishes, 1, Len(finishes) - 1)
       /\ UNCHANGED queueVars

Drain(w) == LoopTake(w) \/ LoopWrote(w) \/ LoopGone(w)
AuditNext == \/ \E e \in AuditEntries : QueueWrite(e)
             \/ \E w \in AuditWorkers : Drain(w)
             \/ ShutdownQueue \/ Flushed \/ TracedStatement
AuditSpec == AuditInit /\ [][AuditNext]_auditVars

---------------------------------------------------------------------------
(* A Shutdown that returns nil has left no accepted entry behind: each was   *)
(* written or reported to OnError, every goroutine is gone, and the counter  *)
(* never went below zero (Write, loop, Shutdown).                            *)
NothingUnwritten ==
    /\ waitGroup >= 0
    /\ shutdown = "flushed" => /\ \A e \in AuditEntries : entryIs[e] \notin {"queued", "taken"}
                               /\ \A w \in AuditWorkers : drainer[w] = {"gone"}

(* Every traced statement ends its own span, once, whichever statements ran   *)
(* inside it (EnableDBTracing).                                               *)
SpansPaired ==
    /\ \A i \in 1..Len(spans) : spans[i] # "ended twice"
    /\ \A i \in 1..Len(spans) : spans[i] = "started" <=> i \in {statements[j] : j \in 1..Len(statements)}

(* However Write, the goroutines and Shutdown interleave, and whatever        *)
(* statements run inside one another, no entry is forgotten and no span.      *)
AuditKept == NothingUnwritten /\ SpansPaired
===========================================================================
