--------------------------- MODULE IncidentAlerts ---------------------------
(***************************************************************************)
(* The alerts of the incident module (incident/alerts.go, the alert store  *)
(* of incident/gormstore): a new incident is told to the people who hold   *)
(* incident:manage at once, or waits for the digest.  The event queue      *)
(* delivers an event at least once: a delivery that fails, or whose        *)
(* process stops before it is marked done, is made again (fewer times than *)
(* would make it a dead letter).  A notification is keyed on the event     *)
(* that made it, so a repeated delivery makes no second one.               *)
(***************************************************************************)
EXTENDS Naturals, FiniteSets, FiniteSetsExt

CONSTANTS AlertIncidents,   \* incidents that may be opened
          SeverityOf,       \* their severities
          Alerts,           \* the option: [enabled, immediate ({} for nil), cooldown, every]
          DefaultImmediate, DefaultCooldown, DefaultDigestEvery,
          DigestBatch,      \* digestBatch
          DigestRetention,  \* how long a digested row stays
          MaxFaults         \* bound of the instance: deliveries made again

VARIABLES delivery,      \* of the Opened event of each incident
          cooldown,      \* severity -> what is left of its cooldown, 0 for none
          digestQueue,   \* rows [incident, id, left]: 0 while digested_at is NULL, then what
                         \* is left of the retention, and one
          nextFlush,     \* what is left until the tick of the digest worker
          digestEvents,  \* digest events not yet marked done: [id, items, sent]
          told,          \* incident -> the events people were told of it by: 0 for its own, or a digest
          holders,       \* whether somebody holds incident:manage
          faults,        \* incident -> deliveries of its Opened event that were made again; 0 -> of digests
          dropped        \* incidents nobody was there to be told of

alertVars == <<delivery, cooldown, digestQueue, digestEvents, told, holders, faults, dropped,
               nextFlush>>

withDefaults(a) ==
    [a EXCEPT !.immediate = IF @ = {} THEN DefaultImmediate ELSE @,
              !.cooldown = IF @ <= 0 THEN DefaultCooldown ELSE @,
              !.every = IF @ <= 0 THEN DefaultDigestEvery ELSE @]
AlertConfig == withDefaults(Alerts)
immediate(severity) == severity \in AlertConfig.immediate

AlertsInit ==
    /\ delivery = [i \in AlertIncidents |-> "none"]
    /\ cooldown = [s \in {SeverityOf[i] : i \in AlertIncidents} |-> 0]
    /\ digestQueue = {} /\ digestEvents = {}
    /\ told = [i \in AlertIncidents |-> {}] /\ faults = [i \in AlertIncidents \cup {0} |-> 0]
    /\ dropped = {} /\ holders = TRUE
    /\ nextFlush = AlertConfig.every

(* The transaction that creates an incident publishes Opened; without Alerts nothing consumes it. *)
Publish(i) ==
    /\ delivery[i] = "none" /\ AlertConfig.enabled
    /\ delivery' = [delivery EXCEPT ![i] = "waiting"]
    /\ UNCHANGED <<cooldown, digestQueue, digestEvents, told, holders, faults, dropped, nextFlush>>

cooling(severity) == cooldown[severity] > 0

(* onOpened: an immediate severity that is not cooling is sent now, any other is queued. *)
OnOpened(i) ==
    /\ delivery[i] = "waiting"
    /\ delivery' = [delivery EXCEPT ![i] =
          IF immediate(SeverityOf[i]) /\ ~cooling(SeverityOf[i]) THEN "send" ELSE "queue"]
    /\ UNCHANGED <<cooldown, digestQueue, digestEvents, told, holders, faults, dropped, nextFlush>>

(* send: nobody to tell drops the alert, and starts no cooldown.  The notification of an event is made *)
(* once (Notices.Send: its dedupe key), however often the handler is called.                           *)
SendNow(i) ==
    /\ delivery[i] = "send"
    /\ IF holders
       THEN /\ told' = [told EXCEPT ![i] = @ \cup {0}]
            /\ delivery' = [delivery EXCEPT ![i] = "stamp"]
            /\ UNCHANGED dropped
       ELSE /\ delivery' = [delivery EXCEPT ![i] = "finish"]
            /\ dropped' = dropped \cup {i}
            /\ UNCHANGED told
    /\ UNCHANGED <<cooldown, digestQueue, digestEvents, holders, faults, nextFlush>>

StampAlert(i) ==
    /\ delivery[i] = "stamp"
    /\ cooldown' = [cooldown EXCEPT ![SeverityOf[i]] = AlertConfig.cooldown]
    /\ delivery' = [delivery EXCEPT ![i] = "finish"]
    /\ UNCHANGED <<digestQueue, digestEvents, told, holders, faults, dropped, nextFlush>>

(* The next id of a table. *)
Fresh(rows) == 1 + Max({row.id : row \in rows} \cup {0})

Waiting == {row \in digestQueue : row.left = 0}
QueueDigest(i) ==
    /\ delivery[i] = "queue"
    /\ digestQueue' = IF \E row \in Waiting : row.incident = i
                       THEN digestQueue
                       ELSE digestQueue \cup {[incident |-> i, id |-> Fresh(digestQueue), left |-> 0]}
    /\ delivery' = [delivery EXCEPT ![i] = "finish"]
    /\ UNCHANGED <<cooldown, digestEvents, told, holders, faults, dropped, nextFlush>>

(* The queue marks the delivery done. *)
Delivered(i) ==
    /\ delivery[i] = "finish"
    /\ delivery' = [delivery EXCEPT ![i] = "done"]
    /\ UNCHANGED <<cooldown, digestQueue, digestEvents, told, holders, faults, dropped, nextFlush>>

(* A delivery is made again, of an incident's event or (0) of a digest. *)
Repeated(i) ==
    /\ MapThenSumSet(LAMBDA j : faults[j], DOMAIN faults) < MaxFaults
    /\ faults' = [faults EXCEPT ![i] = @ + 1]

(* The handler failed, or the process stopped, between two of its steps: it is called again. *)
AlertFault(i) ==
    /\ delivery[i] \in {"send", "stamp", "queue", "finish"}
    /\ Repeated(i)
    /\ delivery' = [delivery EXCEPT ![i] = "waiting"]
    /\ UNCHANGED <<cooldown, digestQueue, digestEvents, told, holders, dropped, nextFlush>>

(* ClaimDigest: the oldest waiting rows, marked as taken in the transaction that publishes the digest. *)
ClaimDigest(limit) ==
    {row \in Waiting : Cardinality({r \in Waiting : r.id < row.id}) < limit}
(* A slip: the claimed rows stay waiting. *)
UnmarkedMutant(rows) == digestQueue
Marked(rows) == (digestQueue \ rows) \cup {[row EXCEPT !.left = DigestRetention + 1] : row \in rows}

(* The id of a digest's event, which no other has or had. *)
NextEvent == 1 + Max({d.id : d \in digestEvents} \cup UNION {told[i] : i \in AlertIncidents} \cup {0})

(* digestWorker.Run: a tick of the worker flushes, a batch at a time; FlushDigest does it at once. *)
Flush ==
    /\ nextFlush = 0
    /\ LET rows == ClaimDigest(DigestBatch)
       IN  IF rows = {}
           THEN UNCHANGED <<digestQueue, digestEvents>> /\ nextFlush' = AlertConfig.every
           ELSE /\ digestQueue' = Marked(rows)
                /\ digestEvents' = digestEvents \cup
                     {[id |-> NextEvent, items |-> {row.incident : row \in rows}, sent |-> FALSE]}
                /\ nextFlush' = IF Cardinality(rows) < DigestBatch THEN AlertConfig.every ELSE 0
    /\ UNCHANGED <<delivery, cooldown, told, holders, faults, dropped>>

(* onDigest: one alert about every incident of the batch. *)
OnDigest(d) ==
    /\ ~d.sent
    /\ digestEvents' = (digestEvents \ {d}) \cup {[d EXCEPT !.sent = TRUE]}
    /\ IF holders
       THEN told' = [i \in AlertIncidents |-> told[i] \cup IF i \in d.items THEN {d.id} ELSE {}] /\ UNCHANGED dropped
       ELSE dropped' = dropped \cup d.items /\ UNCHANGED told
    /\ UNCHANGED <<delivery, cooldown, digestQueue, holders, faults, nextFlush>>

(* The queue marks the digest done. *)
DigestDelivered(d) ==
    /\ d.sent
    /\ digestEvents' = digestEvents \ {d}
    /\ UNCHANGED <<delivery, cooldown, digestQueue, told, holders, faults, dropped, nextFlush>>

(* The process stopped before the digest was marked done: it is delivered again. (A sending that failed *)
(* changes nothing, and is made again.)                                                                 *)
DigestFault(d) ==
    /\ d.sent
    /\ Repeated(0)
    /\ digestEvents' = (digestEvents \ {d}) \cup {[d EXCEPT !.sent = FALSE]}
    /\ UNCHANGED <<delivery, cooldown, digestQueue, told, holders, dropped, nextFlush>>

(* housekeeper.sweep: the digested rows past the retention are deleted. *)
PruneDigest ==
    LET old == {row \in digestQueue : row.left = 1}
    IN  /\ old # {}
        /\ digestQueue' = digestQueue \ old
        /\ UNCHANGED <<delivery, cooldown, digestEvents, told, holders, faults, dropped, nextFlush>>

(* The last holder of incident:manage loses it. *)
HoldersGone ==
    /\ holders /\ holders' = FALSE
    /\ UNCHANGED <<delivery, cooldown, digestQueue, digestEvents, told, faults, dropped, nextFlush>>

(* A unit of time passes; the worker's tick is taken before the next one. *)
Down(n, floor) == IF n > floor THEN n - 1 ELSE n
AlertTick ==
    /\ nextFlush > 0
    /\ nextFlush' = nextFlush - 1
    /\ cooldown' = [s \in DOMAIN cooldown |-> Down(cooldown[s], 0)]
    /\ digestQueue' = {[row EXCEPT !.left = Down(@, 1)] : row \in digestQueue}
    /\ UNCHANGED <<delivery, digestEvents, told, holders, faults, dropped>>

Deliver(i) == OnOpened(i) \/ SendNow(i) \/ StampAlert(i) \/ QueueDigest(i) \/ Delivered(i)

AlertsNext ==
    \/ \E i \in AlertIncidents : Publish(i) \/ Deliver(i) \/ AlertFault(i)
    \/ \E d \in digestEvents : OnDigest(d) \/ DigestDelivered(d) \/ DigestFault(d)
    \/ Flush \/ PruneDigest \/ HoldersGone \/ AlertTick

(* The queue delivers what is due, the digest worker ticks and time passes. *)
AlertsFairness ==
    /\ \A i \in AlertIncidents : WF_alertVars(Deliver(i))
    /\ WF_alertVars(\E d \in digestEvents : OnDigest(d) \/ DigestDelivered(d))
    /\ WF_alertVars(Flush) /\ WF_alertVars(AlertTick)

AlertsSpec == AlertsInit /\ [][AlertsNext]_alertVars /\ AlertsFairness

-----------------------------------------------------------------------------
(* People are told of an incident once, plus once for each delivery of its Opened event that  *)
(* was made again and found the severity cooling meanwhile: a digest that is sent again tells *)
(* nobody twice, and its claim, its rows and the cooldown lead to no telling of their own.    *)
ToldOnce == \A i \in AlertIncidents : Cardinality(told[i]) <= 1 + faults[i]

(* Every new incident is told, at once or in a digest, or nobody was there to be told: an  *)
(* alert held back by the cooldown, or whose sending failed, alone or in a digest, is not  *)
(* lost.                                                                                   *)
ComesOut(i) == delivery[i] = "waiting" ~> (told[i] # {} \/ i \in dropped)
EveryoneTold == \A i \in AlertIncidents : ComesOut(i)
=============================================================================
