---------------------------- MODULE Notification ----------------------------
(***************************************************************************)
(* Package notification: notifications made by an event's consumer, their   *)
(* e-mail and push deliveries, the devices pushes go to, and the reading    *)
(* and sweeping of both.  Several callers run DeliverDue and DeliverPushDue *)
(* (the workers of every instance, and commands) while people register and  *)
(* remove browsers and read their inbox.  Each statement or transaction is  *)
(* one step.                                                                *)
(*                                                                         *)
(* Times are kept as what is left of them: next until a delivery is due,    *)
(* ttl until it expires, lease until a caller's claim ends.                 *)
(***************************************************************************)
EXTENDS Integers, FiniteSets, Functions

CONSTANTS
    Notes,       \* notifications that may be made: an event, a person and a category each
    People,
    Recipient,   \* whom each notification is for
    Endpoints,   \* browsers' push endpoints
    Mailed,      \* the notifications that may go out by e-mail: not of an internal category
    MaxDevices,  \* bound: device rows ever made; their ids are 1..MaxDevices
    Callers,     \* goroutines that call DeliverDue or DeliverPushDue, one call at a time
    claimLease,  \* how long a claim lasts
    Margin,      \* sendMargin
    TTL,         \* DeliveryTTL
    Steps,       \* attempts after which the wait between them no longer grows
    Delay,       \* the wait after each of the first Steps attempts
    RetryAfter,  \* the longest wait a push service asks for
    Quiet,       \* what is left of the recipient's quiet hours when they hold a delivery
    MaxFailures, \* MaxConsecutiveFailures
    FoundRows,   \* an insert refused as a duplicate reports an affected row (MySQL, clientFoundRows)
    MaxFaults    \* bound: calls that stop or fail halfway

ASSUME NotificationAssumption ==
    /\ Recipient \in [Notes -> People] /\ IsFiniteSet(Notes) /\ Mailed \subseteq Notes
    /\ MaxDevices \in Nat /\ claimLease \in Nat /\ Margin \in Nat /\ TTL \in Nat /\ Quiet \in Nat
    /\ MaxFailures \in Nat \ {0} /\ MaxFaults \in Nat /\ RetryAfter \in Nat
    /\ Steps \in Nat \ {0} /\ Delay \in [1..Steps -> Nat \ {0}]
    /\ Margin < claimLease

VARIABLES
    note,      \* notifications: none, unread, read or deleted
    plan,      \* the deliveries a consumer planned and has not written yet
    delivery,  \* notification_deliveries, by notification and device id (0: the e-mail)
    device,    \* notification_devices, by id
    made,      \* device ids given out
    req,       \* each person's registration or removal under way
    call,      \* each call of DeliverDue or DeliverPushDue
    accepted,  \* history: how often each delivery there is was accepted by the relay or push service,
               \* from the first acceptance its caller heard of on
    faults     \* history: calls that stopped or failed halfway

vars == <<note, plan, delivery, device, made, req, call, accepted, faults>>

Mail == 0
Ids == 1..MaxDevices
Keys == Notes \X (Ids \cup {Mail})
Due == {"pending", "held"}
Ended == {"sent", "failed", "cancelled"}
Delivery == [status : Due \cup Ended, next : Nat, ttl : Nat, attempts : Nat]
NoDelivery == [status |-> "none", next |-> 0, ttl |-> 0, attempts |-> 0]
Device == [endpoint : Endpoints, user : People, fails : Nat, disabled : BOOLEAN]
NoDevice == [endpoint |-> "none", user |-> "nobody", fails |-> 0, disabled |-> TRUE]
Present(d) == device[d] # NoDevice
NoPlan == [devices |-> {}, mail |-> FALSE, held |-> FALSE, none |-> TRUE]
NoReq == [at |-> "idle"]
NoCall == [at |-> "idle", hand |-> {}, held |-> {}, todo |-> {}, ready |-> {}, out |-> {}, lease |-> 0,
           id |-> 0, dev |-> NoDevice, answer |-> "none", wait |-> 0]
Answers == {"accepted", "gone", "retry", "refused", "blamed"}

(* Some notifications may have been made and swept long ago.                                     *)
Init ==
    /\ note \in [Notes -> {"none", "deleted"}]
    /\ plan = [n \in Notes |-> NoPlan]
    /\ delivery = [k \in Keys |-> NoDelivery]
    /\ device = [d \in Ids |-> NoDevice]
    /\ made = 0
    /\ req = [p \in People |-> NoReq]
    /\ call = [c \in Callers |-> NoCall]
    /\ accepted = [k \in Keys |-> 0]
    /\ faults = 0

-----------------------------------------------------------------------------
(* Send, in the consumer of an event                                        *)

ActiveDevices(p) == {d \in Ids : Present(d) /\ device[d].user = p /\ ~device[d].disabled}

NewDelivery(held) ==
    [status |-> IF held THEN "held" ELSE "pending", next |-> IF held THEN Quiet ELSE 0,
     ttl |-> IF held THEN Quiet + TTL ELSE TTL, attempts |-> 0]

(* plans reads the recipient's settings, quiet hours and devices before the transaction.  What  *)
(* the settings say is any choice; a device's test goes to that device only.                     *)
Plan(n) ==
    /\ note[n] = "none" /\ plan[n] = NoPlan
    /\ \E mail, held \in BOOLEAN, to \in {{}, ActiveDevices(Recipient[n])}
                                   \cup {{d} : d \in ActiveDevices(Recipient[n])} :
          /\ mail => n \in Mailed
          /\ plan' = [plan EXCEPT ![n] = [devices |-> to, mail |-> mail, held |-> held]]
    /\ UNCHANGED <<note, delivery, device, made, req, call, accepted, faults>>

(* The notification and its deliveries are written together, once for its dedupe key.            *)
InsertNew(n) ==
    /\ plan[n] # NoPlan
    /\ note' = [note EXCEPT ![n] = "unread"]
    /\ delivery' = [k \in Keys |->
          IF k[1] = n /\ (k[2] \in plan[n].devices \/ (k[2] = Mail /\ plan[n].mail))
          THEN NewDelivery(plan[n].held) ELSE delivery[k]]
    /\ plan' = [plan EXCEPT ![n] = NoPlan]
    /\ UNCHANGED <<device, made, req, call, accepted, faults>>

MarkRead(n) ==
    /\ note[n] = "unread"
    /\ note' = [note EXCEPT ![n] = "read"]
    /\ UNCHANGED <<plan, delivery, device, made, req, call, accepted, faults>>

-----------------------------------------------------------------------------
(* Devices: Register, Remove and Unregister                                 *)

At(e) == {d \in Ids : Present(d) /\ device[d].endpoint = e}
Owes(k) == delivery[k].status \in Due
Closed(s) == [status |-> s, next |-> 0, ttl |-> 0, attempts |-> 0]

CancelPushOfDevice(d) ==
    [k \in Keys |-> IF k[2] = d /\ Owes(k) THEN Closed("cancelled")
                    ELSE delivery[k]]

(* What a read of the endpoint's row leads to: refreshing the row it found or what comes next.   *)
Found(p, e, otherwise) ==
    IF At(e) = {} THEN otherwise
    ELSE LET d == CHOOSE d \in At(e) : TRUE
         IN  [at |-> "refresh", endpoint |-> e, id |-> d, moved |-> device[d].user # p]

Register(p, e) ==
    /\ req[p] = NoReq
    /\ req' = [req EXCEPT ![p] = Found(p, e, [at |-> "insert", endpoint |-> e])]
    /\ UNCHANGED <<note, plan, delivery, device, made, call, accepted, faults>>

Registered(p) == [endpoint |-> req[p].endpoint, user |-> p, fails |-> 0, disabled |-> FALSE]

(* A refused insert that reports a row counts as created, and the row is left as it is.          *)
InsertDevice(p) ==
    /\ req[p].at = "insert"
    /\ \/ /\ At(req[p].endpoint) = {} /\ made < MaxDevices
          /\ made' = made + 1
          /\ device' = [device EXCEPT ![made + 1] = Registered(p)]
          /\ req' = [req EXCEPT ![p] = NoReq]
       \/ /\ At(req[p].endpoint) # {}
          /\ req' = IF FoundRows THEN [req EXCEPT ![p] = NoReq] ELSE [req EXCEPT ![p].at = "again"]
          /\ UNCHANGED <<device, made>>
    /\ UNCHANGED <<note, plan, delivery, call, accepted, faults>>

ReadAgain(p) ==
    /\ req[p].at = "again"
    /\ req' = [req EXCEPT ![p] = Found(p, req[p].endpoint, NoReq)]
    /\ UNCHANGED <<note, plan, delivery, device, made, call, accepted, faults>>

Refreshed(p) ==
    IF Present(req[p].id) THEN [device EXCEPT ![req[p].id] = Registered(p)] ELSE device

(* moved was decided by the row read before this transaction.                                    *)
RefreshDevice(p) ==
    /\ req[p].at = "refresh"
    /\ delivery' = IF req[p].moved THEN CancelPushOfDevice(req[p].id) ELSE delivery
    /\ device' = Refreshed(p)
    /\ req' = [req EXCEPT ![p] = NoReq]
    /\ UNCHANGED <<note, plan, made, call, accepted, faults>>

(* Remove and Unregister find the person's device, by id or endpoint, before the transaction.    *)
Remove(p, d) ==
    /\ req[p] = NoReq /\ Present(d) /\ device[d].user = p
    /\ req' = [req EXCEPT ![p] = [at |-> "remove", id |-> d]]
    /\ UNCHANGED <<note, plan, delivery, device, made, call, accepted, faults>>

RemoveDevice(p) ==
    /\ req[p].at = "remove"
    /\ delivery' = CancelPushOfDevice(req[p].id)
    /\ device' = IF Present(req[p].id) /\ device[req[p].id].user = p
                 THEN [device EXCEPT ![req[p].id] = NoDevice] ELSE device
    /\ req' = [req EXCEPT ![p] = NoReq]
    /\ UNCHANGED <<note, plan, made, call, accepted, faults>>

-----------------------------------------------------------------------------
(* DeliverDue and DeliverPushDue                                            *)

IsMail(k) == k[2] = Mail
DueNow(mail) == {k \in Keys : Owes(k) /\ delivery[k].next = 0 /\ (IsMail(k) <=> mail)}

(* One transaction leases every due row of the channel (a batch holds a hundred).                *)
ClaimDue(c) ==
    /\ call[c].at = "idle"
    /\ \E mail \in BOOLEAN :
          LET due == DueNow(mail)
          IN  /\ due # {}
              /\ delivery' = [k \in Keys |-> IF k \in due THEN [delivery[k] EXCEPT !.next = claimLease]
                                             ELSE delivery[k]]
              /\ call' = [call EXCEPT ![c] = [NoCall EXCEPT !.at = "batch", !.hand = due,
                             !.held = {k \in due : delivery[k].status = "held"}, !.lease = claimLease]]
    /\ UNCHANGED <<note, plan, device, made, req, accepted, faults>>

NoMarginMutant(c) == TRUE
CanStartSend(c) == call[c].lease > Margin

(* The next e-mail, or the pushes of the next device with the device's row as it is now.         *)
Pick(c) ==
    /\ call[c].at = "batch" /\ CanStartSend(c)
    /\ \E k \in call[c].hand :
          LET group == IF IsMail(k) THEN {k} ELSE {j \in call[c].hand : j[2] = k[2]}
          IN  call' = [call EXCEPT ![c].at = "triage", ![c].hand = @ \ group, ![c].todo = group,
                         ![c].dev = IF IsMail(k) THEN NoDevice ELSE device[k[2]]]
    /\ UNCHANGED <<note, plan, delivery, device, made, req, accepted, faults>>

EndCall(c) ==
    /\ call[c].at = "batch" /\ (call[c].hand = {} \/ ~CanStartSend(c))
    /\ call' = [call EXCEPT ![c] = NoCall]
    /\ UNCHANGED <<note, plan, delivery, device, made, req, accepted, faults>>

(* What is done next for the same device, or with the rest of the batch.                         *)
Onward(r) ==
    IF r.todo # {} THEN [r EXCEPT !.at = "triage"]
    ELSE IF r.ready # {} THEN [r EXCEPT !.at = "send"]
    ELSE [r EXCEPT !.at = "batch", !.held = @ \cap r.hand, !.dev = NoDevice, !.answer = "none", !.wait = 0]

Unwanted(k, dev) ==
    \/ note[k[1]] # "unread"
    \/ ~IsMail(k) /\ (dev.user # Recipient[k[1]] \/ dev.disabled)

(* saveDelivery writes a result only over a row that is still owed.                              *)
SaveDelivery(k, result) == IF Owes(k) THEN [delivery EXCEPT ![k] = result] ELSE delivery

Triage(c) ==
    /\ call[c].at = "triage"
    /\ \E k \in call[c].todo :
          LET rest == [call[c] EXCEPT !.todo = @ \ {k}]
              cancelled == Closed("cancelled")
          IN  \/ /\ Unwanted(k, call[c].dev)
                 /\ delivery' = SaveDelivery(k, cancelled)
                 /\ call' = [call EXCEPT ![c] = Onward(rest)]
              \/ /\ ~Unwanted(k, call[c].dev)
                 /\ call' = [call EXCEPT ![c] = Onward([rest EXCEPT !.ready = @ \cup {k}])]
                 /\ UNCHANGED delivery
    /\ UNCHANGED <<note, plan, device, made, req, accepted, faults>>

ShouldBundle(ks, held) == Cardinality(ks) >= IF ks \cap held # {} THEN 2 ELSE 3

StartSend(c) ==
    /\ call[c].at = "send"
    /\ \E ks \in IF ShouldBundle(call[c].ready, call[c].held) THEN {call[c].ready}
                 ELSE {{k} : k \in call[c].ready} :
          call' = [call EXCEPT ![c].at = "sending", ![c].ready = @ \ ks, ![c].out = ks]
    /\ UNCHANGED <<note, plan, delivery, device, made, req, accepted, faults>>

(* The mail relay or the push service answers, or nothing comes back in time (retry), though it  *)
(* may have accepted what was sent: taken.  A refusal blames the device unless it is the         *)
(* payload's fault; a retry that was answered may be told how long to wait.                      *)
Answer(c) ==
    /\ call[c].at = "sending"
    /\ \E a \in Answers, wait \in {0, RetryAfter}, taken \in BOOLEAN :
          /\ call[c].dev = NoDevice => a \in {"accepted", "retry", "refused"} /\ wait = 0
          /\ a # "retry" => wait = 0
          /\ taken => a = "accepted" \/ (a = "retry" /\ wait = 0)
          /\ a = "accepted" => taken
          /\ call' = [call EXCEPT ![c].at = "saving", ![c].answer = a, ![c].wait = wait]
          /\ accepted' = [k \in Keys |-> IF taken /\ k \in call[c].out /\ (a = "accepted" \/ accepted[k] > 0)
                                         THEN accepted[k] + 1 ELSE accepted[k]]
    /\ UNCHANGED <<note, plan, delivery, device, made, req, faults>>

Longer(a, b) == IF a < b THEN b ELSE a
Backoff(attempts) == Delay[IF attempts < Steps THEN attempts ELSE Steps]

(* record and recordPush: what an answer makes of a delivery.                                    *)
Recorded(d, answer, wait) ==
    LET tries == d.attempts + 1
        delay == Longer(wait, Backoff(tries))
    IN  IF answer = "accepted" THEN Closed("sent")
        ELSE IF answer # "retry" \/ delay >= d.ttl THEN Closed("failed")
        ELSE [status |-> "pending", next |-> delay, ttl |-> d.ttl, attempts |-> tries]

Save(c) ==
    /\ call[c].at = "saving"
    /\ \E k \in call[c].out :
          LET rest == [call[c] EXCEPT !.out = @ \ {k}]
          IN  /\ delivery' = SaveDelivery(k, Recorded(delivery[k], call[c].answer, call[c].wait))
              /\ call' = [call EXCEPT ![c] =
                    IF rest.out # {} THEN rest
                    ELSE IF IsMail(k) \/ rest.answer \in {"retry", "refused"} THEN Onward(rest)
                    ELSE [rest EXCEPT !.at = "noting", !.id = k[2]]]
    /\ UNCHANGED <<note, plan, device, made, req, accepted, faults>>

PushSucceeded(d) == IF Present(d) THEN [device EXCEPT ![d].fails = 0] ELSE device

DropGoneDevice(e) == [d \in Ids |-> IF d \in At(e) THEN NoDevice ELSE device[d]]

(* A failure that is the device's counts, up to disabling it.                                    *)
PushFailed(d) ==
    IF Present(d)
    THEN [device EXCEPT ![d] = [@ EXCEPT !.fails = @ + 1,
                                         !.disabled = @ \/ device[d].fails + 1 >= MaxFailures]]
    ELSE device

JustDisabled(d) == Present(d) /\ ~device[d].disabled /\ device[d].fails + 1 >= MaxFailures

(* A success forgives, a gone subscription takes the row with its endpoint, and the pushes of a  *)
(* device that was just disabled are cancelled next, in a statement of their own.                *)
NoteOnDevice(c) ==
    /\ call[c].at = "noting"
    /\ LET d == call[c].id
           done == [call EXCEPT ![c] = Onward([@ EXCEPT !.id = 0])]
       IN  \/ /\ call[c].answer = "accepted"
              /\ device' = PushSucceeded(d)
              /\ call' = done /\ UNCHANGED delivery
           \/ /\ call[c].answer = "gone"
              /\ delivery' = CancelPushOfDevice(d)
              /\ device' = DropGoneDevice(call[c].dev.endpoint)
              /\ call' = done
           \/ /\ call[c].answer = "blamed"
              /\ device' = PushFailed(d)
              /\ call' = IF JustDisabled(d) THEN [call EXCEPT ![c].at = "cancelling"] ELSE done
              /\ UNCHANGED delivery
    /\ UNCHANGED <<note, plan, made, req, accepted, faults>>

CancelPushOf(c) ==
    /\ call[c].at = "cancelling"
    /\ delivery' = CancelPushOfDevice(call[c].id)
    /\ call' = [call EXCEPT ![c] = Onward([@ EXCEPT !.id = 0])]
    /\ UNCHANGED <<note, plan, device, made, req, accepted, faults>>

(* A call stops halfway: its process dies or its context is cancelled.                           *)
Stop(c) ==
    /\ call[c].at # "idle" /\ faults < MaxFaults
    /\ call' = [call EXCEPT ![c] = NoCall]
    /\ faults' = faults + 1
    /\ UNCHANGED <<note, plan, delivery, device, made, req, accepted>>

(* A statement fails: what is left of this e-mail or device is given up, the batch goes on.      *)
Fail(c) ==
    /\ call[c].at \notin {"idle", "batch"} /\ faults < MaxFaults
    /\ call' = [call EXCEPT ![c] = Onward([@ EXCEPT !.todo = {}, !.ready = {}, !.out = {}, !.id = 0])]
    /\ faults' = faults + 1
    /\ UNCHANGED <<note, plan, delivery, device, made, req, accepted>>

-----------------------------------------------------------------------------
(* Sweep and time                                                           *)

Held(k) == \E c \in Callers : k \in call[c].hand \cup call[c].todo \cup call[c].ready \cup call[c].out

Prunable(k) == delivery[k].status \in Ended

(* Retention is weeks: no call that handled the row is still under way.                          *)
PruneDelivery(k) ==
    /\ Prunable(k) /\ ~Held(k)
    /\ delivery' = [delivery EXCEPT ![k] = NoDelivery]
    /\ accepted' = [accepted EXCEPT ![k] = 0]
    /\ UNCHANGED <<note, plan, device, made, req, call, faults>>

OldEnoughMutant(n) == TRUE
Unreferenced(n) == \A k \in Keys : k[1] = n => delivery[k] = NoDelivery

PruneNotification(n) ==
    /\ note[n] \in {"unread", "read"} /\ Unreferenced(n)
    /\ note' = [note EXCEPT ![n] = "deleted"]
    /\ UNCHANGED <<plan, delivery, device, made, req, call, accepted, faults>>

Less(t) == IF t > 0 THEN t - 1 ELSE 0

(* The work begun on a device or an e-mail ends within the margin kept before the lease's end.   *)
Tick ==
    /\ \A c \in Callers : call[c].at \in {"idle", "batch"} \/ call[c].lease > 1
    /\ delivery' = [k \in Keys |-> [delivery[k] EXCEPT !.next = Less(@), !.ttl = Less(@)]]
    /\ call' = [c \in Callers |-> [call[c] EXCEPT !.lease = Less(@)]]
    /\ UNCHANGED <<note, plan, device, made, req, accepted, faults>>

CallStep(c) ==
    \/ ClaimDue(c) \/ Pick(c) \/ EndCall(c) \/ Triage(c) \/ StartSend(c) \/ Answer(c) \/ Save(c)
    \/ NoteOnDevice(c) \/ CancelPushOf(c)

Request(p) ==
    \/ \E e \in Endpoints : Register(p, e)
    \/ InsertDevice(p) \/ ReadAgain(p) \/ RefreshDevice(p)
    \/ \E d \in Ids : Remove(p, d)
    \/ RemoveDevice(p)

Next ==
    \/ \E n \in Notes : Plan(n) \/ InsertNew(n) \/ MarkRead(n) \/ PruneNotification(n)
    \/ \E p \in People : Request(p)
    \/ \E c \in Callers : CallStep(c) \/ Stop(c) \/ Fail(c)
    \/ \E k \in Keys : PruneDelivery(k)
    \/ Tick

Spec == Init /\ [][Next]_vars

(* Workers poll every second and each statement and request returns, so calls go on and time     *)
(* passes; of the four minutes a claim gives a call to start in, not all are always lost.        *)
(* Nothing is assumed of people, of consumers or of the sweep.                                   *)
Fairness == WF_vars(Tick) /\ \A c \in Callers : WF_vars(CallStep(c)) /\ SF_vars(Pick(c))

FairSpec == Spec /\ Fairness

-----------------------------------------------------------------------------
Call == [at : {"idle", "batch", "triage", "send", "sending", "saving", "noting", "cancelling"},
         hand : SUBSET Keys, held : SUBSET Keys, todo : SUBSET Keys, ready : SUBSET Keys,
         out : SUBSET Keys, lease : 0..claimLease, id : Ids \cup {0}, dev : Device \cup {NoDevice},
         answer : Answers \cup {"none"}, wait : {0, RetryAfter}]

(* Every row and every call under way has one of the states the code gives it, and only rows     *)
(* whose ids were given out exist.                                                               *)
TypeOK ==
    /\ note \in [Notes -> {"none", "unread", "read", "deleted"}]
    /\ delivery \in [Keys -> Delivery \cup {NoDelivery}]
    /\ device \in [Ids -> Device \cup {NoDevice}] /\ made \in 0..MaxDevices
    /\ \A d \in Ids : Present(d) => d <= made
    /\ call \in [Callers -> Call]
    /\ accepted \in [Keys -> Nat] /\ faults \in 0..MaxFaults

InWork(c) == call[c].todo \cup call[c].ready \cup call[c].out

(* "Each is sent once however many instances run the worker": while no call stops or fails       *)
(* halfway, a delivery is not accepted again by the relay or push service once a caller has      *)
(* heard that it was, whatever retries, expired leases, cancellations and registrations happen   *)
(* meanwhile (DeliverDue, claimDue, canStartSend).  An acceptance whose answer was lost is not   *)
(* heard of: the delivery is retried, and may be accepted twice.                                 *)
SentOnce == faults = 0 => \A k \in Keys : accepted[k] <= 1

(* No two calls are ever at work on the same delivery, even after faults: a claim outlasts the   *)
(* work begun under it.                                                                          *)
OneSender == \A b, c \in Callers : b # c => InWork(b) \cap InWork(c) = {}

(* A delivery that ended stays as it ended until the sweep deletes it: no late result, retry or  *)
(* cancellation rewrites it (saveDelivery, cancelPushOfDevice).                                  *)
EndedStays ==
    [][\A k \in Keys : delivery[k].status \in Ended => delivery'[k] \in {delivery[k], NoDelivery}]_vars

(* A delivery that is still owed has its notification: the sweep deletes deliveries that ended   *)
(* and notifications nothing points to (pruneDeliveries, pruneNotifications).                    *)
OwedHasNote(k) == Owes(k) => note[k[1]] \in {"unread", "read"}

(* At most one row per endpoint, however registrations race (insertDevice, registerDevice).      *)
OneRowPerEndpoint == \A e \in Endpoints : Cardinality(At(e)) <= 1

(* The deliveries of a notification all end, sent, failed or cancelled, though services keep     *)
(* asking for a retry, quiet hours hold them and claims run out before anything is started.      *)
DeliveriesEnd ==
    \A n \in Notes : (\E k \in Keys : k[1] = n /\ Owes(k)) ~> (\A k \in Keys : k[1] = n => ~Owes(k))

(* "An endpoint that is not theirs is left alone: it already moved to whoever signed in on that  *)
(* browser since": a person's removal ends no push of another person to that person's device.    *)
OthersLeftAlone ==
    [][\A p \in People, k \in Keys :
          /\ req[p].at = "remove" /\ req'[p] = NoReq /\ req[p].id = k[2]
          /\ p # Recipient[k[1]] /\ device[k[2]].user = Recipient[k[1]]
          => delivery'[k] = delivery[k]]_vars

(* "Each is sent once however many instances run the worker", but for lost answers, no two work  *)
(* on one delivery, one that ended stays as it ended, and an endpoint has one row however        *)
(* registrations race (DeliverDue, claimDue, saveDelivery, registerDevice).                      *)
PushedOnce == [](SentOnce /\ OneSender /\ OneRowPerEndpoint) /\ EndedStays

(* The deliveries of a notification all end, and while one is owed the sweep leaves its          *)
(* notification (DeliverDue, DeliverPushDue, pruneNotifications).                                *)
DeliveriesKept == [](\A k \in Keys : OwedHasNote(k)) /\ DeliveriesEnd
=============================================================================
