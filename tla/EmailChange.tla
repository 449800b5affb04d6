---------------------------- MODULE EmailChange ----------------------------
(***************************************************************************)
(* identity/account's Codes and Reauth on identity/gormstore, under the    *)
(* e-mail change of Profile that uses both: one account's requests ask for *)
(* a change, ask for the code again, type a code, cancel or re-confirm the *)
(* password for something else, each as the database statements it makes,  *)
(* in any interleaving. CodeStore.Issue ends and inserts in one            *)
(* transaction, taken to be serialised with the others of the account.     *)
(* Two codes drawn are taken to differ: a code is known by its row, and    *)
(* only who was sent it can type it.                                       *)
(***************************************************************************)
EXTENDS TLC, Integers, Sequences, FiniteSets

CONSTANTS
    Addresses,
    None,       \* no address
    Requests,   \* bound: the requests that come, each once
    After,      \* Lock.After
    For,        \* Lock.For
    TTL, Attempts, Cooldown, PerHour,  \* CodeRules
    Hour,       \* codeWindow
    MaxNow,     \* bound: the clock
    MaxFaults   \* bound: statements that fail

ASSUME EmailChangeAssumption ==
    /\ None \notin Addresses
    /\ {After, For, TTL, Attempts, Cooldown, PerHour, Hour, MaxNow} \subseteq Nat \ {0}
    /\ MaxFaults \in Nat
    /\ IsFiniteSet(Requests)

VARIABLES
    now,
    email,    \* the account's address
    others,   \* addresses of other accounts
    code,     \* user_verification_codes, in the order of ids
    counter,  \* user_reauth_attempts of the account: until = 0 when locked_until is NULL
    checked,  \* passwords checked since the counter last began anew
    req,      \* the requests
    faults

world == <<now, email, others>>
vars == <<world, code, counter, checked, req, faults>>

NoCounter == [found |-> FALSE, failures |-> 0, until |-> 0]
Waiting ==
    [op |-> "none", at |-> "idle", mail |-> None, address |-> None, right |-> FALSE, guess |-> 0,
     round |-> 1, when |-> 0, read |-> NoCounter, code |-> 0, attempts |-> 0,
     won |-> FALSE, answer |-> "none"]

NewCode(a, t) ==
    [target |-> a, created |-> t, expires |-> t + TTL, attempts |-> 0, state |-> "standing", sent |-> FALSE]

(* A change may already be waiting for its code.                                                 *)
Init ==
    /\ now = 1
    /\ email \in Addresses /\ others = {}
    /\ \/ code = <<>>
       \/ \E a \in Addresses \ {email} : code = <<[NewCode(a, 1) EXCEPT !.sent = TRUE]>>
    /\ counter = NoCounter /\ checked = 0
    /\ req = [r \in Requests |-> Waiting] /\ faults = 0

-----------------------------------------------------------------------------
(* A request goes on                                                        *)

Begin(r, op, x) == req[r].at = "idle" /\ req' = [req EXCEPT ![r] = [x EXCEPT !.op = op, !.mail = email]]
At(r, at) == req[r].at = at
Becomes(r, x) == req' = [req EXCEPT ![r] = x]
To(r, at) == [req[r] EXCEPT !.at = at]
Ended(x, answer) ==
    [Waiting EXCEPT !.at = "done", !.answer = answer, !.won = x.won,
                    !.code = IF x.won \/ answer = "mismatch" THEN x.code ELSE 0,
                    !.guess = IF x.won THEN x.guess ELSE 0, !.address = IF x.won THEN x.address ELSE None]
Done(r, answer) == Ended(req[r], answer)

(* A lost compare-and-set: the next round, or the error once all are used.                       *)
Again(r, at, rounds) ==
    IF req[r].round = rounds THEN Done(r, "failed")
    ELSE [req[r] EXCEPT !.at = at, !.round = @ + 1, !.read = NoCounter, !.when = 0]

-----------------------------------------------------------------------------
(* Reauth.Confirm                                                           *)

Rounds == After + 2

LockedAt(c, t) == c.until # 0 /\ t < c.until

(* A count begins with the first attempt, after a clear and once a lock ran out.                 *)
Fresh(c) == c.until # 0 \/ ~c.found \/ c.failures = 0
Counted(c, t) ==
    LET n == IF c.until # 0 THEN 1 ELSE c.failures + 1
    IN  [found |-> TRUE, failures |-> n, until |-> IF n >= After THEN t + For ELSE 0]

SameCounter(r) == counter = req[r].read

FindCounter(r) ==
    /\ At(r, "count")
    /\ Becomes(r, IF LockedAt(counter, now) THEN Done(r, "locked")
                  ELSE [To(r, "counting") EXCEPT !.read = counter, !.when = now])
    /\ UNCHANGED <<world, code, counter, checked, faults>>

(* The attempt is counted, and only then the password is checked.                                *)
SaveCount(r) ==
    /\ At(r, "counting")
    /\ \/ /\ SameCounter(r)
          /\ counter' = Counted(req[r].read, req[r].when)
          /\ checked' = IF Fresh(counter) THEN 1 ELSE checked + 1
          /\ Becomes(r, IF req[r].right
                        THEN [To(r, "clear") EXCEPT !.right = FALSE, !.read = NoCounter, !.when = 0, !.round = 1]
                        ELSE Done(r, "wrong"))
       \/ /\ ~SameCounter(r)
          /\ Becomes(r, Again(r, "count", Rounds)) /\ UNCHANGED <<counter, checked>>
    /\ UNCHANGED <<world, code, faults>>

Confirmed(r) ==
    IF req[r].op = "password" THEN Done(r, "granted")
    ELSE [To(r, "address") EXCEPT !.read = NoCounter, !.round = 1]

FindToClear(r) ==
    /\ At(r, "clear")
    /\ Becomes(r, IF counter.failures = 0 /\ counter.until = 0 THEN Confirmed(r)
                  ELSE [To(r, "clearing") EXCEPT !.read = counter])
    /\ UNCHANGED <<world, code, counter, checked, faults>>

SaveClear(r) ==
    /\ At(r, "clearing")
    /\ \/ /\ SameCounter(r)
          /\ counter' = [NoCounter EXCEPT !.found = TRUE] /\ Becomes(r, Confirmed(r))
       \/ /\ ~SameCounter(r)
          /\ Becomes(r, Again(r, "clear", Rounds)) /\ UNCHANGED counter
    /\ UNCHANGED <<world, code, checked, faults>>

-----------------------------------------------------------------------------
(* Codes                                                                    *)

Standing(c) == code[c].state = "standing"
Live(c) == Standing(c) /\ now < code[c].expires
EndStanding == [c \in DOMAIN code |-> IF Standing(c) THEN [code[c] EXCEPT !.state = "ended"] ELSE code[c]]
IssuedSince(t) == {c \in DOMAIN code : code[c].created > t}

CheckCooldown(r) ==
    /\ At(r, "cooldown")
    /\ Becomes(r, IF code # <<>> /\ now < code[Len(code)].created + Cooldown THEN Done(r, "refused")
                  ELSE [To(r, "cap") EXCEPT !.when = now])
    /\ UNCHANGED <<world, code, counter, checked, faults>>

CheckCap(r) ==
    /\ At(r, "cap")
    /\ Becomes(r, IF Cardinality(IssuedSince(req[r].when - Hour)) >= PerHour THEN Done(r, "refused")
                  ELSE To(r, "issue"))
    /\ UNCHANGED <<world, code, counter, checked, faults>>

Issue(r) ==
    /\ At(r, "issue")
    /\ code' = Append(EndStanding, NewCode(req[r].address, req[r].when))
    /\ Becomes(r, [To(r, "send") EXCEPT !.code = Len(code) + 1, !.when = 0])
    /\ UNCHANGED <<world, counter, checked, faults>>

SendCode(r) ==
    /\ At(r, "send")
    /\ \/ /\ code' = [code EXCEPT ![req[r].code].sent = TRUE] /\ Becomes(r, Done(r, "granted"))
       \/ Becomes(r, To(r, "undo")) /\ UNCHANGED code
    /\ UNCHANGED <<world, counter, checked, faults>>

(* What could not be sent is ended, as every other standing code.                                *)
Undo(r) ==
    /\ At(r, "undo")
    /\ code' = EndStanding /\ Becomes(r, Done(r, "refused"))
    /\ UNCHANGED <<world, counter, checked, faults>>

VerifyRounds == Attempts + 1

ReadLatest(r) ==
    LET c == Len(code) IN
    /\ At(r, "latest")
    /\ Becomes(r, IF c = 0 THEN Done(r, "refused")
                  ELSE IF ~Live(c) THEN Done(r, "refused")
                  ELSE [To(r, "verify") EXCEPT !.code = c, !.attempts = code[c].attempts])
    /\ UNCHANGED <<world, code, counter, checked, faults>>

TwiceMutant(r) == code[req[r].code].attempts = req[r].attempts
SameCode(r) == Standing(req[r].code) /\ code[req[r].code].attempts = req[r].attempts

Matches(r) == req[r].guess = req[r].code

SaveVerification(r) ==
    LET c == req[r].code
        n == req[r].attempts + 1
    IN  /\ At(r, "verify")
        /\ \/ /\ SameCode(r) /\ Matches(r)
              /\ code' = [code EXCEPT ![c].state = "used"]
              /\ Becomes(r, [To(r, "address") EXCEPT !.won = TRUE, !.address = code[c].target,
                                                       !.attempts = 0, !.round = 1])
           \/ /\ SameCode(r) /\ ~Matches(r)
              /\ code' = [code EXCEPT ![c].attempts = n, ![c].state = IF n >= Attempts THEN "ended" ELSE @]
              /\ Becomes(r, Done(r, "mismatch"))
           \/ /\ ~SameCode(r)
              /\ Becomes(r, Again(r, "latest", VerifyRounds)) /\ UNCHANGED code
        /\ UNCHANGED <<world, counter, checked, faults>>

-----------------------------------------------------------------------------
(* Profile                                                                  *)

RequestEmailChange(r, a, right) ==
    /\ Begin(r, "request", [Waiting EXCEPT !.at = "count", !.address = a, !.right = right])
    /\ UNCHANGED <<world, code, counter, checked, faults>>

(* ChangePassword up to its transaction, which SignIn models.                                    *)
ChangePassword(r, right) ==
    /\ Begin(r, "password", [Waiting EXCEPT !.at = "count", !.right = right])
    /\ UNCHANGED <<world, code, counter, checked, faults>>

ResendEmailChange(r) ==
    /\ Begin(r, "resend", [Waiting EXCEPT !.at = "pending"])
    /\ UNCHANGED <<world, code, counter, checked, faults>>

(* Codes.Pending: the code goes to the stored address.                                           *)
ReadPending(r) ==
    LET c == Len(code) IN
    /\ At(r, "pending")
    /\ Becomes(r, IF c = 0 THEN Done(r, "refused")
                  ELSE IF ~Live(c) THEN Done(r, "refused")
                  ELSE [To(r, "cooldown") EXCEPT !.address = code[c].target])
    /\ UNCHANGED <<world, code, counter, checked, faults>>

ConfirmEmailChange(r, guess) ==
    /\ guess # 0 => code[guess].sent
    /\ Begin(r, "confirm", [Waiting EXCEPT !.at = "latest", !.guess = guess])
    /\ UNCHANGED <<world, code, counter, checked, faults>>

(* checkNewEmail, before the code is sent and again once it is verified.                         *)
CheckNewEmail(r) ==
    LET a == req[r].address IN
    /\ At(r, "address")
    /\ Becomes(r, IF a = req[r].mail \/ a \in others THEN Done(r, "refused")
                  ELSE To(r, IF req[r].op = "confirm" THEN "write" ELSE "cooldown"))
    /\ UNCHANGED <<world, code, counter, checked, faults>>

(* Accounts.Update under the unique index on the address.                                        *)
WriteEmail(r) ==
    LET a == req[r].address IN
    /\ At(r, "write")
    /\ email' = IF a \in others THEN email ELSE a
    /\ Becomes(r, Done(r, IF a \in others THEN "refused" ELSE "granted"))
    /\ UNCHANGED <<now, others, code, counter, checked, faults>>

CancelEmailChange(r) ==
    /\ Begin(r, "cancel", [Waiting EXCEPT !.at = "done", !.answer = "granted"])
    /\ code' = EndStanding
    /\ UNCHANGED <<world, counter, checked, faults>>

(* Another account is given an address.                                                          *)
TakeAddress(a) ==
    /\ a \notin others /\ a # email
    /\ others' = others \cup {a}
    /\ UNCHANGED <<now, email, code, counter, checked, req, faults>>

(* A statement fails, or the process dies: the request ends where it is.                         *)
Fail(r) ==
    /\ req[r].at \notin {"idle", "done", "send"} /\ faults < MaxFaults
    /\ Becomes(r, Done(r, "failed")) /\ faults' = faults + 1
    /\ UNCHANGED <<world, code, counter, checked>>

Tick ==
    /\ now < MaxNow /\ now' = now + 1
    /\ UNCHANGED <<email, others, code, counter, checked, req, faults>>

Step(r) ==
    \/ \E a \in Addresses, right \in BOOLEAN : RequestEmailChange(r, a, right)
    \/ \E right \in BOOLEAN : ChangePassword(r, right)
    \/ ResendEmailChange(r) \/ ReadPending(r)
    \/ \E guess \in {0} \cup DOMAIN code : ConfirmEmailChange(r, guess)
    \/ CancelEmailChange(r)
    \/ FindCounter(r) \/ SaveCount(r) \/ FindToClear(r) \/ SaveClear(r)
    \/ CheckNewEmail(r) \/ CheckCooldown(r) \/ CheckCap(r) \/ Issue(r) \/ SendCode(r) \/ Undo(r)
    \/ ReadLatest(r) \/ SaveVerification(r) \/ WriteEmail(r)
    \/ Fail(r)

Next == (\E r \in Requests : Step(r)) \/ (\E a \in Addresses : TakeAddress(a)) \/ Tick

Spec == Init /\ [][Next]_vars

-----------------------------------------------------------------------------
(* Properties                                                               *)

Counters == [found : BOOLEAN, failures : 0..After, until : 0..(MaxNow + For)]

(* The rows stay in their columns' ranges: a counter never passes After and is locked once there, *)
(* a code never passes its attempts and stands only below them.                                  *)
TypeOK ==
    /\ now \in 1..MaxNow /\ email \in Addresses /\ others \subseteq Addresses
    /\ counter \in Counters /\ (counter.failures = After <=> counter.until # 0)
    /\ \A c \in DOMAIN code :
          /\ code[c].target \in Addresses /\ code[c].attempts \in 0..Attempts
          /\ code[c].state \in {"standing", "used", "ended"}
          /\ code[c].attempts = Attempts => code[c].state = "ended"
    /\ \A r \in Requests : req[r].address \in Addresses \cup {None} /\ req[r].code \in 0..Len(code)
    /\ faults \in 0..MaxFaults

(* Codes.Verify: whatever runs beside it, each wrong guess that was answered cost its code one    *)
(* attempt of its own, so a code takes at most Attempts of them.                                 *)
GuessesCost ==
    \A c \in DOMAIN code :
        Cardinality({r \in Requests : req[r].answer = "mismatch" /\ req[r].code = c}) = code[c].attempts

(* SaveVerification: a code is consumed by one request at most, and by one that typed it.        *)
ConsumedOnce ==
    \A c \in DOMAIN code :
        Cardinality({r \in Requests : req[r].won /\ req[r].code = c})
            = (IF code[c].state = "used" THEN 1 ELSE 0)

(* ConfirmEmailChange: only who consumed a code writes an address, and the one it writes is the   *)
(* one the typed code was mailed to, whatever was asked for, sent again or cancelled meanwhile.  *)
AddressProven ==
    \A r \in Requests :
        /\ req[r].at = "write" => req[r].won
        /\ req[r].won => /\ req[r].guess # 0 /\ code[req[r].guess].sent
                         /\ code[req[r].guess].target = req[r].address

(* Reauth.Confirm: the passwords checked since the counter last began anew are exactly the        *)
(* attempts it holds, so no burst gets more than After checks out of one count.                  *)
ChecksPerLock == counter.failures > 0 => checked = counter.failures

(* Every guess of a code costs an attempt before it is compared, a code is used once, an     *)
(* address is set only for who read the code mailed to it, and the passwords checked since   *)
(* the counter began anew are what it counts, though requests interleave and statements fail *)
(* (Codes.Verify, Consume, Emails.Confirm, Reauth.Confirm).                                  *)
AddressChanged == GuessesCost /\ ConsumedOnce /\ AddressProven /\ ChecksPerLock

\* Requests and addresses are alike.
Symmetry == Permutations(Requests) \cup Permutations(Addresses)
=============================================================================
