--------------------------- MODULE CircuitBreaker ---------------------------
(***************************************************************************)
(* httpclient: requests (Client.do) sent through the circuit breaker and    *)
(* the retry loop.  The breaker's mutex is held only to decide how a call   *)
(* runs and to record how it ended; requests run unlocked, so a request let *)
(* through while the breaker was closed may end when it is open, half-open  *)
(* or closed again.  A trial records its outcome and clears the trial flag  *)
(* in two separate critical sections.                                       *)
(***************************************************************************)
EXTENDS Integers, FiniteSets

CONSTANTS
    Callers,      \* goroutines that send requests, one at a time each
    Threshold,    \* failureThreshold
    OpenTimeout,  \* openTimeout
    Attempts,     \* retryAttempts
    Prompt        \* TRUE: requests let through by a closed breaker, and finished
                  \* trials, are over when the open period ends

ASSUME BreakerAssumption ==
    /\ Threshold \in Nat \ {0} /\ OpenTimeout \in Nat \ {0} /\ Attempts \in Nat \ {0}
    /\ IsFiniteSet(Callers) /\ Prompt \in BOOLEAN

VARIABLES
    state,     \* the breaker's state
    failures,  \* failures counted
    age,       \* time since openedAt, counted up to OpenTimeout
    trial,     \* trialInProgress
    call,      \* what each caller's request is doing
    attempt    \* the attempts its request has made

vars == <<state, failures, age, trial, call, attempt>>

TypeOK ==
    /\ state \in {"closed", "open", "halfOpen"}
    /\ failures \in Nat
    /\ age \in 0..OpenTimeout
    /\ trial \in BOOLEAN
    /\ call \in [Callers -> {"idle", "closed", "trial", "settled"}]
    /\ attempt \in [Callers -> 0..(Attempts - 1)]

Init ==
    /\ state = "closed"
    /\ failures = 0
    /\ age = 0
    /\ trial = FALSE
    /\ call = [c \in Callers |-> "idle"]
    /\ attempt = [c \in Callers |-> 0]

Enter(c, mode) ==
    /\ call' = [call EXCEPT ![c] = mode]
    /\ attempt' = [attempt EXCEPT ![c] = 0]

-----------------------------------------------------------------------------
(* Execute, under the mutex: let through, rejected, or sent as a trial.      *)
ExecuteClosed(c) ==
    /\ call[c] = "idle"
    /\ state = "closed"
    /\ Enter(c, "closed")
    /\ UNCHANGED <<state, failures, age, trial>>

Elapsed == age = OpenTimeout
NoTimeoutMutant == state = "halfOpen" /\ ~trial
MayTry == (state = "open" /\ Elapsed) \/ (state = "halfOpen" /\ ~trial)
ExecuteTrial(c) ==
    /\ call[c] = "idle"
    /\ MayTry
    /\ state' = "halfOpen"
    /\ trial' = TRUE
    /\ Enter(c, "trial")
    /\ UNCHANGED <<failures, age>>

(* ErrOpen.                                                                  *)
ExecuteRejected(c) ==
    /\ call[c] = "idle"
    /\ state # "closed" /\ ~MayTry
    /\ UNCHANGED vars

(* Retry: an attempt failed and is not the last; the request goes on.        *)
MoreAttempts(c) == attempt[c] + 1 < Attempts
AttemptFails(c) ==
    /\ call[c] \in {"closed", "trial"}
    /\ MoreAttempts(c)
    /\ attempt' = [attempt EXCEPT ![c] = attempt[c] + 1]
    /\ UNCHANGED <<state, failures, age, trial, call>>

(* A request sent while closed ends well, or fails: the last attempt failed, *)
(* the context ended, or it panicked.  The breaker's state is not looked at  *)
(* again.                                                                    *)
ClosedSucceeds(c) ==
    /\ call[c] = "closed"
    /\ failures' = 0
    /\ Enter(c, "idle")
    /\ UNCHANGED <<state, age, trial>>

Trips(n) == n >= Threshold
ClosedFails(c) ==
    /\ call[c] = "closed"
    /\ failures' = failures + 1
    /\ state' = IF Trips(failures + 1) THEN "open" ELSE state
    /\ age' = IF Trips(failures + 1) THEN 0 ELSE age
    /\ Enter(c, "idle")
    /\ UNCHANGED trial

-----------------------------------------------------------------------------
(* runTrial: the outcome is recorded ...                                     *)
TrialSucceeds(c) ==
    /\ call[c] = "trial"
    /\ state' = "closed"
    /\ failures' = 0
    /\ Enter(c, "settled")
    /\ UNCHANGED <<age, trial>>

TrialFails(c) ==
    /\ call[c] = "trial"
    /\ state' = "open"
    /\ age' = 0
    /\ failures' = 0
    /\ Enter(c, "settled")
    /\ UNCHANGED trial

(* ... or nothing is, when it panics; ...                                    *)
AfterPanicMutant == "idle"
AfterPanic == "settled"
TrialPanics(c) ==
    /\ call[c] = "trial"
    /\ Enter(c, AfterPanic)
    /\ UNCHANGED <<state, failures, age, trial>>

(* ... and then the deferred function clears the flag.                       *)
ClearTrial(c) ==
    /\ call[c] = "settled"
    /\ trial' = FALSE
    /\ Enter(c, "idle")
    /\ UNCHANGED <<state, failures, age>>

(* Time passes while the breaker is open or half-open.                       *)
Tick ==
    /\ age < OpenTimeout
    /\ Prompt /\ age + 1 = OpenTimeout => \A c \in Callers : call[c] \in {"idle", "trial"}
    /\ age' = age + 1
    /\ UNCHANGED <<state, failures, trial, call, attempt>>

Next ==
    \/ \E c \in Callers : ExecuteClosed(c)
    \/ \E c \in Callers : ExecuteTrial(c)
    \/ \E c \in Callers : ExecuteRejected(c)
    \/ \E c \in Callers : AttemptFails(c)
    \/ \E c \in Callers : ClosedSucceeds(c)
    \/ \E c \in Callers : ClosedFails(c)
    \/ \E c \in Callers : TrialSucceeds(c)
    \/ \E c \in Callers : TrialFails(c)
    \/ \E c \in Callers : TrialPanics(c)
    \/ \E c \in Callers : ClearTrial(c)
    \/ Tick

Spec == Init /\ [][Next]_vars

(* Requests keep coming, each ends (its http.Client has a timeout and the    *)
(* retry loop is finite), deferred functions run, and time passes.           *)
Ends(c) == ClosedSucceeds(c) \/ ClosedFails(c) \/ TrialSucceeds(c) \/ TrialFails(c) \/ TrialPanics(c)
FairSpec ==
    /\ Spec
    /\ WF_vars(Tick)
    /\ \A c \in Callers : WF_vars(ExecuteClosed(c) \/ ExecuteTrial(c))
    /\ \A c \in Callers : WF_vars(Ends(c))
    /\ \A c \in Callers : WF_vars(ClearTrial(c))

-----------------------------------------------------------------------------
(* "HALF-OPEN: a single trial call is allowed".                              *)
SingleTrial ==
    \A c, d \in Callers : call[c] = "trial" /\ call[d] = "trial" => c = d

(* A closed breaker has room for a failure: whatever late outcomes were      *)
(* added to the count while it was open or on trial, it closes with a clean  *)
(* count and opens at the threshold.                                         *)
ClosedHasRoom == state = "closed" => failures < Threshold

(* Rejections end: the trial flag is set only while some trial is running or *)
(* about to clear it, so a half-open breaker never rejects on behalf of a    *)
(* request that is gone.                                                     *)
FlagHasTrial == trial => \E c \in Callers : call[c] \in {"trial", "settled"}

(* While requests keep coming the breaker lets one through again and again:  *)
(* after any failures, panics and late outcomes it is never stuck.           *)
LetsThroughAgain == []<>(\E c \in Callers : call[c] \in {"closed", "trial"})

(* An open breaker does not stay open: late failures can restart the open    *)
(* period, but only as many as were under way.                               *)
OpenEnds == state = "open" ~> state # "open"
=============================================================================
