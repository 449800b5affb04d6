----------------------------- MODULE StoragePool -----------------------------
(***************************************************************************)
(* storage/pool: the bounded pool of SFTP and FTP connections.  Get, Put    *)
(* and Close of many goroutines; the pool's mutex covers only parts of      *)
(* them: Get looks into the channel, then under the mutex, then dials or    *)
(* waits on the channel; Close closes the channel under the mutex, drains   *)
(* it without, and subtracts what it drained under the mutex again.  A      *)
(* closed channel still hands out what it holds.                            *)
(***************************************************************************)
EXTENDS Integers, FiniteSets

CONSTANTS
    Clients,      \* goroutines using the pool
    Conns,        \* names for connections; a closed one's name is used again
    None,         \* no connection
    Capacity      \* the pool's capacity

PoolAssumption ==
    /\ IsFiniteSet(Conns) /\ IsFiniteSet(Clients) /\ None \notin Conns
    /\ Capacity \in Nat \ {0}

VARIABLES
    conn,     \* where each connection is: none, idle in the channel, or out
    total,    \* the pool's count of its connections
    closed,   \* the pool is closed, and so is its channel
    closing,  \* how far Close is
    drained,  \* connections Close has closed so far
    at,       \* how far each client's Get is
    have      \* the connection a client holds

vars == <<conn, total, closed, closing, drained, at, have>>

Idle == {k \in Conns : conn[k] = "idle"}
Open == {k \in Conns : conn[k] # "none"}
Creating == {c \in Clients : at[c] = "creating"}
LessOne(n) == IF n - 1 < 0 THEN 0 ELSE n - 1

TypeOK ==
    /\ conn \in [Conns -> {"none", "idle", "out"}]
    /\ total \in 0..Capacity
    /\ closed \in BOOLEAN
    /\ closing \in {"no", "draining", "done"}
    /\ drained \in 0..Capacity
    /\ at \in [Clients -> {"away", "checking", "creating", "waiting", "holding"}]
    /\ have \in [Clients -> Conns \cup {None}]

Init ==
    /\ conn = [k \in Conns |-> "none"]
    /\ total = 0
    /\ closed = FALSE
    /\ closing = "no"
    /\ drained = 0
    /\ at = [c \in Clients |-> "away"]
    /\ have = [c \in Clients |-> None]

-----------------------------------------------------------------------------
Take(c, k) ==
    /\ conn[k] = "idle"
    /\ conn' = [conn EXCEPT ![k] = "out"]
    /\ at' = [at EXCEPT ![c] = "holding"]
    /\ have' = [have EXCEPT ![c] = k]

Move(c, place) == at' = [at EXCEPT ![c] = place]

(* Get, the fast path: an idle connection, if the channel has one.           *)
GetIdle(c) ==
    /\ at[c] = "away"
    /\ \E k \in Conns : Take(c, k)
    /\ UNCHANGED <<total, closed, closing, drained>>

GetMiss(c) ==
    /\ at[c] = "away"
    /\ Idle = {}
    /\ ~closed
    /\ Move(c, "checking")
    /\ UNCHANGED <<conn, total, closed, closing, drained, have>>

(* Get under the mutex.                                                      *)
Room == total < Capacity
GetLocked(c) ==
    /\ at[c] = "checking"
    /\ \/ closed /\ Move(c, "away") /\ UNCHANGED total
       \/ ~closed /\ Room /\ Move(c, "creating") /\ total' = total + 1
       \/ ~closed /\ ~Room /\ Move(c, "waiting") /\ UNCHANGED total
    /\ UNCHANGED <<conn, closed, closing, drained, have>>

(* The factory dialled, outside the mutex; the pool may have closed since.   *)
Created(c) ==
    /\ at[c] = "creating"
    /\ \E k \in Conns : /\ conn[k] = "none"
                        /\ conn' = [conn EXCEPT ![k] = "out"]
                        /\ have' = [have EXCEPT ![c] = k]
    /\ Move(c, "holding")
    /\ UNCHANGED <<total, closed, closing, drained>>

CreateFails(c) ==
    /\ at[c] = "creating"
    /\ total' = total - 1
    /\ Move(c, "away")
    /\ UNCHANGED <<conn, closed, closing, drained, have>>

(* Get waits for a connection, the end of the channel or of its context.     *)
WaitTakes(c) ==
    /\ at[c] = "waiting"
    /\ \E k \in Conns : Take(c, k)
    /\ UNCHANGED <<total, closed, closing, drained>>

ChannelEnds == closed /\ Idle = {}
WaitClosed(c) ==
    /\ at[c] = "waiting"
    /\ ChannelEnds
    /\ Move(c, "away")
    /\ UNCHANGED <<conn, total, closed, closing, drained, have>>

WaitCancelled(c) ==
    /\ at[c] = "waiting"
    /\ Move(c, "away")
    /\ UNCHANGED <<conn, total, closed, closing, drained, have>>

(* Put: the closed check and the send are one critical section.  The send    *)
(* finds the channel full only for a connection the pool never counted.      *)
UncheckedMutant == Cardinality(Idle) = Capacity
Discard == closed \/ Cardinality(Idle) = Capacity
Put(c) ==
    /\ at[c] = "holding"
    /\ \/ /\ Discard
          /\ total' = LessOne(total)
          /\ conn' = [conn EXCEPT ![have[c]] = "none"]
       \/ /\ ~Discard
          /\ conn' = [conn EXCEPT ![have[c]] = "idle"]
          /\ UNCHANGED total
    /\ Move(c, "away")
    /\ have' = [have EXCEPT ![c] = None]
    /\ UNCHANGED <<closed, closing, drained>>

-----------------------------------------------------------------------------
(* Close; a second call returns at once.                                     *)
Close ==
    /\ ~closed
    /\ closed' = TRUE
    /\ closing' = "draining"
    /\ UNCHANGED <<conn, total, drained, at, have>>

Drain ==
    /\ closing = "draining"
    /\ \E k \in Idle : conn' = [conn EXCEPT ![k] = "none"]
    /\ drained' = drained + 1
    /\ UNCHANGED <<total, closed, closing, at, have>>

DrainedTotal == IF total - drained < 0 THEN 0 ELSE total - drained
DrainEnd ==
    /\ closing = "draining"
    /\ Idle = {}
    /\ closing' = "done"
    /\ total' = DrainedTotal
    /\ drained' = 0
    /\ UNCHANGED <<conn, closed, at, have>>

Next ==
    \/ \E c \in Clients : GetIdle(c)
    \/ \E c \in Clients : GetMiss(c)
    \/ \E c \in Clients : GetLocked(c)
    \/ \E c \in Clients : Created(c)
    \/ \E c \in Clients : CreateFails(c)
    \/ \E c \in Clients : WaitTakes(c)
    \/ \E c \in Clients : WaitClosed(c)
    \/ \E c \in Clients : WaitCancelled(c)
    \/ \E c \in Clients : Put(c)
    \/ Close
    \/ Drain
    \/ DrainEnd

Spec == Init /\ [][Next]_vars

(* The runtime schedules every goroutine, dialling ends, users give their    *)
(* connections back, and a waiting receiver is served before later ones.     *)
(* Nobody has to close the pool or give up waiting.                          *)
FairSpec ==
    /\ Spec
    /\ \A c \in Clients : /\ WF_vars(GetLocked(c))
                          /\ WF_vars(Created(c) \/ CreateFails(c))
                          /\ WF_vars(Put(c))
                          /\ SF_vars(WaitTakes(c))
                          /\ WF_vars(WaitClosed(c))
    /\ WF_vars(Drain) /\ WF_vars(DrainEnd)

-----------------------------------------------------------------------------
(* The count is exact through races of Get, Put and Close: what is open,     *)
(* being dialled, or drained and not yet subtracted.                         *)
TotalCounts == total = Cardinality(Open) + Cardinality(Creating) + drained

(* Never more connections than the capacity, also while one is dialled.      *)
WithinCapacity == Cardinality(Open) + Cardinality(Creating) <= Capacity

(* Close leaves nothing behind: once it has returned and nobody holds or     *)
(* dials a connection, none is open, and no Put can leave one in the closed  *)
(* channel.                                                                  *)
NothingLeftOpen ==
    closing = "done" /\ (\A c \in Clients : at[c] \notin {"holding", "creating"}) => Open = {}

(* A Get that waits ends: it gets a connection, or hears of the close.  The  *)
(* exception is a pool left without any connection by failed dials, whose    *)
(* free places wake nobody.                                                  *)
GetEnds(c) == at[c] = "waiting" ~> at[c] # "waiting" \/ (Open = {} /\ ~closed)
WaitEnds == \A c \in Clients : GetEnds(c)
=============================================================================
