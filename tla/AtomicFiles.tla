----------------------------- MODULE AtomicFiles -----------------------------
(***************************************************************************)
(* What storage.Driver promises of Put, PutNew (as PutUnique uses it), Get *)
(* and Delete: each call takes effect at one moment, whole or not at all.  *)
(* A file is {} or {its body}; the names PutUnique tries are a key's       *)
(* series.  What List promises is stated of the store itself.              *)
(***************************************************************************)
EXTENDS Integers, FiniteSets
CONSTANTS Clients, Keys, Bodies, Series(_)
VARIABLES files, call

Nothing == [op |-> "none", key |-> CHOOSE k \in Keys : TRUE, body |-> CHOOSE b \in Bodies : TRUE, status |-> "idle",
            ok |-> FALSE, at |-> {}, read |-> {}]
Init == files = [k \in Keys |-> {}] /\ call = [c \in Clients |-> Nothing]

Begin(c) ==
  /\ call[c].status = "idle"
  /\ \E op \in {"put", "unique", "get", "delete", "list"}, k \in Keys, b \in Bodies :
        call' = [call EXCEPT ![c] = [Nothing EXCEPT !.op = op, !.key = k, !.body = b, !.status = "called"]]
  /\ UNCHANGED files
Answers(c, ok, at, read) ==
  call[c].status = "called" /\ call' = [call EXCEPT ![c].status = "done", ![c].ok = ok, ![c].at = at, ![c].read = read]
Puts(c) == call[c].op = "put" /\ files' = [files EXCEPT ![call[c].key] = {call[c].body}] /\ Answers(c, TRUE, {call[c].key}, {})
PutsUnique(c) ==
  /\ call[c].op = "unique"
  /\ \E k \in Series(call[c].key) : files[k] = {} /\ files' = [files EXCEPT ![k] = {call[c].body}] /\ Answers(c, TRUE, {k}, {})
Deletes(c) == call[c].op = "delete" /\ files' = [files EXCEPT ![call[c].key] = {}] /\ Answers(c, TRUE, {}, {})
Gets(c) == call[c].op = "get" /\ Answers(c, files[call[c].key] # {}, {}, files[call[c].key]) /\ UNCHANGED files
Lists(c) == call[c].op = "list" /\ (\E listed \in SUBSET Keys : Answers(c, TRUE, listed, {})) /\ UNCHANGED files
Fails(c) == Answers(c, FALSE, {}, {}) /\ UNCHANGED files
Finish(c) == call[c].status = "done" /\ call' = [call EXCEPT ![c] = Nothing] /\ UNCHANGED files
Crash == call' = [c \in Clients |-> Nothing] /\ UNCHANGED files

Next ==
  Crash \/ \E c \in Clients : Begin(c) \/ Puts(c) \/ PutsUnique(c) \/ Deletes(c) \/ Gets(c) \/ Lists(c) \/ Fails(c) \/ Finish(c)
Spec == Init /\ [][Next]_<<files, call>>
=============================================================================
