------------------------------ MODULE Retention ------------------------------
(***************************************************************************)
(* retention.Pruner: rules delete, or redact, the rows of a table that are *)
(* past their window, in bounded batches, each statement on its own.  Any  *)
(* number of db:prune commands run at once, with the application writing   *)
(* rows meanwhile.  A rule is [name, table, keep, set, valid]: set says    *)
(* that it redacts, valid stands for the checks of identifiers and         *)
(* parameter names.  A redacted row no longer matches its rule, as Rule's  *)
(* comment requires.                                                       *)
(***************************************************************************)
EXTENDS Integers, Sequences, FiniteSets

CONSTANTS Pruners,       \* commands running
          RuleSets,      \* what the application may pass to New: sequences of rules
          Selections,    \* the names of rules a command may be given
          Tables,
          BatchSize,
          MaxClock,      \* bound: the clock
          MaxRows        \* bound: rows ever written

ASSUME RetentionAssumption ==
    /\ BatchSize \in Nat \ {0} /\ MaxClock \in Nat /\ MaxRows \in Nat
    /\ \A rs \in RuleSets : Len(rs) \in Nat /\ \A i \in 1..Len(rs) : rs[i].keep \in Int /\ rs[i].set \in BOOLEAN

VARIABLES clock,
          rows,      \* rows[i]: [table, stamp, state]; state "kept", "redacted" or "deleted"
          rules,     \* the rules in force
          pruner     \* pruner[p]: what command p is doing

retentionVars == <<clock, rows, rules, pruner>>

NobodyPrunes == [at |-> "idle", dry |-> FALSE, only |-> {}, now |-> 0, rule |-> 1, failed |-> FALSE]

\* check, setClause: a rule that New accepts.
check(r) == r.valid /\ r.keep > 0
\* New: every rule is checked, and a name may be used once.
Accepted(rs) == /\ \A i \in 1..Len(rs) : check(rs[i])
                /\ \A i, j \in 1..Len(rs) : rs[i].name = rs[j].name => i = j

RetentionInit == /\ clock = 0 /\ rows = <<>>
                 /\ rules \in {rs \in RuleSets : Accepted(rs)}
                 /\ pruner = [p \in Pruners |-> NobodyPrunes]

\* pick: every rule, or those named, in the order given to New.
pick(only) == {i \in 1..Len(rules) : only = {} \/ rules[i].name \in only}
unknown(only) == only \ {rules[i].name : i \in 1..Len(rules)}

ruleOf(p) == rules[pruner[p].rule]
\* The run's one reading of the clock, less the rule's window.
cutoff(p) == pruner[p].now - ruleOf(p).keep
\* prepare: the WHERE of a rule, with its cutoff.
Matches(r, c) == {i \in 1..Len(rows) : rows[i].table = r.table /\ rows[i].stamp < c /\ rows[i].state = "kept"}

---------------------------------------------------------------------------
\* The application writes a row, stamped with the time; time passes.
WriteRow(t) ==
    /\ Len(rows) < MaxRows
    /\ rows' = Append(rows, [table |-> t, stamp |-> clock, state |-> "kept"])
    /\ UNCHANGED <<clock, rules, pruner>>
TimePasses ==
    /\ clock < MaxClock
    /\ clock' = clock + 1
    /\ UNCHANGED <<rows, rules, pruner>>

\* Run: an unknown name stops it before anything runs; the clock is read once.
Run(p, dry, only) ==
    /\ pruner[p].at = "idle"
    /\ pruner' = [pruner EXCEPT ![p] = IF unknown(only) # {} THEN [@ EXCEPT !.at = "done", !.failed = TRUE]
                                       ELSE [@ EXCEPT !.at = "next", !.dry = dry, !.only = only, !.now = clock]]
    /\ UNCHANGED <<clock, rows, rules>>

\* Run's loop: the next rule, or the end; a cancelled context ends it.
NextRule(p) ==
    LET left == {i \in pick(pruner[p].only) : i >= pruner[p].rule}
    IN /\ pruner[p].at = "next"
       /\ \/ left = {} /\ pruner' = [pruner EXCEPT ![p].at = "done", ![p].rule = 1]
          \/ \E i \in left : /\ \A j \in left : i <= j
                             /\ pruner' = [pruner EXCEPT ![p].at = "count", ![p].rule = i]
       /\ UNCHANGED <<clock, rows, rules>>
Cancelled(p) ==
    /\ pruner[p].at \in {"next", "batch"}
    /\ pruner' = [pruner EXCEPT ![p] = [NobodyPrunes EXCEPT !.at = "done", !.failed = TRUE, !.dry = pruner[p].dry]]
    /\ UNCHANGED <<clock, rows, rules>>

\* runRule: count, and stop there on a dry run; a statement that fails ends
\* the rule and not the run.
Count(p) ==
    /\ pruner[p].at = "count"
    /\ \/ pruner' = [pruner EXCEPT ![p].at = IF pruner[p].dry THEN "next" ELSE "batch",
                                   ![p].rule = IF pruner[p].dry THEN @ + 1 ELSE @]
       \/ pruner' = [pruner EXCEPT ![p].at = "next", ![p].failed = TRUE, ![p].rule = @ + 1]
    /\ UNCHANGED <<clock, rows, rules>>

\* One DELETE or UPDATE ... ORDER BY ... LIMIT: the oldest rows that match.
FirstOf(S, n) == {i \in S : Cardinality({j \in S : j < i}) < n}
\* A batch that comes back short is the rule's last.
OneBatchMutant(n) == TRUE
Short(n) == n < BatchSize
Batch(p) ==
    LET hit == FirstOf(Matches(ruleOf(p), cutoff(p)), BatchSize)
    IN /\ pruner[p].at = "batch"
       /\ rows' = [i \in DOMAIN rows |-> IF i \in hit THEN [rows[i] EXCEPT !.state = IF ruleOf(p).set THEN "redacted" ELSE "deleted"]
                                         ELSE rows[i]]
       /\ pruner' = [pruner EXCEPT ![p].at = IF Short(Cardinality(hit)) THEN "next" ELSE @,
                                   ![p].rule = IF Short(Cardinality(hit)) THEN @ + 1 ELSE @]
       /\ UNCHANGED <<clock, rules>>
BatchFails(p) ==
    /\ pruner[p].at = "batch"
    /\ pruner' = [pruner EXCEPT ![p].at = "next", ![p].failed = TRUE, ![p].rule = @ + 1]
    /\ UNCHANGED <<clock, rows, rules>>

Prunes(p) == NextRule(p) \/ Count(p) \/ Batch(p)
RetentionNext ==
    \/ \E t \in Tables : WriteRow(t)
    \/ TimePasses
    \/ \E p \in Pruners : \/ \E dry \in BOOLEAN, only \in Selections : Run(p, dry, only)
                          \/ Prunes(p) \/ Cancelled(p) \/ BatchFails(p)

RetentionSpec == RetentionInit /\ [][RetentionNext]_retentionVars

---------------------------------------------------------------------------
\* Rule i has no row left that was past its window at a time.
Cleared(i, now) == Matches(rules[i], now - rules[i].keep) = {}

(* A run that ends without an error has left no row of its rules that was     *)
(* past its window when the run began, in however many batches and with       *)
(* whatever other runs between them; a dry run has changed nothing, and what  *)
(* a statement did change was past its window (Run, runRule).                 *)
BacklogCleared ==
    /\ \A p \in Pruners : pruner[p].at = "done" /\ ~pruner[p].failed /\ ~pruner[p].dry =>
         \A i \in pick(pruner[p].only) : Cleared(i, pruner[p].now)
    /\ \A i \in 1..Len(rows) : rows[i].state # "kept" =>
         /\ \E p \in Pruners : pruner[p].at # "idle" /\ ~pruner[p].dry
         /\ \E j \in 1..Len(rules) : /\ rules[j].set = (rows[i].state = "redacted")
                                     /\ rows[i].stamp < clock - rules[j].keep

===========================================================================
