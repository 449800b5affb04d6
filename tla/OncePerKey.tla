----------------------------- MODULE OncePerKey -----------------------------
(***************************************************************************)
(* What an idempotency key promises, without the store, the channels and   *)
(* the timers that keep the promise: of the requests that carry one key at *)
(* most one is being worked on, none is worked on while an earlier answer  *)
(* is kept, and whoever is not worked on is given an answer that work on   *)
(* the same key produced.                                                  *)
(***************************************************************************)
CONSTANTS Reqs, Keys, Answers

VARIABLES working,  \* working[k]: the requests of key k being worked on
          kept,     \* kept[k]: an answer of key k is kept for later requests
          produced, \* produced[k]: the answers that work on key k produced
          given,    \* given[r]: the kept answer request r was given, {} for none
          carries   \* carries[r]: the key of request r, {} for none

onceVars == <<working, kept, produced, given, carries>>

OnceInit == /\ working = [k \in Keys |-> {}]
            /\ kept = [k \in Keys |-> FALSE]
            /\ produced = [k \in Keys |-> {}]
            /\ given = [r \in Reqs |-> {}]
            /\ carries = [r \in Reqs |-> {}]

Bring(r) == /\ carries[r] = {}
            /\ \E k \in Keys : carries' = [carries EXCEPT ![r] = {k}]
            /\ UNCHANGED <<working, kept, produced, given>>

\* Work on a key begins only when none is under way and no answer is kept.
Begin(k) == /\ working[k] = {}
            /\ ~kept[k]
            /\ \E r \in Reqs : carries[r] = {k} /\ working' = [working EXCEPT ![k] = {r}]
            /\ UNCHANGED <<kept, produced, given, carries>>

End(k) == /\ working[k] # {}
          /\ working' = [working EXCEPT ![k] = {}]
          /\ kept' = [kept EXCEPT ![k] = TRUE]
          /\ \E a \in Answers : produced' = [produced EXCEPT ![k] = @ \cup {a}]
          /\ UNCHANGED <<given, carries>>

Give(r) == /\ given[r] = {}
           /\ \E k \in carries[r] : \E a \in produced[k] :
                 given' = [given EXCEPT ![r] = {a}]
           /\ UNCHANGED <<working, kept, produced, carries>>

Drop(k) == /\ kept[k]
           /\ kept' = [kept EXCEPT ![k] = FALSE]
           /\ UNCHANGED <<working, produced, given, carries>>

OnceNext == \/ \E k \in Keys : Begin(k) \/ End(k) \/ Drop(k)
            \/ \E r \in Reqs : Bring(r) \/ Give(r)

OnceSpec == OnceInit /\ [][OnceNext]_onceVars
=============================================================================
