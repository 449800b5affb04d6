------------------------------ MODULE MCSignIn ------------------------------
(***************************************************************************)
(* People and their accounts: signing in, sessions and locks, and the      *)
(* administration of accounts with its history.  A behaviour is a          *)
(* behaviour of one of them: `scene` names it and the other stays in its   *)
(* initial state.                                                          *)
(***************************************************************************)
EXTENDS SignIn, AccountAdmin, TLC

VARIABLE scene

\* Three forms that share a login or an address, one too wide, and a person's own two.
Form1 == [login |-> "ana", name |-> "Ana", email |-> "a@x", phone |-> "1", locale |-> "hr"]
Form2 == [login |-> "iva", name |-> "Iva", email |-> "a@x", phone |-> "1", locale |-> "hr"]
Form3 == [login |-> "iva", name |-> "Ana", email |-> "b@x", phone |-> "2", locale |-> "hr"]
Form4 == [login |-> "ana", name |-> "wide", email |-> "b@x", phone |-> "2", locale |-> "hr"]

MCForms == {Form1, Form2, Form3, Form4}
MCOwnForms == {[name |-> "Iva", phone |-> "1"], [name |-> "Ana", phone |-> "2"]}
MCAccountIds == 1..2
MCInReach == 1..2

\* Requests, people and passwords are alike.
Symmetry == Permutations(Requests) \cup Permutations(People) \cup Permutations(Passwords)

PeopleInit ==
    /\ scene \in {"signin", "accounts"}
    /\ Init /\ AdminInit
    /\ scene = "accounts" => /\ \A p \in People : active[p] /\ latest[p] = <<>> /\ window[p].count = 0
                             /\ session[1].actor = Nobody

SignInStep == scene = "signin" /\ Next /\ UNCHANGED <<scene, aaVars>>
AccountStep == scene = "accounts" /\ AdminNext /\ UNCHANGED <<scene, vars>>

\* The bounded requests of the administration are used up.
AtRest == scene = "accounts" /\ UNCHANGED <<scene, vars, aaVars>>

PeopleNext == SignInStep \/ AccountStep \/ AtRest
PeopleSpec == PeopleInit /\ [][PeopleNext]_<<scene, vars, aaVars>>

-----------------------------------------------------------------------------
=============================================================================
