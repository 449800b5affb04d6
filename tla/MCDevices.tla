----------------------------- MODULE MCDevices -----------------------------
(***************************************************************************)
(* What several processes and requests do to shared rows at once: the      *)
(* devices of people and the pushes to them, the guards every request      *)
(* passes, and the retention of old rows.  None of them touches another's  *)
(* state, so a behaviour is a behaviour of one of them: `scene` names it   *)
(* and the others stay in their initial state.                             *)
(***************************************************************************)
EXTENDS Notification, RequestGuards, Retention, TLC

CONSTANTS n1, n2, n3, p1, p2, e1

VARIABLE scene

(* One browser, which one or two people use.                                 *)
MCRecipient == [n \in Notes |-> p1]
MCDelay == [a \in 1..Steps |-> 1]

(* Two pushed notifications, which can be bundled, or one that is e-mailed and pushed.           *)
MCInit == Init /\ {n \in Notes : note[n] = "none"} \in {Mailed, Notes \ Mailed}

(* Two requests of a person, of nobody and of a page that needs no sign-in,  *)
(* one idempotency key, a shared limiter of one and a per-person limiter of  *)
(* one a window: enough for a duplicate while the first runs, after it       *)
(* failed, after its entry expired, and for a refused request.               *)
Ask(key, user, path, does) == [key |-> key, user |-> user, path |-> path, does |-> does]
MCAsks == {Ask("k1", "ana", "api", "ok"), Ask("k1", "ana", "api", "panic"),
           Ask("k1", "nobody", "page", "not_found"), Ask(NoKey, "ana", "api", "ok"),
           Ask(NoKey, "nobody", "api", "ok"), Ask(LongKey, "ana", "api", "ok")}
MCBudget == [l \in {"global", "ip", "user"} |-> CASE l = "global" -> 1 [] l = "ip" -> 0 [] OTHER -> 1]

\* The rules delete or redact; New refuses three of the sets of rules.
R(name, table, keep, set, valid) == [name |-> name, table |-> table, keep |-> keep, set |-> set, valid |-> valid]
MCRuleSets == {<<R("a", "t", 1, FALSE, TRUE)>>,
               <<R("a", "t", 1, FALSE, TRUE), R("b", "t", 1, TRUE, TRUE)>>,
               <<R("a", "t", 1, FALSE, TRUE), R("a", "t", 2, TRUE, TRUE)>>,
               <<R("a", "t", 0, FALSE, TRUE)>>, <<R("a", "t", 1, FALSE, FALSE)>>}

\* The processes that deliver are alike, and so are the requests and the commands.
Symmetry == Permutations(Callers)

DevicesInit ==
    /\ scene \in {"devices", "guards", "retention"}
    /\ MCInit /\ GuardsInit /\ RetentionInit
    /\ scene # "retention" => Len(rules) = 1

DeviceStep == scene = "devices" /\ Next /\ UNCHANGED <<scene, guardVars, retentionVars>>
GuardStep == scene = "guards" /\ GuardsNext /\ UNCHANGED <<scene, vars, retentionVars>>
RetentionStep == scene = "retention" /\ RetentionNext /\ UNCHANGED <<scene, vars, guardVars>>

\* Requests and commands are answered and the bounds used up.
AtRest == scene # "devices" /\ UNCHANGED <<scene, vars, guardVars, retentionVars>>

DevicesNext == DeviceStep \/ GuardStep \/ RetentionStep \/ AtRest
DevicesSpec == DevicesInit /\ [][DevicesNext]_<<scene, vars, guardVars, retentionVars>>

\* The deliveries alone, with the workers that must go on; and the guards alone.
OnlyDevices == scene = "devices" /\ DevicesInit
OnlyGuards == scene = "guards" /\ DevicesInit
RemovalSpec == OnlyDevices /\ [][DevicesNext]_<<scene, vars, guardVars, retentionVars>>
DeliverySpec == RemovalSpec /\ Fairness
ReplaySpec == OnlyGuards /\ [][DevicesNext]_<<scene, vars, guardVars, retentionVars>>
=============================================================================
