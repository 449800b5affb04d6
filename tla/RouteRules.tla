----------------------------- MODULE RouteRules -----------------------------
(***************************************************************************)
(* The route package without its state: what a declaration says (Spec and  *)
(* the methods that build it), what stops a route from being mounted, the  *)
(* chain that guards a mounted route, and what a contract still misses.    *)
(* A path is a sequence of segments; gin (external) refuses some pairs.    *)
(***************************************************************************)
EXTENDS Integers, Sequences, FiniteSets, SequencesExt

Literal(n) == [kind |-> "literal", name |-> n]
Param(n) == [kind |-> "param", name |-> n]
CatchAll(n) == [kind |-> "all", name |-> n]
Wild(seg) == seg.kind # "literal"

\* declare: the input is a struct with these path fields, route.None, or a
\* type that is no struct.
declare(id, method, path, in) ==
  [id |-> id, method |-> method, path |-> path, input |-> in.kind, pathFields |-> in.fields,
   untyped |-> FALSE, permission |-> "", anyOf |-> <<>>, allOf |-> <<>>,
   public |-> FALSE, personOnly |-> FALSE, authenticated |-> FALSE,
   groups |-> {}, excused |-> {}, own |-> {}, root |-> FALSE]
Struct(fields) == [kind |-> "struct", fields |-> fields]
NoInput == [kind |-> "none", fields |-> {}]
NotAStruct == [kind |-> "value", fields |-> {}]
Raw(id, method, path) == [declare(id, method, path, NoInput) EXCEPT !.untyped = TRUE]

\* require: chained, every one must hold.
Requires(spec, permission) ==
  IF spec.permission = "" THEN [spec EXCEPT !.permission = permission]
  ELSE [spec EXCEPT !.allOf = Append(@, permission)]
RequiresAny(spec, permissions) == [spec EXCEPT !.anyOf = permissions]
Public(spec) == [spec EXCEPT !.public = TRUE]
PersonOnly(spec) == [spec EXCEPT !.personOnly = TRUE]
Authenticated(spec) == [spec EXCEPT !.authenticated = TRUE]
Excuses(spec, ids) == [spec EXCEPT !.excused = @ \cup ids]
InGroup(spec, c) == [spec EXCEPT !.groups = @ \cup {c}]

Needs(spec) == (IF spec.permission = "" THEN <<>> ELSE <<spec.permission>>) \o spec.anyOf \o spec.allOf
DeclaresAccess(spec) == spec.public \/ spec.personOnly \/ spec.authenticated \/ Needs(spec) # <<>>

\* PathProblems: the parameters of the path and the path fields of the input
\* are the same names.
params(spec) == {spec.path[i].name : i \in {j \in DOMAIN spec.path : Wild(spec.path[j])}}
PathProblems(spec) ==
  IF spec.untyped \/ spec.input = "value" THEN {}
  ELSE {<<"path", p>> : p \in (params(spec) \ spec.pathFields) \cup (spec.pathFields \ params(spec))}

\* Security.check: sec is [authenticate: how many handlers, authorizer: set].
check(sec, spec) ==
  \/ Contains(Needs(spec), "")
  \/ /\ spec.public
     /\ Needs(spec) # <<>> \/ spec.personOnly \/ spec.authenticated
  \/ /\ ~spec.public
     /\ sec.authenticate = 0 \/ (Needs(spec) # <<>> /\ sec.authorizer = {})

\* Bound.Mount refuses: To noted the input type, or check does.
refusesToMount(sec, spec) == spec.input = "value" \/ check(sec, spec)

FirstOnlyMutant(sec, spec) ==
  IF spec.public THEN <<>>
  ELSE [i \in 1..sec.authenticate |-> [is |-> "authenticate", any |-> <<>>]]
       \o (IF spec.permission # "" THEN <<[is |-> "require", any |-> <<spec.permission>>]>> ELSE <<>>)

\* access: the handlers in front of the route's own, in order.
access(sec, spec) ==
  IF spec.public THEN <<>>
  ELSE [i \in 1..sec.authenticate |-> [is |-> "authenticate", any |-> <<>>]]
       \o (IF spec.personOnly THEN <<[is |-> "person", any |-> <<>>]>> ELSE <<>>)
       \o (IF spec.permission # "" THEN <<[is |-> "require", any |-> <<spec.permission>>]>> ELSE <<>>)
       \o (IF spec.anyOf # <<>> THEN <<[is |-> "require", any |-> spec.anyOf]>> ELSE <<>>)
       \o [i \in DOMAIN spec.allOf |-> [is |-> "require", any |-> <<spec.allOf[i]>>]]

\* One handler of the chain lets the caller on.  RequireAny asks in turn and
\* stops at the first answer that is not "not granted": an id the authorizer
\* does not know is an error, not a refusal to look further.
holdsOne(ids, caller, known) ==
  \E i \in DOMAIN ids : ids[i] \in caller.holds /\ \A j \in 1..i : ids[j] \in known
passes(handler, caller, known) ==
  CASE handler.is = "authenticate" -> caller.kind # "nobody"
    [] handler.is = "person" -> caller.kind # "service"
    [] handler.is = "require" -> holdsOne(handler.any, caller, known)
reachesHandler(chain, caller, known) == \A i \in DOMAIN chain : passes(chain[i], caller, known)

\* Contracts and Unhandled: every route declared in a group some handled route
\* belongs to is handled or excused.  declared is every declaration made.
Contracts(handled) == UNION {h.groups : h \in handled}
Unhandled(handled, declared) ==
  LET have == {h.id : h \in handled} \cup UNION {h.excused : h \in handled}
  IN {d \in declared : d.groups \cap Contracts(handled) # {} /\ d.id \notin have}

\* gin, one method tree: a path already there, two wildcards of different
\* names in one place, or a catch-all beside anything else in its place.
commonTo(p, q) == {i \in 1..Len(p) : i <= Len(q) /\ \A j \in 1..i : p[j] = q[j]}
clash(p, q) ==
  LET at == Cardinality(commonTo(p, q)) + 1
  IN \/ p = q
     \/ /\ at <= Len(p) /\ at <= Len(q)
        /\ \/ p[at].kind = "all" \/ q[at].kind = "all"
           \/ p[at].kind = "param" /\ q[at].kind = "param"
ginRefuses(there, method, path) == \E t \in there : t.method = method /\ clash(t.path, path)
=============================================================================
