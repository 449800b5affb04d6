-------------------------------- MODULE Inputs --------------------------------
(***************************************************************************)
(* What a request brings, and what it must be, on the server and in the    *)
(* browser: binding and the rules of a field, the schema generated from    *)
(* them, the keys that fill the fields, and the generated TypeScript       *)
(* files; whom it comes from; and its body and files: the disks and keys   *)
(* they are kept under, how they come in and how they go out.              *)
(***************************************************************************)
EXTENDS Integers, Sequences, FiniteSets, SequencesExt, TLC

-------------------------------------------------------------------------------
(***************************************************************************)
(* What a request's value becomes and whether it is accepted: binding      *)
(* (internal/binders) and then the field's rules (validation).             *)
(*                                                                         *)
(* A value is [k, n, core, of]: a string of n characters, core of them     *)
(* left when trimmed, being one of the formats of; a number of n halves; a *)
(* bool; a list of n elements; null.  A type is [base, ptr]; byte stands   *)
(* for a type of its own (type Level uint8) whose kind is uint8.           *)
(***************************************************************************)

Value(k, n, core, of) == [k |-> k, n |-> n, core |-> core, of |-> of]
Str(n, core, of) == Value("string", n, core, of)
Number(halves) == Value("number", halves, 0, {})
Null == Value("null", 0, 0, {})
Bool(b) == Value("bool", b, 0, {})
List(n) == Value("list", n, 0, {})
Failed == Value("failed", 0, 0, {})

Formats == {"email", "url", "uuid", "year", "month", "date", "date_time"}
Ints == {"int", "int8"}
Uints == {"uint", "uint8", "byte"}
Floats == {"float"}
Numbers == Ints \cup Uints \cup Floats

\* What SetInt and SetUint keep of a number: 8 bits of the 8-bit kinds.
kept(base, i) == CASE base = "int8" -> ((i + 128) % 256) - 128
                   [] base \in {"uint8", "byte"} -> i % 256
                   [] OTHER -> i

Zero(base) == IF base = "string" THEN Str(0, 0, {}) ELSE IF base = "bool" THEN Bool(0)
              ELSE IF base = "list" THEN List(0) ELSE Number(0)

(********************************* binding **********************************)

\* coerceFloat64: a fraction is refused by the signed kinds; the unsigned ones
\* drop it.
whole(h) == IF h >= 0 THEN h \div 2 ELSE -((-h) \div 2)
coerceFloat64(base, v) ==
  CASE base \in Floats -> v
    [] base \in Ints -> IF v.n % 2 # 0 THEN Failed ELSE Number(2 * kept(base, whole(v.n)))
    [] base \in Uints -> IF v.n < 0 THEN Failed ELSE Number(2 * kept(base, whole(v.n)))
    [] OTHER -> Failed

\* coerceString: only a form, a path or a query may write a number or a bool as
\* text; of says which number the text is, if any.
coerceString(base, v, isMultipart) ==
  IF base = "string" THEN v
    ELSE IF base = "list" THEN Failed
    ELSE IF ~isMultipart THEN Failed
    ELSE IF v.n = 0 \/ "null" \in v.of THEN Zero(base)
    ELSE IF base = "bool" THEN IF {"true", "one"} \cap v.of # {} THEN Bool(1)
                        ELSE IF {"false", "zero"} \cap v.of # {} THEN Bool(0) ELSE Failed
    ELSE IF base \in Floats \/ (base \in Ints /\ v.core % 2 = 0) \/ (base \in Uints /\ v.core >= 0 /\ v.core % 2 = 0)
         THEN IF "digits" \in v.of THEN (IF base \in Floats THEN Number(v.core) ELSE Number(2 * kept(base, v.core \div 2)))
            ELSE Failed
    ELSE Failed

coerceBool(base, v) == IF base = "bool" THEN v ELSE Failed
coerceSlice(base, v) == IF base = "list" THEN v ELSE Failed
coerceKind(base, v, isMultipart) ==
  CASE v.k = "string" -> coerceString(base, v, isMultipart)
    [] v.k = "number" -> coerceFloat64(base, v)
    [] v.k = "bool" -> coerceBool(base, v)
    [] v.k = "list" -> coerceSlice(base, v)

\* bind and coercePointer: an absent or null value leaves the field as it was,
\* nil for a pointer.
coerceValue(type, v, isMultipart) ==
  IF v.k = "null" THEN (IF type.ptr THEN Null ELSE Zero(type.base))
  ELSE coerceKind(type.base, v, isMultipart)

(********************************** rules ***********************************)

\* trimStruct runs before any rule.
trimField(v) == IF v.k = "string" THEN Str(v.core, v.core, v.of) ELSE v

\* A pointer that is not nil is always there, unless it points to a blank text.
isPresent(type, v) ==
  CASE v.k = "null" -> FALSE
    [] v.k = "string" -> v.core > 0
    [] v.k = "list" -> type.ptr \/ v.n > 0
    [] OTHER -> TRUE
isOptionalZeroValue(type, v) ==
  IF type.ptr THEN v.k = "null"
  ELSE IF v.k = "string" THEN v.core = 0 ELSE v.n = 0

\* hasRule, and the answer of one rule: it passes, fails, or is misused.
hasRule(rules, name) == \E i \in DOMAIN rules : rules[i].name = name

RequiredRule(type, v) ==
  IF ~isPresent(type, v) THEN "fails"
  ELSE IF ~type.ptr /\ type.base = "bool" THEN "misused"
  ELSE IF ~type.ptr /\ type.base \in Numbers /\ v.n = 0 THEN "fails" ELSE "passes"

\* Min, max and between compare a text's length, a list's length or the number.
\* They convert the bound to the width of an unsigned number first; of a type of
\* its own, which only reflection knows, to 64 bits.
bound(base, b) == IF base = "uint8" THEN b % 256 ELSE IF base \in Uints /\ b < 0 THEN b + 2^20 ELSE b
size(v) == IF v.k = "number" THEN v.n ELSE 2 * v.n
sized(v) == v.k \notin {"null", "bool"}
skipped(type, v, required) == ~isPresent(type, v) /\ ~required
MinRule(type, v, b, required) ==
  IF ~skipped(type, v, required) /\ sized(v) /\ size(v) < 2 * bound(type.base, b) THEN "fails" ELSE "passes"
MaxRule(type, v, b, required) ==
  IF ~skipped(type, v, required) /\ sized(v) /\ size(v) > 2 * bound(type.base, b) THEN "fails" ELSE "passes"
parseBetweenArgs(r) == r.a <= r.b
BetweenRule(type, v, r, required) ==
  IF skipped(type, v, required) THEN "passes"
    ELSE IF ~parseBetweenArgs(r) THEN "misused"
    ELSE IF sized(v) /\ size(v) >= 2 * bound(type.base, r.a) /\ size(v) <= 2 * bound(type.base, r.b) THEN "passes"
    ELSE "fails"

lengthOf(v) == IF v.k \in {"string", "list"} THEN {v.n} ELSE {}
LenRule(type, v, b, required) ==
  IF skipped(type, v, required) \/ lengthOf(v) = {b} THEN "passes" ELSE "fails"

InRule(type, v, r, required) ==
  IF (~required /\ isOptionalZeroValue(type, v)) \/ (~type.ptr /\ v \in r.in) THEN "passes" ELSE "fails"

\* The format rules look at a string only; a pointer to one is not a string.
notText(type) == type.base # "string" \/ type.ptr
ofFormat(name, type, v, required) ==
  IF notText(type) THEN (IF skipped(type, v, required) THEN "passes" ELSE "fails")
  ELSE IF (v.n = 0 /\ ~required) \/ (v.n = v.core /\ name \in v.of) THEN "passes" ELSE "fails"
\* EmailRule takes a nil pointer for a value that was given.
EmailRule(type, v, required) == IF notText(type) THEN "fails" ELSE ofFormat("email", type, v, required)
URLRule(type, v, required) == ofFormat("url", type, v, required)
UUIDRule(type, v, required) == ofFormat("uuid", type, v, required)
DateRule(type, v, required) == ofFormat("date", type, v, required)
DateTimeRule(type, v, required) == ofFormat("date_time", type, v, required)
YearRule(type, v, required) == ofFormat("year", type, v, required)
MonthRule(type, v, required) == ofFormat("month", type, v, required)

\* The rules that look at another field of the input (lookupSubjectFieldValue).
RequiredIfRule(type, v, r, other) == IF other = r.when /\ ~isPresent(type, v) THEN "fails" ELSE "passes"
SameRule(v, other) == IF v = other THEN "passes" ELSE "fails"
ConfirmedRule(v, other) == IF v = other THEN "passes" ELSE "fails"
DifferentRule(v, other) == IF v = other THEN "fails" ELSE "passes"

ruleFunc(r, type, v, required, other) ==
  CASE r.name = "required" -> RequiredRule(type, v)
    [] r.name = "required_if" -> RequiredIfRule(type, v, r, other)
    [] r.name = "same" -> SameRule(v, other)
    [] r.name = "confirmed" -> ConfirmedRule(v, other)
    [] r.name = "different" -> DifferentRule(v, other)
    [] r.name = "trim" -> "passes"
    [] r.name = "min" -> MinRule(type, v, r.a, required)
    [] r.name = "max" -> MaxRule(type, v, r.a, required)
    [] r.name = "between" -> BetweenRule(type, v, r, required)
    [] r.name = "len" -> LenRule(type, v, r.a, required)
    [] r.name = "in" -> InRule(type, v, r, required)
    [] r.name = "email" -> EmailRule(type, v, required)
    [] r.name = "url" -> URLRule(type, v, required)
    [] r.name = "uuid" -> UUIDRule(type, v, required)
    [] r.name = "date" -> DateRule(type, v, required)
    [] r.name = "date_time" -> DateTimeRule(type, v, required)
    [] r.name = "year" -> YearRule(type, v, required)
    [] r.name = "month" -> MonthRule(type, v, required)

\* A required_if whose condition holds makes the field required for the other
\* rules too.
isRequiredIfConditionMet(rules, other) ==
  \E i \in DOMAIN rules : rules[i].name = "required_if" /\ other = rules[i].when

\* validateFields: every rule of the field is asked; a misused one ends it.
validateField(rules, type, v, other) ==
  LET required == hasRule(rules, "required") \/ isRequiredIfConditionMet(rules, other)
      answers == {ruleFunc(rules[i], type, v, required, other) : i \in DOMAIN rules}
  IN IF "misused" \in answers THEN "misused" ELSE IF "fails" \in answers THEN "fails" ELSE "passes"

\* Validate trims first.
Validate(rules, type, v, other) ==
  validateField(rules, type, IF hasRule(rules, "trim") THEN trimField(v) ELSE v, other)

\* The server takes the value: it binds, and it passes.
accepts(rules, type, v, isMultipart, other) ==
  LET b == coerceValue(type, v, isMultipart)
  IN b # Failed /\ Validate(rules, type, b, other) = "passes"

\* checkTrim, at start-up: trim is for text that no list of values restricts.
checkTrim(rules, type) == hasRule(rules, "trim") => type.base = "string" /\ ~hasRule(rules, "in")

\* A field that is required on a condition is, where the condition holds, the
\* required field, and elsewhere the optional one.
ConditionAgrees(type, rules, v, when, other) ==
  LET conditional == Append(rules, [name |-> "required_if", a |-> 0, b |-> 0, in |-> {}, when |-> when])
      required == Append(rules, [name |-> "required", a |-> 0, b |-> 0, in |-> {}, when |-> ""])
  IN (type.ptr \/ type.base \in {"string", "list"}) =>
     (accepts(conditional, type, v, FALSE, other) <=>
      accepts(IF other = when THEN required ELSE rules, type, v, FALSE, other))

-------------------------------------------------------------------------------
(***************************************************************************)
(* go2ts: the Zod schema a browser checks a field with, built from the     *)
(* same type and rules the server validates by.  A schema is the base type *)
(* and the calls chained on it; Zod (external) is what they accept.        *)
(***************************************************************************)

\* mapGoTypeToZodBase.
zodBase(type) == CASE type.base \in Ints \cup Uints -> "int"
                   [] type.base \in Floats -> "number"
                   [] OTHER -> type.base
isStringBase(type) == type.base = "string"
isNumericBase(type) == type.base \in Numbers /\ ~type.ptr

\* One rule's call on the schema.
Call(name, a) == [call |-> name, a |-> a]
callOf(r, type) ==
  CASE r.name = "required" -> IF isStringBase(type) THEN <<Call("min", 1)>> ELSE <<>>
    [] r.name \in {"min", "max"} -> <<Call(r.name, r.a)>>
    [] r.name = "between" -> <<Call("min", r.a), Call("max", r.b)>>
    [] r.name = "len" -> <<Call(IF isStringBase(type) THEN "length" ELSE "digits", r.a)>>
    [] r.name \in Formats -> <<Call(r.name, 0)>>
    [] OTHER -> <<>>

\* fieldToZodExpr: in replaces the whole expression, nullable included; an
\* optional format may be empty, a required number may not be zero.
ZeroAllowedMutant(type, rules) ==
  [base |-> zodBase(type), in |-> {rules[i].in : i \in {j \in DOMAIN rules : rules[j].name = "in"}},
   trim |-> hasRule(rules, "trim"),
   calls |-> FoldLeft(LAMBDA acc, r : acc \o callOf(r, type), <<>>, rules),
   nonZero |-> FALSE, orEmpty |-> FALSE, nullable |-> type.ptr]

fieldToZodExpr(type, rules) ==
  LET required == hasRule(rules, "required")
      formatted == \E i \in DOMAIN rules : rules[i].name \in Formats
      listed == {rules[i].in : i \in {j \in DOMAIN rules : rules[j].name = "in"}}
  IN [base |-> zodBase(type), in |-> listed,
      trim |-> hasRule(rules, "trim"),
      calls |-> FoldLeft(LAMBDA acc, r : acc \o callOf(r, type), <<>>, rules),
      nonZero |-> required /\ isNumericBase(type),
      orEmpty |-> formatted /\ ~required /\ ~type.ptr,
      nullable |-> type.ptr /\ listed = {}]

\* Zod: one call, and the chain.  min and max of a string or a list are
\* lengths; a base that has no such call makes a schema that does not load.
digits(h) == IF h < 20 /\ h > -20 THEN 1 ELSE IF h < 200 THEN 2 ELSE 3
called(c, v) ==
  CASE c.call = "min" -> size(v) >= 2 * c.a
    [] c.call = "max" -> size(v) <= 2 * c.a
    [] c.call = "length" -> v.n = c.a
    [] c.call = "digits" -> v.k = "number" /\ digits(v.n) = c.a
    [] OTHER -> v.n = v.core /\ c.call \in v.of
ofBase(base, v) ==
  CASE base = "int" -> v.k = "number" /\ v.n % 2 = 0
    [] base = "number" -> v.k = "number"
    [] base = "bool" -> v.k = "bool"
    [] base = "string" -> v.k = "string"
    [] base = "list" -> v.k = "list"
parses(schema, v) ==
  LET input == IF schema.trim THEN trimField(v) ELSE v
  IN \/ schema.in # {} /\ \E S \in schema.in : v \in S
     \/ /\ schema.in = {}
        /\ \/ /\ ofBase(schema.base, input)
              /\ \A i \in DOMAIN schema.calls : called(schema.calls[i], input)
              /\ schema.nonZero => input.n # 0
           \/ schema.orEmpty /\ v.k = "string" /\ v.n = 0
           \/ schema.nullable /\ v.k = "null"

\* Where the schema and the server are known to part: a number outside an
\* unsigned or a narrow kind, a bound that the kind cannot hold, for the numbers
\* whose side of it its conversion changes (max:300 of a uint8 is 44), an untrimmed
\* blank or an empty list that is required, a length asked of what has none, a format or a list of
\* values asked of a pointer, another rule beside a list of values, required
\* asked of a bool or of a nil pointer, a between the wrong way round.
ConversionTells(type, r, v) ==
  r.name \in {"min", "max", "between"} /\ ruleFunc(r, type, v, TRUE, "") # ruleFunc(r, [type EXCEPT !.base = "int"], v, TRUE, "")
PartsFromServer(type, rules, v) ==
  \/ /\ v.k = "number" /\ type.base \in Ints \cup Uints
     /\ (v.n < 0 /\ type.base \in Uints) \/ kept(type.base, whole(v.n)) # whole(v.n)
  \/ v.k = "number" /\ \E i \in DOMAIN rules : ConversionTells(type, rules[i], v)
  \/ v.k = "string" /\ v.core = 0 /\ v.n > 0
  \/ v = List(0) /\ ~type.ptr /\ hasRule(rules, "required")
  \/ v.k # "string" /\ hasRule(rules, "len")
  \/ type.ptr /\ \E i \in DOMAIN rules : rules[i].name \in Formats \cup {"in"}
  \/ hasRule(rules, "in") /\ \E i \in DOMAIN rules : rules[i].name \notin {"in", "required"}
  \/ (type.base = "bool" \/ v = Null) /\ hasRule(rules, "required")
  \/ \E i \in DOMAIN rules : rules[i].name = "between" /\ ~parseBetweenArgs(rules[i])

\* What the browser lets through, the server takes.
SchemaSound(type, rules, v) ==
  parses(fieldToZodExpr(type, rules), v) /\ ~PartsFromServer(type, rules, v) => accepts(rules, type, v, FALSE, "")

\* A number sent in a form, a path or a query binds to what the same number
\* sent as JSON binds to.
FormAgrees(type, h) ==
  h % 2 = 0 =>
  LET asText == Str(1, h, {"digits"})
  IN coerceValue(type, asText, TRUE) = coerceValue(type, Number(h), FALSE)

-------------------------------------------------------------------------------
(***************************************************************************)
(* Which field of an input a key of the request fills, and under which     *)
(* name its failure is reported.  An input is a sequence of fields         *)
(*   [name, form, json, path, query, other, embeds, free]                  *)
(* where form, json, path and query are the tags ("" when there is none),  *)
(* other says whether any other tag is there, embeds the fields of an      *)
(* embedded struct (<<>> for a plain field) and free that it is an         *)
(* url.Values.                                                             *)
(***************************************************************************)

Embedded(f) == f.embeds # <<>>

\* The name of a field in a body: its form tag, else its json tag; "-" is none.
resolveKey(f) == IF f.form # "" THEN (IF f.form = "-" THEN "" ELSE f.form)
                 ELSE IF f.json = "-" THEN "" ELSE f.json
isPromoted(f) == Embedded(f) /\ f.json = "" /\ f.form = ""
isURLParam(f) == f.path # "" \/ f.query # ""

\* A URL parameter of an embedded struct is not a field of the body.
isBodyField(f, embedded) == resolveKey(f) # "" /\ ~(embedded /\ isURLParam(f))

\* The fields of a body: embedded structs give theirs to the parent.
RECURSIVE appendFieldMeta(_, _)
appendFieldMeta(fields, embedded) ==
  FoldLeft(LAMBDA acc, f : IF isPromoted(f) THEN acc \o appendFieldMeta(f.embeds, TRUE)
                           ELSE IF isBodyField(f, embedded) THEN Append(acc, f) ELSE acc, <<>>, fields)
buildFieldMeta(fields) == appendFieldMeta(fields, FALSE)

\* bindFields: the fields a path or a query fills, embedded ones too.
tagOf(f, tag) == IF tag = "path" THEN f.path ELSE f.query
RECURSIVE bindFields(_, _)
bindFields(fields, tag) ==
  FoldLeft(LAMBDA acc, f : IF Embedded(f) /\ tagOf(f, tag) = "" THEN acc \o bindFields(f.embeds, tag)
                           ELSE Append(acc, f), <<>>, fields)
FreeForm == "*"
isFreeForm(f) == f.query = FreeForm /\ f.free
bindField(f, tag, keys) == {k \in keys : k = tagOf(f, tag) /\ k # "-" /\ k # ""}
declaredKeys(fields, tag) == {tagOf(f, tag) : f \in Range(bindFields(fields, tag))} \ {"", FreeForm}

\* What each field takes of the query.
BindStrings(fields, tag, keys) ==
  LET flat == bindFields(fields, tag)
  IN [i \in DOMAIN flat |-> IF tag = "query" /\ isFreeForm(flat[i]) THEN keys \ declaredKeys(fields, tag)
                            ELSE bindField(flat[i], tag, keys)]

FreeFormFields(fields) == {f \in Range(bindFields(fields, "query")) : f.query = FreeForm}
CheckFreeForm(fields) ==
  /\ Cardinality({i \in DOMAIN bindFields(fields, "query") : bindFields(fields, "query")[i].query = FreeForm}) <= 1
  /\ \A f \in FreeFormFields(fields) : f.free

\* The validator's own list of the fields, and the name each one fails under.
RECURSIVE flattenEmbedded(_)
flattenEmbedded(fields) ==
  FoldLeft(LAMBDA acc, f : IF isPromoted(f) /\ ~isURLParam(f) /\ ~f.other THEN acc \o flattenEmbedded(f.embeds)
                           ELSE Append(acc, f), <<>>, fields)
computeAliasFromTag(f) == IF f.form \notin {"", "-"} THEN f.form ELSE IF f.json \notin {"", "-"} THEN f.json ELSE ""
alias(f) == IF computeAliasFromTag(f) = "" THEN f.name ELSE computeAliasFromTag(f)

\* go2ts: the fields of the generated type and schema, and their names.
wireName(f) == LET tags == <<f.json, f.path, f.query, f.form>>
                   given == {i \in 1..4 : tags[i] \notin {"", "-"}}
               IN IF given = {} THEN f.name ELSE tags[CHOOSE i \in given : \A j \in given : i <= j]
promoted(f) == Embedded(f) /\ f.json = ""
RECURSIVE appendWireFields(_, _)
appendWireFields(fields, embedded) ==
  FoldLeft(LAMBDA acc, f : IF promoted(f) THEN acc \o appendWireFields(f.embeds, TRUE)
                           ELSE IF f.query = FreeForm \/ (embedded /\ isURLParam(f)) THEN acc ELSE Append(acc, f), <<>>, fields)
wireFields(fields) == SelectSeq(appendWireFields(fields, FALSE), LAMBDA f : f.json # "-")

\* An embedded struct with a tag of its own is promoted by some readers of the
\* input and not by others.
Untagged(fields) == \A f \in Range(fields) : Embedded(f) => ~isURLParam(f) /\ ~f.other /\ f.json = "" /\ f.form = ""

\* Every key of a query that is not a declared one reaches the free-form field,
\* and no key reaches both it and a declared field.
QueryShared(fields, keys) ==
  CheckFreeForm(fields) =>
    LET flat == bindFields(fields, "query")  got == BindStrings(fields, "query", keys)
    IN \A i, j \in DOMAIN flat :
         /\ isFreeForm(flat[i]) /\ ~isFreeForm(flat[j]) => got[i] \cap got[j] = {}
         /\ isFreeForm(flat[i]) => UNION {got[k] : k \in DOMAIN flat} = keys

\* What an embedded struct takes from the path or the query the body cannot
\* write; a body field fails under the key it was sent as; and a body field named
\* by its json tag has that name in the generated type.
BodyKeepsOff(fields) ==
  /\ \A f \in Range(fields) : isPromoted(f) =>
       \A g \in Range(f.embeds) : isURLParam(g) => g \notin Range(buildFieldMeta(fields))
  /\ Untagged(fields) => \A f \in Range(buildFieldMeta(fields)) : f \in Range(flattenEmbedded(fields)) /\ alias(f) = resolveKey(f)
  /\ \A f \in Range(buildFieldMeta(fields)) : f.form = "" /\ f.query # FreeForm =>
       f \in Range(wireFields(fields)) /\ wireName(f) = resolveKey(f)

-------------------------------------------------------------------------------
(***************************************************************************)
(* ts:generate: the names the generated TypeScript files get (go2ts) and   *)
(* how a folder that is checked in is brought up to date or only compared  *)
(* (go2ts.Sync and Drift, gocore/tsgenerate.go).                           *)
(*                                                                         *)
(* A type is [key, base, refs, enum]: the identity of the Go type, its own *)
(* name, the types of its fields in order, and "no", "declared" or         *)
(* "if used".  A name is a sequence of base names.                         *)
(***************************************************************************)

NoContext == [names |-> <<>>, owners |-> <<>>, processed |-> {}, files |-> <<>>]
with(f, k, v) == (k :> v) @@ f

\* GenContext.resolveTypeName: the first type of a name keeps it; a nested one
\* that finds it taken puts its parent's name in front.

resolveTypeName(ctx, t, parent) ==
  IF t.key \in DOMAIN ctx.names THEN ctx
  ELSE LET taken == <<t.base>> \in DOMAIN ctx.owners /\ ctx.owners[<<t.base>>] # t.key /\ parent # <<>>
           name == IF taken THEN Append(parent, t.base) ELSE <<t.base>>
       IN [ctx EXCEPT !.names = with(@, t.key, name), !.owners = with(@, name, t.key)]

\* unwrapEntry: an entry with a name of its own (As) has it before anything else.
unwrapEntry(ctx, entry) ==
  IF entry.as = <<>> THEN ctx
  ELSE [ctx EXCEPT !.names = with(@, entry.type.key, entry.as), !.owners = with(@, entry.as, entry.type.key)]

\* mapGoTypeToTs, for every field: the names of the types it refers to.
mapFields(ctx, t, name) == FoldLeft(LAMBDA acc, r : resolveTypeName(acc, r, name), ctx, t.refs)

\* structToTs and structToZod, with the file GenerateTypes and GenerateSchemas
\* then write: once per name.
structToTs(ctx, t) ==
  LET named == resolveTypeName(ctx, t, <<>>)
      name == named.names[t.key]
      mapped == mapFields([named EXCEPT !.processed = @ \cup {name}], t, name)
  IN IF name \in named.processed THEN [ctx |-> named, children |-> <<>>]
     ELSE [ctx |-> [mapped EXCEPT !.files = with(@, name, [of |-> t.key, imports |-> {mapped.names[r.key] : r \in Range(t.refs)}])],
           children |-> t.refs]

\* writeEnum: an enum that is only declared is written when something uses it.
writeEnum(ctx, t, used) ==
  LET named == resolveTypeName(ctx, t, <<>>)
      name == named.names[t.key]
  IN IF (t.enum = "if used" /\ ~used) THEN ctx
     ELSE IF name \in named.processed THEN named
     ELSE [named EXCEPT !.processed = @ \cup {name}, !.files = with(@, name, [of |-> t.key, imports |-> {}])]

\* The queue of GenerateTypes and GenerateSchemas: the listed entries, then what
\* they use.
RECURSIVE pending(_, _)
pending(ctx, queue) ==
  IF queue = <<>> THEN ctx
  ELSE LET t == Head(queue).type
           step == structToTs(ctx, t)
           found == [i \in DOMAIN step.children |-> [type |-> step.children[i], as |-> <<>>, used |-> TRUE]]
       IN IF t.enum # "no" THEN pending(writeEnum(ctx, t, Head(queue).used), Tail(queue))
          ELSE pending(step.ctx, Tail(queue) \o found)

GenerateTypes(entities) ==
  pending(FoldLeft(unwrapEntry, NoContext, entities),
          [i \in DOMAIN entities |-> [type |-> entities[i].type, as |-> entities[i].as, used |-> FALSE]])

\* Every import names a file that was written; and where listed names are not
\* the names of other types, nor a type refers to two types of one name, the file
\* a name stands for is the type's own.
ImportsResolve(entities, types) ==
  LET out == GenerateTypes(entities)
      names == {[key |-> entities[i].type.key, name |-> IF entities[i].as = <<>> THEN <<entities[i].type.base>> ELSE entities[i].as] :
                  i \in DOMAIN entities}
      apart == /\ \A a, b \in names : a.name = b.name => a.key = b.key
               /\ \A e \in {entities[i] : i \in DOMAIN entities} : e.as = <<>> =>
                    \A b \in types : e.type.base = b.base => e.type.key = b.key
               /\ \A t \in types : \A a, b \in Range(t.refs) : a.base = b.base => a = b
  IN /\ \A n \in DOMAIN out.files : out.files[n].imports \subseteq DOMAIN out.files
     /\ apart => \A t \in types : t.key \in DOMAIN out.names /\ out.names[t.key] \in DOMAIN out.files =>
                   out.files[out.names[t.key]].of = t.key

(******************************** the folder ********************************)

\* A folder maps the names of its files to their content; a name is [name, ext].
isTs(n) == n.ext = ".ts"

\* Sync: files that differ are written, stale .ts files removed; nothing else.
copyChanged(dir, gen) == [n \in DOMAIN dir \cup DOMAIN gen |-> IF n \in DOMAIN gen THEN gen[n] ELSE dir[n]]
removeStale(dir, written) == [n \in {m \in DOMAIN dir : isTs(m) => m \in written} |-> dir[n]]
Sync(dir, gen) == IF gen.fails THEN dir ELSE removeStale(copyChanged(dir, gen.files), DOMAIN gen.files)

\* Drift: what Sync would write or delete.
OnlyMissingMutant(dir, gen) == {n \in DOMAIN gen : n \notin DOMAIN dir}
differing(dir, gen) == {n \in DOMAIN gen : n \notin DOMAIN dir \/ dir[n] # gen[n]}
Drift(dir, gen) == differing(dir, gen.files) \cup {n \in DOMAIN dir : isTs(n) /\ n \notin DOMAIN gen.files}

\* syncTypes and driftTypes: an empty list leaves the folder alone.
syncTypes(dir, gen) == IF gen.listed = 0 THEN dir ELSE Sync(dir, gen)
driftTypes(dir, gen) == IF gen.listed = 0 THEN {} ELSE Drift(dir, gen)

\* generateRoutes removes the folder first; treeDrift compares all of it.
generateRoutes(dir, gen) == IF gen.fails THEN <<>> ELSE gen.files
treeDrift(dir, gen) == differing(dir, gen.files) \cup (DOMAIN dir \ DOMAIN gen.files)

\* generatePermissions: none, the one catalogue's file, or an error.
generatePermissions(dir, gen) == IF gen.listed = 1 /\ ~gen.fails THEN gen.files @@ dir ELSE dir
driftPermissions(dir, gen) == IF gen.listed = 1 THEN differing(dir, gen.files) ELSE {}

generatePart(part, dir, gen) ==
  CASE part \in {"entities", "schemas"} -> syncTypes(dir, gen)
    [] part = "permissions" -> generatePermissions(dir, gen)
    [] part = "routes" -> generateRoutes(dir, gen)
driftOf(part, dir, gen) ==
  CASE part \in {"entities", "schemas"} -> driftTypes(dir, gen)
    [] part = "permissions" -> driftPermissions(dir, gen)
    [] part = "routes" -> treeDrift(dir, gen)

changed(a, b) == {n \in DOMAIN a \cup DOMAIN b : n \notin DOMAIN a \/ n \notin DOMAIN b \/ (n \in DOMAIN a \cap DOMAIN b /\ a[n] # b[n])}

\* ts:generate --check lists the files ts:generate would change, and none after
\* it; a generator that fails leaves the types and schemas as they were.
CheckAgrees(part, dir, gen) ==
  LET after == generatePart(part, dir, gen)
  IN IF gen.fails THEN part # "routes" => after = dir
     ELSE driftOf(part, dir, gen) = changed(dir, after) /\ driftOf(part, after, gen) = {}

-------------------------------------------------------------------------------
(***************************************************************************)
(* identity/http: whom a request comes from, and the cookies of a session. *)
(***************************************************************************)

-----------------------------------------------------------------------------
(* Who the request is by: Authenticator.Middleware.  A request is           *)
(* [key, bearer, cookie, method]: sets of at most one credential; the live  *)
(* sessions and keys say whose they are.                                    *)

\* tokenOf: the bearer header, even an empty one, else the cookie.
tokenOf(req) == IF req.bearer # {} THEN req.bearer ELSE req.cookie
SignedIn(acc, token) == [kind |-> "person", id |-> acc.account, session |-> acc.session, token |-> token]
KeyCaller(id) == [kind |-> "service", id |-> id, session |-> 0, token |-> ""]
Unknown == [kind |-> "nobody", id |-> 0, session |-> 0, token |-> ""]

bySession(req, sessions) ==
  LET held == {t \in tokenOf(req) : t \in DOMAIN sessions}
  IN IF held = {} THEN Unknown ELSE LET t == CHOOSE x \in held : TRUE IN SignedIn(sessions[t], t)
byKey(req, keys) ==
  LET held == {k \in req.key : k \in DOMAIN keys}
  IN IF held = {} THEN Unknown ELSE KeyCaller(keys[CHOOSE k \in held : TRUE])

Middleware(req, app) == IF app.hasKeys /\ req.key # {} THEN byKey(req, app.keys) ELSE bySession(req, app.sessions)

\* Authenticated and keyRequest: what the application's RequestUser is given.
keyRequest(c) == [account |-> {}, serviceAccount |-> {c.id}]
RequestUser(c) == IF c.kind = "service" THEN keyRequest(c) ELSE [account |-> {c.id}, serviceAccount |-> {}]
\* serve: the request goes on when the application made a user of the caller
\* and the user is within the rate limit.
serve(c, app) == c # Unknown /\ app.makesUser /\ app.withinLimit
\* Keys.record: a row for a request by a key that was not a read and went on.
record(req, app) ==
  LET c == Middleware(req, app)
  IN IF c.kind = "service" /\ serve(c, app) /\ app.trail /\ req.method \notin {"GET", "HEAD", "OPTIONS"} THEN {c.id} ELSE {}

-----------------------------------------------------------------------------
(* The cookies.  served is the prefix the application is mounted under,     *)
(* declared the path of the route that answers.                             *)

withDefaults(c) ==
  [c EXCEPT !.Access = IF @ = "" THEN "access_token" ELSE @, !.Refresh = IF @ = "" THEN "refresh_token" ELSE @,
            !.AccessPath = IF @ = <<>> THEN <<"/">> ELSE @]
base == <<"v1", "auth">>
Refresh == Append(base, "refresh")
CutSuffix(at, declared) ==
  IF Len(declared) <= Len(at) /\ SubSeq(at, Len(at) - Len(declared) + 1, Len(at)) = declared
  THEN SubSeq(at, 1, Len(at) - Len(declared)) ELSE at
refreshPath(c, at, declared) == IF c.RefreshPath # <<>> THEN c.RefreshPath ELSE CutSuffix(at, declared) \o Refresh
cookie(c, name, value, path, maxAge) == [name |-> name, path |-> path, domain |-> c.Domain, value |-> value, maxAge |-> maxAge]
setCookies(c, at, declared, token, renew, life) ==
  {cookie(c, c.Access, token, c.AccessPath, life), cookie(c, c.Refresh, renew, refreshPath(c, at, declared), life * 2)}
clearCookies(c, at, declared) ==
  {cookie(c, c.Access, "", c.AccessPath, -1), cookie(c, c.Refresh, "", refreshPath(c, at, declared), -1)}
\* A browser keeps one cookie per name, path and domain, while it lives.
keep(jar, sent) ==
  {k \in jar : ~\E s \in sent : s.name = k.name /\ s.path = k.path /\ s.domain = k.domain} \cup {s \in sent : s.maxAge > 0}

(* Whichever route opened the session (login, refresh, login-as, return),   *)
(* the refresh cookie goes to the refresh route as served and nowhere else, *)
(* and logging out leaves the browser no cookie (Cookies.refreshPath, set,  *)
(* clear).                                                                  *)
CookiesAgree(settings, served, opened) ==
  LET c == withDefaults(settings) out == Append(base, "logout")
      jar == keep({}, setCookies(c, served \o opened, opened, "a", "r", 2))
      again == keep(jar, setCookies(c, served \o Refresh, Refresh, "a2", "r2", 2))
  IN /\ Cardinality(jar) = 2 /\ Cardinality(again) = 2
     /\ c.RefreshPath = <<>> => \A k \in again : k.name = c.Refresh => k.path = served \o Refresh
     /\ \A j \in {jar, again} : keep(j, clearCookies(c, served \o out, out)) = {}

(* A request is somebody by exactly one credential: with an API key it is   *)
(* that service account and nobody else, whatever session it also carries,  *)
(* and its changes leave a row (Middleware, byKey, record).                 *)
OneCredential(req, app) ==
  LET c == Middleware(req, app) u == RequestUser(c)
  IN /\ app.hasKeys /\ req.key # {} => c.kind # "person"
     /\ c # Unknown => Cardinality(u.account \cup u.serviceAccount) = 1 /\ (u.account = {} \/ u.serviceAccount = {})
     /\ record(req, app) # {} => c.kind = "service" /\ record(req, app) = u.serviceAccount
     /\ c.kind = "service" /\ serve(c, app) /\ app.trail /\ req.method = "POST" => record(req, app) # {}

-------------------------------------------------------------------------------
(***************************************************************************)
(* How a disk is described and registered (storage/disk.go), how a folder  *)
(* of one resolves and lists its keys (storage/files.go), where the two    *)
(* drivers keep a key, and the names made safe for them.  A key is the     *)
(* sequence of its segments, split at "/": "" is <<"">>, "/a" is <<"",     *)
(* "a">>, "a/" is <<"a", "">>.  A name is a sequence of characters, of     *)
(* which "n" stands for a control character and "e" for one outside ASCII. *)
(* What is on a disk is the set of the places of its files.                *)
(***************************************************************************)

\* path.Clean of a relative path, and filepath.Join of the root with a key.
back(done, seg) == IF done # <<>> /\ Last(done) # ".." THEN Front(done) ELSE Append(done, seg)
resolved(key) ==
  FoldLeft(LAMBDA done, seg : CASE seg \in {"", "."} -> done [] seg = ".." -> back(done, seg) [] OTHER -> Append(done, seg), <<>>, key)
Clean(key) == IF resolved(key) = <<>> THEN <<".">> ELSE resolved(key)
Backslash == "a\\b"

NoDotsMutant(key) == key # <<"">> /\ key[1] # "" /\ ~Contains(key, Backslash) /\ Clean(key) = key
checkKey(key) == /\ key # <<"">> /\ key[1] # "" /\ ~Contains(key, Backslash) /\ Clean(key) = key
                 /\ ~Contains(key, "..")
join(prefix, key) == IF prefix = <<>> THEN key ELSE prefix \o key

\* A disk's files, or a folder's; err is why every call fails.
Files(driver, disk, url, public) == [driver |-> driver, disk |-> disk, prefix |-> <<>>, base |-> url, public |-> public, err |-> {}]
Folder(f, prefix) ==
  IF f.err # {} THEN f
    ELSE IF ~checkKey(prefix) THEN [f EXCEPT !.err = {"key"}]
    ELSE [f EXCEPT !.prefix = join(@, prefix)]
resolve(f, key) ==
  IF f.err # {} THEN [ok |-> FALSE, key |-> <<>>]
    ELSE IF ~checkKey(key) THEN [ok |-> FALSE, key |-> <<>>]
    ELSE [ok |-> TRUE, key |-> join(f.prefix, key)]

\* Where a driver keeps a key: the file system cleans it, the map does not.
escapes(key) == Clean(key)[1] = ".."
safePath(key) == IF key = <<"">> \/ escapes(key) THEN [ok |-> FALSE, at |-> <<>>] ELSE [ok |-> TRUE, at |-> resolved(key)]
place(driver, key) == IF driver = "local" THEN safePath(key).at ELSE key
\* What a driver lists under a directory.
localList(places, dir) == {p \in places : IsPrefix(resolved(dir), p)}
memoryList(places, dir) == {p \in places : dir = <<>> \/ IsPrefix(dir, p)}
driverList(driver, places, dir) == IF driver = "local" THEN localList(places, dir) ELSE memoryList(places, dir)

withoutSlash(key) == IF Len(key) > 1 /\ Last(key) = "" THEN Front(key) ELSE key
listed(f, places, prefix) ==
  LET asked == withoutSlash(prefix)
      dir == IF asked = <<"">> THEN f.prefix ELSE resolve(f, asked).key
      below(p) == Len(p) > Len(f.prefix) /\ IsPrefix(f.prefix, p)
  IN IF f.err # {} \/ (asked # <<"">> /\ ~resolve(f, asked).ok) THEN [ok |-> FALSE, keys |-> {}]
     ELSE [ok |-> TRUE,
           keys |-> {SubSeq(p, Len(f.prefix) + 1, Len(p)) : p \in {q \in driverList(f.driver, places, dir) : f.prefix = <<>> \/ below(q)}}]
PublicPath(f) == IF f.public /\ f.base[1] = "/" THEN {f.base} ELSE {}
URL(f, key) == IF resolve(f, key).ok /\ f.public THEN {<<f.base, resolve(f, key).key>>} ELSE {}

\* A description: the calls made on Disk(name), in their order.
Described(name) == [name |-> name, driver |-> {}, public |-> FALSE, base |-> <<>>, err |-> {}]
withDriver(s, driver, err) ==
  LET all == err \cup (IF s.driver # {} THEN {"two drivers"} ELSE {})
  IN [s EXCEPT !.driver = IF all = {} THEN driver ELSE @, !.err = @ \cup all]
Local(s, usable) == IF usable THEN withDriver(s, {"local"}, {}) ELSE withDriver(s, {}, {"root"})
Memory(s) == withDriver(s, {"memory"}, {})
Driver(s, driver) == withDriver(s, driver, {})
\* A base URL is what it begins with: "/", "http://", or something else.
PublicAt(s, url) == [s EXCEPT !.public = TRUE, !.base = url, !.err = @ \cup (IF url[1] \in {"/", "http"} THEN {} ELSE {"base"})]
said(s, say) ==
  CASE say = "local" -> Local(s, TRUE) [] say = "no root" -> Local(s, FALSE) [] say = "memory" -> Memory(s)
    [] say = "none" -> Driver(s, {}) [] say = "media" -> PublicAt(s, <<"/", "media">>) [] say = "cdn" -> PublicAt(s, <<"http", "cdn">>)
    [] OTHER -> PublicAt(s, <<"media">>)
Disk(name, says) == FoldLeft(said, Described(name), says)
Add(disks, spec) ==
  IF spec.name \in {"", " a"} \/ spec.name \in DOMAIN disks \/ spec.err # {} \/ spec.driver = {} THEN disks
  ELSE [n \in DOMAIN disks \cup {spec.name} |->
          IF n \in DOMAIN disks THEN disks[n]
          ELSE Files(CHOOSE d \in spec.driver : TRUE, n, IF spec.public THEN spec.base ELSE <<>>, spec.public)]
\* Use also reports the unknown disk, which stops the start.
Use(disks, name) ==
  IF name \in DOMAIN disks THEN disks[name] ELSE [Files("local", name, <<>>, FALSE) EXCEPT !.err = {"unknown"}]

-----------------------------------------------------------------------------
\* The names of files.  Trim, and what follows the last separator.
trimmed(name, drop) ==
  LET left == {i \in DOMAIN name : name[i] \notin drop} IN
  IF left = {} THEN <<>> ELSE SubSeq(name, CHOOSE i \in left : \A j \in left : i <= j, CHOOSE i \in left : \A j \in left : j <= i)
afterLast(name, seps) == SubSeq(name, 1 + Cardinality({i \in DOMAIN name : \E j \in i..Len(name) : name[j] \in seps}), Len(name))
trimmedRight(name, drop) == SubSeq(name, 1, Cardinality({i \in DOMAIN name : \E j \in i..Len(name) : name[j] \notin drop}))
\* path.Base: trailing slashes dropped; "." of nothing, "/" of slashes alone.
Base(name) ==
  IF name = <<>> THEN <<".">> ELSE IF trimmedRight(name, {"/"}) = <<>> THEN <<"/">> ELSE afterLast(trimmedRight(name, {"/"}), {"/"})
lower(c) == IF c = "A" THEN "a" ELSE c
isWord(c) == c \in {"a", "A", ".", "e"}
SafeName(name) ==
  LET slashed(n) == [i \in DOMAIN n |-> IF n[i] = "\\" THEN "/" ELSE n[i]]
      bare == Base(slashed(trimmed(name, {" ", "n"})))
      folded == FoldLeft(LAMBDA out, c : IF isWord(c) THEN Append(out, lower(c))
                                           ELSE IF out # <<>> /\ Last(out) = "-" THEN out ELSE Append(out, "-"), <<>>, bare)
      clean == trimmed(folded, {"-", "."})
  IN IF clean = <<>> THEN <<"document">> ELSE clean
sanitiseFilename(raw) ==
  LET name == IF Base(raw) = <<".">> THEN <<"upload">> ELSE Base(raw)
  IN [i \in DOMAIN name |-> IF name[i] \in {"a", "A", ".", "-", "upload"} THEN name[i] ELSE "_"]
\* A name's bytes: two for a character outside ASCII.
bytes(c) == IF c = "e" THEN 2 ELSE 1
byteLen(name) == FoldLeft(LAMBDA n, c : n + bytes(c), 0, name)
maxDispositionName == 3
cleanDispositionName(name) ==
  LET bare == trimmed(SelectSeq(afterLast(name, {"/", "\\"}), LAMBDA c : c # "n"), {" "})
      cut == Cardinality({i \in DOMAIN bare : byteLen(SubSeq(bare, 1, i)) <= maxDispositionName})
  IN IF bare \in {<<".">>, <<".", ".">>} THEN <<>> ELSE SubSeq(bare, 1, cut)
asciiDispositionName(name) == [i \in DOMAIN name |-> IF name[i] \in {"e", "n"} THEN "_" ELSE name[i]]
\* mime.FormatMediaType gives a name outside ASCII as filename*= only.
Disposition(kind, name) ==
  LET clean == cleanDispositionName(name)
      ascii == asciiDispositionName(clean)
  IN [kind |-> IF kind = "inline" THEN kind ELSE "attachment",
      filename |-> IF clean = <<>> THEN {} ELSE {ascii}, utf8 |-> IF clean = <<>> \/ ascii = clean THEN {} ELSE {clean}]

-----------------------------------------------------------------------------
(* A key a folder accepts is kept inside it and listed there by the name it *)
(* was stored under; what is outside is not listed, and a folder in a       *)
(* folder is inside it (Files.Folder: "Nothing outside it can be read,      *)
(* listed or deleted through the result, and folders nest").  The key "."   *)
(* alone, which checkKey lets pass, is left out.                            *)
FoldersKeep(driver, outer, inner, key, others) ==
  LET f == Folder(Files(driver, "d", <<>>, FALSE), outer)
      g == Folder(f, inner)
      at == place(driver, resolve(g, key).key)
      places == {place(driver, k) : k \in others} \cup {at}
  IN resolve(g, key).ok /\ <<".">> \notin {outer, inner, key}
     => /\ IsPrefix(outer \o inner, at) /\ Len(at) > Len(outer \o inner)
        /\ key \in listed(g, places, <<"">>).keys /\ (inner \o key) \in listed(f, places, <<"">>).keys
        /\ \A k \in listed(g, places, <<"">>).keys : (outer \o inner \o k) \in places
        /\ listed(g, places, inner).ok => \A k \in listed(g, places, inner).keys : IsPrefix(inner, k)

(* A disk is registered just when its description names it, names one       *)
(* driver that works and a base URL that is one; the first of a name stays, *)
(* a private disk has no URL, and only a path is served (Registry.Add,      *)
(* Files.URL, PublicPath).                                                  *)
DisksAsDescribed(name, first, second) ==
  LET once == Add(<<>>, Disk(name, first))
      twice == Add(once, Disk(name, second))
      drivers(says) == SelectSeq(says, LAMBDA say : say \in {"local", "memory"})
      wrong(says) == Contains(says, "no root") \/ Contains(says, "bad base")
      public(says) == Contains(says, "media") \/ Contains(says, "cdn")
      good(says) == name \notin {"", " a"} /\ Len(drivers(says)) = 1 /\ ~wrong(says)
      f == Use(once, name)
  IN \* Naming no driver after one is naming a second.
     ~(\E says \in {first, second} : Contains(says, "none")) =>
     /\ (name \in DOMAIN once) = good(first) /\ (f.err = {}) = good(first)
     /\ (good(first) => twice = once /\ f.driver = drivers(first)[1]) /\ (~good(first) => (twice # <<>>) = good(second))
     /\ good(first) => (URL(f, <<"a">>) # {}) = public(first)
     /\ PublicPath(f) # {} => Contains(first, "media")

(* A client's name made safe is one key no folder refuses, the same when    *)
(* made safe again; the name a download offers holds no separator and no    *)
(* control character, within its length (SafeName, Disposition).            *)
NamesSafe(name) ==
  LET safe == SafeName(name)
      offer == Disposition("inline", name)
      is(cs) == \A i \in DOMAIN safe : safe[i] \in cs
  IN /\ is({"a", ".", "-", "e", "document"}) /\ safe # <<>> /\ Last(safe) \notin {".", "-"} /\ safe[1] \notin {".", "-"}
     /\ (safe # <<"document">> => SafeName(safe) = safe)
     /\ sanitiseFilename(name) # <<>> /\ ~Contains(sanitiseFilename(name), "/")
     /\ \A n \in offer.filename \cup offer.utf8 : ~\E c \in {"/", "\\", "n"} : Contains(n, c)
     /\ \A n \in offer.utf8 : byteLen(n) <= maxDispositionName /\ Len(n) = Len(CHOOSE a \in offer.filename : TRUE)

-------------------------------------------------------------------------------
(***************************************************************************)
(* Bodies that come in and files that go out: the limit on a request's     *)
(* body (web/bodylimit.go), an uploaded file checked and saved             *)
(* (web/upload), and a stored file served (web/serve.go).  Sizes are       *)
(* megabytes, a type is what the sniffer says of the content, and temps    *)
(* counts the temporary files a call leaves behind.                        *)
(***************************************************************************)

multipartOverheadLimit == 1
defaultMaxSize == 5

\* A body and the limits it is read under.
capBody(req, limits, limit) == IF limit <= 0 \/ req.multipart THEN limits ELSE limits \cup {limit}
BodyLimit(req, limit) == capBody(req, {}, limit)
BodyLimitFor(req, limits, limit) == capBody(req, {}, limit)
readsBody(req, limits) == \A limit \in limits : req.size <= limit

photos == {"image/jpeg", "image/png"}
resolveAllowedMime(config) ==
  IF config.AllowedMime # {} THEN config.AllowedMime ELSE IF config.IsPhoto THEN photos
    ELSE photos \cup {"application/pdf", "application/msword", "text/plain"}
limitMB(config) == IF config.MaxSize <= 0 THEN defaultMaxSize ELSE config.MaxSize
extFromMIME(type, fallback) ==
  CASE type = "image/jpeg" -> ".jpg" [] type = "image/png" -> ".png" [] type = "application/pdf" -> ".pdf"
    [] type = "text/plain" -> ".txt" [] OTHER -> fallback

NoFile(why) == [ok |-> FALSE, why |-> why, temps |-> 0, size |-> 0, type |-> "", ext |-> ""]
upTo(parts, i) == FoldLeft(LAMBDA n, part : n + part.size, 0, SubSeq(parts, 1, i))
\* The parts are read in turn up to the first file of the field; the body as
\* a whole may be no larger than the limit and the overhead.
ValidateFile(req, formKey, config) ==
  LET asked == {i \in DOMAIN req.parts : req.parts[i].form = formKey /\ req.parts[i].file # ""}
      first == CHOOSE i \in asked : \A j \in asked : i <= j
      part == req.parts[first]
      cap == limitMB(config) + multipartOverheadLimit
  IN IF ~req.multipart THEN NoFile("form")
       ELSE IF asked = {} THEN NoFile(IF upTo(req.parts, Len(req.parts)) > cap THEN "size" ELSE "missing")
       ELSE IF upTo(req.parts, first) > cap \/ part.size > limitMB(config) THEN NoFile("size")
       ELSE IF part.type \notin resolveAllowedMime(config) THEN NoFile("type")
       ELSE [ok |-> TRUE, why |-> "", temps |-> 1, size |-> part.size, type |-> part.type, ext |-> extFromMIME(part.type, part.ext)]
\* The temporary file goes with Close; the copy is cut at the limit again.
tempClose(input) == [input EXCEPT !.temps = @ - 1]
UploadFile(req, formKey, config) ==
  LET input == ValidateFile(req, formKey, config) IN
  IF config.BaseDir = "" THEN NoFile("config") ELSE IF ~input.ok THEN input ELSE tempClose(input)
\* The header says how long the file is, the file is opened, sniffed, closed on a failure.
ValidateHeader(part, maxSize, allowed) ==
  IF part.size > maxSize THEN NoFile("size") ELSE IF part.type \notin allowed THEN NoFile("type")
    ELSE [ok |-> TRUE, why |-> "", temps |-> 1, size |-> part.size, type |-> part.type, ext |-> ""]
\* A path below the base, of a file that is there.
DeleteFile(saved, below, path) == CASE ~below -> "bad request" [] path \notin saved -> "not found" [] OTHER -> "removed"

\* A disk that can open for seeking, or only get; a folder of a disk that
\* cannot says so when asked.
Open(disk, key) ==
  IF ~disk.seeks THEN "unsupported" ELSE IF disk.broken THEN "internal" ELSE IF key \in disk.keys THEN "file" ELSE "not found"
GetFile(disk, key) == IF disk.broken THEN "internal" ELSE IF key \in disk.keys THEN "file" ELSE "not found"
failServe(why) == [status |-> IF why = "not found" THEN 404 ELSE 500, ranges |-> FALSE]
Serve(disk, key) ==
  LET opened == IF disk.opener THEN Open(disk, key) ELSE "unsupported"
  IN IF opened = "file" THEN [status |-> 200, ranges |-> TRUE]
       ELSE IF opened # "unsupported" THEN failServe(opened)
       ELSE IF GetFile(disk, key) = "file" THEN [status |-> 200, ranges |-> FALSE]
       ELSE failServe(GetFile(disk, key))
-----------------------------------------------------------------------------
(* The limit a body is read under is the route's own when it has one, else  *)
(* the application's; a multipart body is left to the upload (BodyLimit,    *)
(* BodyLimitFor: "replaces, for one route, the limit BodyLimit set").       *)
RouteLimitWins(req, limit, ofRoute) ==
  LET limits == IF ofRoute = {} THEN BodyLimit(req, limit) ELSE BodyLimitFor(req, BodyLimit(req, limit), CHOOSE l \in ofRoute : TRUE)
      meant == IF ofRoute = {} THEN limit ELSE CHOOSE l \in ofRoute : TRUE
  IN readsBody(req, limits) = (req.multipart \/ meant <= 0 \/ req.size <= meant)

(* A file alone in its form is accepted by the streaming check just when it *)
(* is by the check of a bound header under the same limit and types, and    *)
(* whatever came before or after it, a refused upload leaves no temporary   *)
(* file and a saved one none either (ValidateFile, ValidateHeader,          *)
(* UploadFile).                                                             *)
UploadsAgree(req, config) ==
  LET streamed == ValidateFile(req, "file", config)
      saved == UploadFile(req, "file", config)
      header == ValidateHeader(req.parts[1], limitMB(config), resolveAllowedMime(config))
  IN /\ (req.multipart /\ Len(req.parts) = 1 /\ req.parts[1].form = "file" /\ req.parts[1].file # "")
        => streamed.ok = header.ok /\ streamed.why = header.why
     /\ streamed.temps = (IF streamed.ok THEN 1 ELSE 0) /\ saved.temps = 0
     /\ streamed.ok => streamed.size <= limitMB(config) /\ \E i \in DOMAIN req.parts : req.parts[i].type = streamed.type

(* A file is answered whenever the disk can give it, by whichever way, and  *)
(* a missing one is 404 either way (Serve: "any other is streamed whole").  *)
ServesWhatIsThere(disk, key) ==
  Serve(disk, key).status = (CASE GetFile(disk, key) = "file" -> 200 [] GetFile(disk, key) = "not found" -> 404 [] OTHER -> 500)
===============================================================================
