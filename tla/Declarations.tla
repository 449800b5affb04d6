----------------------------- MODULE Declarations -----------------------------
(***************************************************************************)
(* What an application declares before it runs: its settings, texts and    *)
(* menu, its permissions, and the characteristics of its records.          *)
(***************************************************************************)
EXTENDS Integers, Sequences, SequencesExt, FiniteSets, FiniteSetsExt, TLC

-------------------------------------------------------------------------------
(***************************************************************************)
(* What an application is configured with: variables of the environment    *)
(* (env/env.go), translations (i18n) and the menu cut down to one person   *)
(* (navigation/navigation.go).  A variable's value is what can be read in  *)
(* it; a text is a sequence of characters and placeholders <<":", name>>;  *)
(* a menu is a sequence of nodes with their children.                      *)
(***************************************************************************)

\* A reader: what it looks things up in, and the problems it met, in order.
isSet(vars, name) == name \in DOMAIN vars /\ vars[name] # ""
Required(vars, name) == IF isSet(vars, name) THEN [value |-> vars[name], problems |-> <<>>] ELSE [value |-> "", problems |-> <<name>>]
String(vars, name, def) == IF isSet(vars, name) THEN [value |-> vars[name], problems |-> <<>>] ELSE [value |-> def, problems |-> <<>>]
\* A value that is not of the kind is a problem, and the default stands.
typed(vars, name, def, values) ==
  IF ~isSet(vars, name) THEN [value |-> def, problems |-> <<>>] ELSE IF vars[name] \notin values THEN [value |-> def, problems |-> <<name>>]
    ELSE [value |-> vars[name], problems |-> <<>>]
ReadInt(vars, name, def) == typed(vars, name, def, {"1", "5"})
ReadBool(vars, name, def) == typed(vars, name, def, {"1", "true", "false"})
Duration(vars, name, def) == typed(vars, name, def, {"5m"})
read(vars, call) ==
  CASE call[1] = "required" -> Required(vars, call[2]) [] call[1] = "string" -> String(vars, call[2], "def") [] call[1] = "int" -> ReadInt(vars, call[2], "def")
    [] call[1] = "bool" -> ReadBool(vars, call[2], "def") [] OTHER -> Duration(vars, call[2], "def")
Problems(vars, calls) == FoldLeft(LAMBDA found, call : found \o read(vars, call).problems, <<>>, calls)
\* A list's items are sequences of characters.
trimSpace(item) ==
  LET kept == {i \in DOMAIN item : item[i] # " "} IN
  IF kept = {} THEN <<>> ELSE SubSeq(item, CHOOSE i \in kept : \A j \in kept : i <= j, CHOOSE i \in kept : \A j \in kept : j <= i)
List(items) == SelectSeq([i \in DOMAIN items |-> trimSpace(items[i])], LAMBDA item : item # <<>>)

-------------------------------------------------------------------------------
\* Translations by <<language, key>>; a file is a tree: a text, or keys below.
RECURSIVE flattenJSON(_, _, _)
flattenJSON(prefix, lang, data) ==
  IF data.leaf THEN IF prefix = <<>> THEN {} ELSE {<<lang, prefix, data.text>>}
  ELSE UNION {flattenJSON(Append(prefix, k), lang, data.keys[k]) : k \in DOMAIN data.keys}
\* Load takes all the files or keeps what there was.
Load(translations, files) ==
  IF \E lang \in DOMAIN files : ~files[lang].parses THEN translations
  ELSE UNION {flattenJSON(<<>>, lang, files[lang].data) : lang \in DOMAIN files}
textsOf(translations, lang, key) == {t[3] : t \in {u \in translations : u[1] = lang /\ u[2] = key}}
T(translations, key, lang, fallback) ==
  IF textsOf(translations, lang, key) # {} THEN CHOOSE t \in textsOf(translations, lang, key) : TRUE
    ELSE IF textsOf(translations, fallback, key) # {} THEN CHOOSE t \in textsOf(translations, fallback, key) : TRUE
    ELSE key

-------------------------------------------------------------------------------
holdsAll(required, held) == required \subseteq held
holdsOne(permissions, held) == permissions \cap held # {}
RECURSIVE Filter(_, _)
Filter(nodes, held) ==
  LET kept(n) == [n EXCEPT !.children = Filter(n.children, held)]
      stays(n) == LET left == Filter(n.children, held) IN
         /\ holdsAll(n.requires, held)
         /\ IF left # <<>> THEN TRUE ELSE IF n.permissions \cup n.gate # {} THEN holdsOne(n.permissions, held) \/ holdsOne(n.gate, held)
              ELSE n.children = <<>>
      chosen == SelectSeq(nodes, stays)
  IN [i \in DOMAIN chosen |-> kept(chosen[i])]
validHref(href) == href \in {"/path", "https://host"}
RECURSIVE Validate(_)
Validate(nodes) ==
  \A i \in DOMAIN nodes : ~(nodes[i].route # "" /\ nodes[i].href # "") /\ (nodes[i].href # "" => validHref(nodes[i].href)) /\ Validate(nodes[i].children)
-------------------------------------------------------------------------------
(* Every problem of a configuration is reported at once, in the order it    *)
(* was read, and no default hides one; a value that can be read is the      *)
(* value (Reader).                                                          *)
ProblemsTold(vars, calls) ==
  LET wrong(call) == LET is == isSet(vars, call[2]) IN
        CASE call[1] = "required" -> ~is [] call[1] = "string" -> FALSE [] call[1] = "int" -> is /\ vars[call[2]] \notin {"1", "5"}
          [] call[1] = "bool" -> is /\ vars[call[2]] \notin {"1", "true", "false"} [] OTHER -> is /\ vars[call[2]] # "5m"
      told == SelectSeq(calls, wrong)
  IN /\ Problems(vars, calls) = [i \in DOMAIN told |-> told[i][2]]
     /\ \A i \in DOMAIN calls : read(vars, calls[i]).value \in {"", "def"} \/ read(vars, calls[i]).value = vars[calls[i][2]]
     /\ \A i \in DOMAIN calls : isSet(vars, calls[i][2]) /\ ~wrong(calls[i]) => read(vars, calls[i]).value = vars[calls[i][2]]

(* A text is found in the language asked for, else in the fallback, else    *)
(* the key is shown; files one of which cannot be read change nothing       *)
(* (Translator.T, Load).                                                    *)
TextsFound(before, files, key, lang, fallback) ==
  LET after == Load(before, files)
      whole == \A l \in DOMAIN files : files[l].parses
      has(l) == l \in DOMAIN files /\ \E t \in flattenJSON(<<>>, l, files[l].data) : t[2] = key
  IN IF ~whole THEN after = before /\ T(after, key, lang, fallback) = T(before, key, lang, fallback)
     ELSE (T(after, key, lang, fallback) = key) = (~has(lang) /\ ~has(fallback))

(* The menu keeps, in order, exactly the ways to what the person may open:  *)
(* a node is there when it, or one below it, may be opened and all that is  *)
(* required above is held; cutting it again changes nothing (Filter).       *)
RECURSIVE opens(_, _)
opens(n, held) ==
  /\ n.requires \subseteq held
  /\ \/ \E i \in DOMAIN n.children : opens(n.children[i], held)
     \/ n.permissions \cup n.gate # {} /\ (n.permissions \cup n.gate) \cap held # {}
     \/ n.permissions \cup n.gate = {} /\ n.children = <<>>
RECURSIVE reaches(_, _)
reaches(nodes, held) ==
  LET chosen == SelectSeq(nodes, LAMBDA n : opens(n, held)) IN [i \in DOMAIN chosen |-> [chosen[i] EXCEPT !.children = reaches(@, held)]]
MenuReaches(nodes, held) ==
  Filter(nodes, held) = reaches(nodes, held) /\ Filter(Filter(nodes, held), held) = Filter(nodes, held) /\ (Validate(nodes) => Validate(Filter(nodes, held)))

-------------------------------------------------------------------------------
(***************************************************************************)
(* Defining permissions (authz/catalogue.go): what Define refuses, and the *)
(* depth-first search Validate looks for requirement cycles with.  A       *)
(* catalogue here is order, the ids as defined, and requires, id -> the    *)
(* sequence of ids it needs.                                               *)
(***************************************************************************)

CONSTANT IllFormed \* strings that are no permission's identifier, and no word

Ids(seq) == {seq[i] : i \in DOMAIN seq}

\* checkIdentifier: one to three words, a colon, one word.
CheckIdentifier(id) == id.colons = 1 /\ id.verbIsWord /\ Len(id.segments) <= 3 /\ \A i \in DOMAIN id.segments : id.segments[i]

CheckPermission(p) ==
    /\ p.unownedIsOwn => p.ownable
    /\ p.feature # "" => p.featureIsWord
    /\ \A i, j \in DOMAIN p.attrs : p.attrs[i] \notin IllFormed /\ (p.attrs[i] = p.attrs[j] => i = j)
    /\ Ids(p.requires) \cap (IllFormed \cup {p.id}) = {}

\* Define: refused once frozen, and for a malformed, known or inconsistent one.
Define(cat, p) ==
    IF cat.frozen \/ ~CheckIdentifier(p.identifier) \/ p.id \in Ids(cat.order) \/ ~CheckPermission(p) THEN cat
    ELSE [cat EXCEPT !.order = Append(@, p.id),
                     !.requires = [x \in DOMAIN @ \cup {p.id} |-> IF x = p.id THEN p.requires ELSE @[x]]]

Unknown(cat) == {id \in Ids(cat.order) : ~(Ids(cat.requires[id]) \subseteq Ids(cat.order))}

RECURSIVE Visit(_, _, _), VisitAll(_, _, _, _)

\* requirementCycles: s is [mark, problems].
Visit(cat, s, id) ==
    LET after == VisitAll(cat, [s EXCEPT !.mark[id] = "visiting"], id, 1)
    IN  [after EXCEPT !.mark[id] = "done"]

\* The requirements of id from the i-th on.
VisitAll(cat, s, id, i) ==
    IF i > Len(cat.requires[id]) THEN s
    ELSE LET r == cat.requires[id][i]
         IN  VisitAll(cat, CASE s.mark[r] = "visiting" -> [s EXCEPT !.problems = @ \cup {<<id, r>>}]
                             [] s.mark[r] = "unseen" -> Visit(cat, s, r)
                             [] OTHER -> s, id, i + 1)

RequirementCycles(cat) ==
    LET start == [mark |-> [id \in Ids(cat.order) |-> "unseen"], problems |-> {}]
        upTo[n \in 0..Len(cat.order)] ==
            IF n = 0 THEN start
            ELSE IF upTo[n - 1].mark[cat.order[n]] = "unseen" THEN Visit(cat, upTo[n - 1], cat.order[n])
            ELSE upTo[n - 1]
    IN  upTo[Len(cat.order)].problems

\* Validate reports unknown requirements first, and cycles only without them.
Sound(cat) == Unknown(cat) = {} /\ RequirementCycles(cat) = {}

Freeze(cat) == IF Sound(cat) THEN [cat EXCEPT !.frozen = TRUE] ELSE cat

\* The reference: a permission that needs itself, through any number of others.
NeedsItself(cat) ==
    LET edge == {<<p, q>> \in Ids(cat.order) \X Ids(cat.order) : q \in Ids(cat.requires[p])}
        reach[n \in 0..Len(cat.order)] ==
            IF n = 0 THEN edge
            ELSE reach[n - 1] \cup {<<p, q>> \in Ids(cat.order) \X Ids(cat.order) :
                                      \E m \in Ids(cat.order) : <<p, m>> \in reach[n - 1] /\ <<m, q>> \in edge}
    IN  {p \in Ids(cat.order) : <<p, p>> \in reach[Len(cat.order)]}

\* A catalogue is frozen exactly when every requirement is known and no permission needs
\* itself through others, in whatever order they were defined; then Define changes nothing.
FrozenIsSound(cat, p) ==
    LET frozen == Freeze(cat)
    IN  /\ frozen.frozen <=> Unknown(cat) = {} /\ NeedsItself(cat) = {}
        /\ frozen.frozen => Define(frozen, p) = frozen

-------------------------------------------------------------------------------
(***************************************************************************)
(* The pure rules of the characteristics module: the description of the    *)
(* tables (characteristics/core/description.go, default.go), what an input *)
(* may hold (input.go), and the columns a statement writes                 *)
(* (characteristics/gormstore/store.go).                                   *)
(*                                                                         *)
(* A name is a string of the instance, "" is absent; Idents are the names  *)
(* that are identifiers.  A level is a record, a field a record; a value   *)
(* of a column is a record [type, v] and NULL is Null.                     *)
(***************************************************************************)

CONSTANTS Idents, LongTexts \* strings that are identifiers; strings longer than any limit

Null == [type |-> "null", v |-> ""]
Text(v) == [type |-> "text", v |-> v]
Number(v) == [type |-> "number", v |-> v]
Bool(v) == [type |-> "bool", v |-> v]

-----------------------------------------------------------------------------
(* The description. *)

(* The roles of the columns of a level, in the order problems looks at them; a repeated *)
(* field of another branch is looked at once.                                           *)
OwnColumns(l) ==
    <<l.id, l.name, l.parent>> \o l.ancestors \o <<l.order, l.active, l.meta>> \o l.audit
      \o <<l.json>> \o l.langColumns
FirstFields(l) ==
    SelectSeq([i \in DOMAIN l.fields |-> [column |-> l.fields[i].column, i |-> i]],
              LAMBDA c : \A j \in 1..(c.i - 1) : l.fields[j].column # c.column)
UsedColumns(l) ==
    SelectSeq(OwnColumns(l) \o [k \in DOMAIN FirstFields(l) |-> FirstFields(l)[k].column],
              LAMBDA c : c # "")
ColumnProblem(l) ==
    LET used == UsedColumns(l)
    IN  \/ \E i \in DOMAIN used : used[i] \notin Idents
        \/ \E i, j \in DOMAIN used : i < j /\ used[i] = used[j]

choiceProblems(f) ==
    \/ Len(f.choices) = 0
    \/ \E i, j \in DOMAIN f.choices : i < j /\ f.choices[i] = f.choices[j]

FieldProblem(f, level) ==
    \/ f.column \notin Idents
    \/ f.label = ""
    \/ f.type \in {"text", "number", "yesno"} /\ Len(f.choices) > 0
    \/ f.type = "choice" /\ choiceProblems(f)
    \/ f.type \notin {"text", "number", "yesno", "choice"}
    \/ f.under # <<>> /\ (f.under[1] < 1 \/ f.under[1] >= level \/ f.under[2] < 1)

parentProblems(l, number) ==
    \/ number = 1 /\ (l.parent # "" \/ l.ancestors # <<>>)
    \/ number > 1 /\ l.parent = ""
    \/ l.ancestors # <<>> /\ Len(l.ancestors) + 2 # number

translationProblems(l) == l.json # "" /\ l.langColumns # <<>>

(* Two fields on one column are on different branches, never one of them for the whole level. *)
sameColumnProblems(l) ==
    \E i, j \in DOMAIN l.fields :
        /\ i < j /\ l.fields[i].column = l.fields[j].column
        /\ \/ l.fields[i].under = <<>> \/ l.fields[j].under = <<>>
           \/ l.fields[i].under = l.fields[j].under

LevelProblem(l, number) ==
    \/ l.table \notin Idents \/ l.label = "" \/ l.name = ""
    \/ parentProblems(l, number) \/ translationProblems(l) \/ sameColumnProblems(l)
    \/ ColumnProblem(l)
    \/ l.activation /\ l.active = ""
    \/ \E i \in DOMAIN l.fields : FieldProblem(l.fields[i], number)

(* Prepare: whether the description is refused, and the defaults it fills in. *)
PreparedLevel(l) == [l EXCEPT !.id = IF @ = "" THEN "id" ELSE @]
Prepare(levels) ==
    LET filled == [i \in DOMAIN levels |-> PreparedLevel(levels[i])]
    IN  [levels |-> filled,
         problem |-> \/ levels = <<>>
                     \/ \E i, j \in DOMAIN filled : i < j /\ filled[i].table = filled[j].table
                     \/ \E i \in DOMAIN filled : LevelProblem(filled[i], i)]

(* FieldsFor: the fields that apply to a row whose ancestors, root first, are path. *)
FieldsFor(l, path) ==
    SelectSeq(l.fields, LAMBDA f : \/ f.under = <<>>
                                   \/ f.under[1] <= Len(path) /\ path[f.under[1]] = f.under[2])

(* columns: what a read selects, each column once. *)
columns(l) ==
    ToSet(<<l.id, l.parent, l.name, l.json>> \o l.langColumns \o <<l.order, l.active, l.meta>>
            \o [i \in DOMAIN l.fields |-> l.fields[i].column]) \ {""}

(* Check: the described columns the tables of the database lack. *)
CheckMissing(levels, tables) ==
    {i \in DOMAIN levels : \/ levels[i].table \notin DOMAIN tables
                           \/ ~(columns(levels[i]) \subseteq tables[levels[i].table])}

-----------------------------------------------------------------------------
(* The input of a write. *)

(* normalize: the value a column takes, or a refusal. *)
Bad == [type |-> "bad", v |-> ""]
normalize(f, raw) ==
    IF f.type \in {"text", "choice"} /\ raw.type \notin {"text", "null"} THEN Bad
      ELSE IF f.type \in {"text", "choice"} /\ raw.v \in LongTexts THEN Bad
      ELSE IF f.type \in {"text", "choice"} /\ raw.v = "" THEN IF f.null THEN Null ELSE Text("")
      ELSE IF f.type = "choice" THEN IF raw.v \in ToSet(f.choices) THEN raw ELSE Bad
      ELSE IF f.type = "text" THEN raw
      ELSE IF f.type = "number" /\ raw.type = "null" THEN IF f.null THEN Null ELSE Number("0")
      ELSE IF f.type = "number" THEN IF raw.type = "number" THEN raw ELSE Bad
      ELSE IF f.type = "yesno" /\ raw.type = "null" THEN Bool("0")
      ELSE IF f.type = "yesno" THEN IF raw.type = "bool" THEN raw ELSE Bad
      ELSE Bad

format(value) == value.v
isZero(value) == value \in {Null, Text(""), Number("0"), Bool("0")}

(* Of two fields on one column an input is read by the first that applies; a statement and a *)
(* read go through all the fields of the level, so the last one stays.                       *)
FieldOf(fields, column) ==
    fields[CHOOSE i \in DOMAIN fields : fields[i].column = column /\ \A j \in 1..(i - 1) : fields[j].column # column]
LastFieldOf(fields, column) == FieldOf(Reverse(fields), column)

(* A read-only field may be given back as it is, or as nothing where there was nothing. *)
ReadOnlyKept(value, was) == format(value) = format(was) \/ (was = Null /\ isZero(value))

(* fieldValues: given is a function from columns to raw values, current the stored values of *)
(* an update (every column, NULL on a create); the answer has ok and what is to be written.  *)
fieldValues(fields, given, current) ==
    LET known == {c \in DOMAIN given : \E i \in DOMAIN fields : fields[i].column = c}
        value == [c \in known |-> normalize(FieldOf(fields, c), given[c])]
        locked == {c \in known : FieldOf(fields, c).readOnly}
    IN  [ok |-> /\ known = DOMAIN given
                /\ \A c \in known : value[c] # Bad
                /\ \A c \in locked : ReadOnlyKept(value[c], current[c]),
         values |-> [c \in known \ locked |-> value[c]]]

(* translations: the languages given, refused when the level has none or does not list one. *)
translations(l, languages, given) ==
    /\ DOMAIN given # {} => l.json # "" \/ l.langColumns # <<>>
    /\ \A lang \in DOMAIN given : lang \in languages /\ given[lang] \notin LongTexts

(* fill: what an input must be to be written. *)
fill(l, languages, in, path, current) ==
    LET values == fieldValues(FieldsFor(l, path), in.values, current)
    IN  [ok |-> /\ in.name # "" /\ in.name \notin LongTexts
                /\ translations(l, languages, in.translations)
                /\ in.meta # "" => l.meta # ""
                /\ values.ok,
         values |-> values.values]

-----------------------------------------------------------------------------
(* The columns a statement writes. *)

(* mergeJSON: the given languages set in the stored object; an empty text removes one. *)
mergeJSON(object, given) ==
    LET kept == (DOMAIN object \ DOMAIN given) \cup {lang \in DOMAIN given : given[lang] # ""}
    IN  [lang \in kept |-> IF lang \in DOMAIN given THEN given[lang] ELSE object[lang]]

(* A slip: a field that was not given is NULL, whatever its column allows. *)
AlwaysNullMutant(f) == Null
(* empty: what a field holds when nothing was given. *)
empty(f) ==
    CASE f.null -> Null
      [] ~f.null /\ f.type \in {"text", "choice"} -> Text("")
      [] ~f.null /\ f.type = "yesno" -> Bool("0")
      [] OTHER -> Number("0")

(* toDB and fromDB: a boolean is written as the text 0 or 1 and read back through its field. *)
toDB(value) == IF value.type = "bool" THEN Text(value.v) ELSE value
fromDB(f, stored) ==
    IF stored = Null THEN Null
      ELSE IF f.type = "yesno" THEN Bool(IF stored.v \in {"", "0", "false"} THEN "0" ELSE "1")
      ELSE IF f.type = "number" THEN Number(stored.v)
      ELSE Text(stored.v)

(* The extra columns a create writes: every described one, the ones not given as empty. *)
CreateValues(l, given) ==
    LET described == {l.fields[i].column : i \in DOMAIN l.fields}
    IN  [c \in described |-> toDB(IF c \in DOMAIN given THEN given[c] ELSE empty(LastFieldOf(l.fields, c)))]
(* and an update only the given ones. *)
UpdateValues(row, given) ==
    [c \in DOMAIN row |-> IF c \in DOMAIN given THEN toDB(given[c]) ELSE row[c]]

(* The audit columns a statement writes: a record of the names the description gives, "" for *)
(* none; a create stamps the creator, the editor where it says so and the activator of a row *)
(* that starts active; an actor of 0 is not written.                                         *)
Who(column, actor) == IF actor > 0 THEN {column} ELSE {}
CreateStamps(a, activeColumn, active, actor) ==
    (Who(a.createdBy, actor) \cup {a.createdAt}
      \cup (IF a.updatedByOnCreate THEN Who(a.updatedBy, actor) ELSE {})
      \cup (IF a.updatedAtOnCreate THEN {a.updatedAt} ELSE {})
      \cup (IF activeColumn # "" /\ active THEN Who(a.activatedBy, actor) \cup {a.activatedAt} ELSE {})) \ {""}
UpdateStamps(a, actor) == (Who(a.updatedBy, actor) \cup {a.updatedAt}) \ {""}
ActiveStamps(a, was, active, actor) ==
    IF was = active THEN {}
    ELSE (UpdateStamps(a, actor)
           \cup (IF active THEN Who(a.activatedBy, actor) \cup {a.activatedAt}
                 ELSE Who(a.deactivatedBy, actor) \cup {a.deactivatedAt})) \ {""}

(* The row as an item: translationsOf shows the listed languages that hold a text. *)
translationsOf(l, languages, json, byColumn) ==
    LET shown == {lang \in DOMAIN json : json[lang] # "" /\ lang \in languages}
        own == {lang \in DOMAIN byColumn : byColumn[lang] # ""}
        fromJson == IF l.json = "" THEN {} ELSE shown
    IN  [lang \in fromJson \cup own |-> IF lang \in own THEN byColumn[lang] ELSE json[lang]]
item(l, row) ==
    [active |-> l.active = "" \/ row.active,
     parent |-> IF l.parent = "" THEN 0 ELSE row.parent,
     order |-> IF l.order = "" THEN 0 ELSE row.order,
     values |-> [c \in {l.fields[i].column : i \in DOMAIN l.fields} |->
                    fromDB(LastFieldOf(l.fields, c), row.values[c])]]

(* What the snapshot keeps of an item: the fields that apply on its branch. *)
SnapValues(l, path, it) ==
    LET applicable == {FieldsFor(l, path)[i].column : i \in DOMAIN FieldsFor(l, path)}
    IN  [c \in applicable |-> it.values[c]]

-----------------------------------------------------------------------------
(* The HTTP side (characteristics/routes.go, characteristics.go). *)

(* Options: the choices of one branch of a snapshot, a sequence of rows in order; the value is *)
(* the id or a described column, the label the translation or the name.                        *)
OptionsProblem(levels, q) ==
    \/ q.level \notin DOMAIN levels
    \/ (q.level = 1) # (q.parent = 0)
    \/ q.value # "" /\ \A i \in DOMAIN levels[q.level].fields : levels[q.level].fields[i].column # q.value
OptionValue(q, row) == IF q.value = "" THEN row.key ELSE format(row.values[q.value])
OptionLabel(q, row) ==
    IF q.lang \in DOMAIN row.translations /\ row.translations[q.lang] # "" THEN row.translations[q.lang] ELSE row.name
Options(q, rows) ==
    LET chosen == SelectSeq(rows, LAMBDA row : row.parent = q.parent /\ row.active /\ OptionValue(q, row) # "")
    IN  [i \in DOMAIN chosen |-> [value |-> OptionValue(q, chosen[i]), label |-> OptionLabel(q, chosen[i])]]

(* flatten: the items depth first; tree is a sequence per level of rows with id and parent. *)
RECURSIVE flatten(_, _, _)
flatten(tree, level, parent) ==
    IF level > Len(tree) THEN <<>>
    ELSE LET own == SelectSeq(tree[level], LAMBDA row : row.parent = parent)
         IN  FlattenSeq([i \in DOMAIN own |-> <<own[i]>> \o flatten(tree, level + 1, own[i].id)])

(* core of a WriteInput: meta and values are JSON objects, or are not given. *)
Decoded(raw) == raw \in {"", "object"}
(* The permission each route needs; "" is any signed-in caller. *)
Declare ==
    [name \in {"tree", "description", "show", "branch", "usage"} |-> "characteristics:view"] @@
    [name \in {"create", "update", "set-active", "move", "delete"} |-> "characteristics:edit"] @@
    [name \in {"options"} |-> ""]
(* definePermissions: View and Edit, which needs View, unless the catalogue has them. *)
definePermissions(catalogue) ==
    catalogue @@ ("characteristics:view" :> {}) @@ ("characteristics:edit" :> {"characteristics:view"})
(* Install is refused with a bad description, no catalogue, no choice of usage, or too many levels. *)
InstallProblem(levels, hasCatalogue, usageChosen, migrate) ==
    Prepare(levels).problem \/ ~hasCatalogue \/ ~usageChosen \/ migrate \notin 0..3

(* DefaultTree: the ready-made levels. *)
DefaultLevel(n, table, parent, ancestors) ==
    [id |-> "id", table |-> table, label |-> "label", name |-> "name", parent |-> parent,
     ancestors |-> ancestors, order |-> "order", active |-> "active", meta |-> "meta",
     audit |-> <<>>, activation |-> TRUE, json |-> "name_i18n", langColumns |-> <<>>, fields |-> <<>>]
DefaultTree(n) ==
    SubSeq(<<DefaultLevel(1, "level1", "", <<>>), DefaultLevel(2, "level2", "level1_id", <<>>),
             DefaultLevel(3, "level3", "level2_id", <<"level1_id">>)>>,
           1, IF n < 1 THEN 1 ELSE IF n > 3 THEN 3 ELSE n)

-----------------------------------------------------------------------------
(* What a read shows of a row that was created with the given values is accepted again by an  *)
(* update and leaves the row as it is; only a yes or no that was never set is written as no.  *)
(* The branches that share a column give it one type.                                         *)
PostedBackKept(l, path, given) ==
    LET first == fieldValues(FieldsFor(l, path), given, [c \in DOMAIN given |-> Null])
        values == CreateValues(l, first.values)
        shown == SnapValues(l, path, item(l, [active |-> TRUE, parent |-> 0, order |-> 0, values |-> values]))
        again == fieldValues(FieldsFor(l, path), shown, shown)
        unset == {c \in DOMAIN values : values[c] = Null /\ LastFieldOf(l.fields, c).type = "yesno"}
    IN  first.ok => /\ again.ok
                    /\ \A c \in DOMAIN values \ unset : UpdateValues(values, again.values)[c] = values[c]

(* A translation given is the one shown, one given as an empty text is gone, and the others    *)
(* of the row stay as they were.                                                               *)
TranslationsKept(languages, object, given) ==
    LET l == [json |-> "name_i18n"]
        before == translationsOf(l, languages, object, <<>>)
        after == translationsOf(l, languages, mergeJSON(object, given), <<>>)
        wanted == {lang \in languages : IF lang \in DOMAIN given THEN given[lang] # "" ELSE lang \in DOMAIN before}
    IN  translations([json |-> "name_i18n", langColumns |-> <<>>], languages, given) =>
            after = [lang \in wanted |-> IF lang \in DOMAIN given THEN given[lang] ELSE before[lang]]

(* The flat list of a tree has every item whose ancestors are there, once, after its parent.   *)
FlatIsTree(tree) ==
    LET flat == flatten(tree, 1, 0)
        held[n \in 0..Len(tree)] ==
            IF n = 0 THEN {} ELSE {row \in ToSet(tree[n]) : IF n = 1 THEN row.parent = 0 ELSE \E up \in held[n - 1] : up.id = row.parent}
    IN  /\ ToSet(flat) = UNION {held[n] : n \in 1..Len(tree)} /\ IsInjective(flat)
        /\ \A i \in DOMAIN flat : flat[i].parent # 0 => \E j \in 1..(i - 1) : flat[j].id = flat[i].parent
===============================================================================
