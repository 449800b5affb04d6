------------------------------- MODULE Listing -------------------------------
(***************************************************************************)
(* Lists and their pages: the data tables of applications, and the views   *)
(* of the users administration.                                            *)
(***************************************************************************)
EXTENDS Integers, Sequences, FiniteSets, FiniteSetsExt, SequencesExt, TLC

-------------------------------------------------------------------------------
(***************************************************************************)
(* Packages datatable and pagination, and the pages of package web: how a  *)
(* request's query becomes a page of rows, and how the page is answered.   *)
(* A query is a function from keys to the values given; a table is a set   *)
(* of rows [id, name, note, at, by], name and note being NULL ({}) or a    *)
(* sequence of characters, by the author.                                  *)
(***************************************************************************)

CONSTANTS defaultPerPage, maxPerPage, Bits

wrapped(n) == ((n + 2^(Bits - 1)) % (2^Bits)) - 2^(Bits - 1)
\* strconv.Atoi, its error ignored: no number is 0, one too large the largest.
Atoi(text) == CASE text = "1" -> 1 [] text = "2" -> 2 [] text = "9" -> 9 [] text = "huge" -> 2^(Bits - 1) - 1 [] OTHER -> 0

-----------------------------------------------------------------------------
(* What is asked.                                                           *)
Reserved == {"page", "search", "view", "per_page", "order_col", "order_dir", "length", "order_column", "order_direction"}
Has(query, key) == key \in DOMAIN query
first(query, key) == IF query[key] = <<>> THEN "" ELSE query[key][1]
get(query, keys) ==
  LET given == {i \in DOMAIN keys : Has(query, keys[i])} IN IF given = {} THEN "" ELSE first(query, keys[Min(given)])

\* datatable.ParamsFromValues.
ParamsFromValues(query) ==
  [View |-> get(query, <<"view">>), Page |-> IF Has(query, "page") THEN Atoi(first(query, "page")) ELSE 1,
   PerPage |-> Atoi(get(query, <<"per_page", "length">>)), Search |-> get(query, <<"search">>),
   OrderCol |-> get(query, <<"order_col", "order_column">>), OrderDir |-> get(query, <<"order_dir", "order_direction">>),
   Filters |-> [k \in {key \in DOMAIN query : key \notin Reserved /\ query[key] # <<>>} |-> query[k][1]]]

\* web.PageFromValues, and datatable.ParamsOf of it.
isFilterKey(key) == key \notin {"page", "search", "view", "per_page", "order_col", "order_dir", "length", "order_column", "order_direction"}
getOr(query, key, fallback) == IF Has(query, key) THEN first(query, key) ELSE fallback
LegacyMutant(query) ==
  [Number |-> Atoi(getOr(query, "page", "1")), Size |-> Atoi(getOr(query, "length", getOr(query, "per_page", ""))),
   Search |-> getOr(query, "search", ""), OrderCol |-> getOr(query, "order_col", getOr(query, "order_column", "")),
   OrderDir |-> getOr(query, "order_dir", getOr(query, "order_direction", "")), View |-> getOr(query, "view", ""),
   Filters |-> [k \in {key \in DOMAIN query : isFilterKey(key) /\ query[key] # <<>>} |-> query[k][1]]]
PageFromValues(query) ==
  [Number |-> Atoi(getOr(query, "page", "1")), Size |-> Atoi(getOr(query, "per_page", getOr(query, "length", ""))),
   Search |-> getOr(query, "search", ""), OrderCol |-> getOr(query, "order_col", getOr(query, "order_column", "")),
   OrderDir |-> getOr(query, "order_dir", getOr(query, "order_direction", "")), View |-> getOr(query, "view", ""),
   Filters |-> [k \in {key \in DOMAIN query : isFilterKey(key) /\ query[key] # <<>>} |-> query[k][1]]]
ParamsOf(page) ==
  [View |-> page.View, Page |-> page.Number, PerPage |-> page.Size, Search |-> page.Search,
   OrderCol |-> page.OrderCol, OrderDir |-> page.OrderDir, Filters |-> page.Filters]
DefaultParams == [View |-> "", Page |-> 1, PerPage |-> defaultPerPage, Search |-> "", OrderCol |-> "id", OrderDir |-> "asc", Filters |-> <<>>]
GetPage(p) == IF p.Page < 1 THEN 1 ELSE p.Page
GetPerPage(p) == IF p.PerPage < 1 \/ p.PerPage > maxPerPage THEN defaultPerPage ELSE p.PerPage
WithDefaultOrder(p, column, direction) ==
  [p EXCEPT !.OrderCol = IF @ = "" THEN column ELSE @, !.OrderDir = IF @ = "" THEN direction ELSE @]

-----------------------------------------------------------------------------
(* What is found.  A field to search is [kind, cols, sep]: a plain column,  *)
(* or several put together.  The words of a search are sequences of letters.*)
Null == {}
IsIn(word, in) == \E i \in 0..(Len(in) - Len(word)) : SubSeq(in, i + 1, i + Len(word)) = word
coalesce(v) == IF v = Null THEN <<>> ELSE CHOOSE t \in v : TRUE
joined(row, cols, sep) == FoldLeft(LAMBDA a, i : a \o (IF i > 1 THEN sep ELSE <<>>) \o coalesce(row[cols[i]]), <<>>, [i \in DOMAIN cols |-> i])
concatExpr(row, cols) == joined(row, cols, <<" ">>)
concatWSExpr(row, sep, cols) == joined(row, cols, sep)
likes(row, field, word) ==
  CASE field.kind = "concat" -> IsIn(word, concatExpr(row, field.cols))
    [] field.kind = "concatws" -> IsIn(word, concatWSExpr(row, field.sep, field.cols))
    [] OTHER -> row[field.cols[1]] # Null /\ IsIn(word, coalesce(row[field.cols[1]]))
\* A concatws field without columns adds a value and no condition.
malformed(field) == field.kind = "concatws" /\ field.cols = <<>>
searched(rows, words, fields) ==
  IF fields = <<>> THEN rows ELSE {r \in rows : \A w \in words : \E i \in DOMAIN fields : likes(r, fields[i], w)}

filtered(rows, filters, given) ==
  {r \in rows : \A i \in DOMAIN filters :
     filters[i].URIKey \in DOMAIN given /\ given[filters[i].URIKey] # "" => r.id \in filters[i].keeps[given[filters[i].URIKey]]}
viewed(rows, views, active) ==
  LET named == {i \in DOMAIN views : views[i].URIKey = active}
  IN IF active = "" \/ named = {} THEN rows ELSE {r \in rows : r.id \in views[Min(named)].keeps}
\* The order column is one of the selected ones, or id.
orderCol(d, p) ==
  LET c == IF p.OrderCol \in DOMAIN d.aliases THEN d.aliases[p.OrderCol] ELSE p.OrderCol IN IF c \in d.columns THEN c ELSE "id"
\* The query orders by that column alone: rows of equal keys come as the engine
\* finds them, tie, the least id first or last, which may differ from page to page.
ordered(rows, col, dir, tie) ==
  LET less(m, n, way) == IF way = "asc" THEN m < n ELSE m > n
      ahead(r) == {s \in rows : IF s[col] = r[col] THEN less(s.id, r.id, tie) ELSE less(s[col], r[col], dir)}
  IN [i \in 1..Cardinality(rows) |-> CHOOSE r \in rows : Cardinality(ahead(r)) = i - 1]

\* Get: {} is an error.  An offset that is not positive is none.
selected(d, p, words) == viewed(filtered(searched(d.table, words, d.fields), d.filters, p.Filters), d.views, p.View)
Get(d, given, words, tie) ==
  LET p == WithDefaultOrder(given, d.order[1], d.order[2])
      size == GetPerPage(p) offset == wrapped((GetPage(p) - 1) * size)
      rows == ordered(selected(d, p, words), orderCol(d, p), IF p.OrderDir = "asc" THEN "asc" ELSE "desc", tie)
      skip == IF offset > 0 THEN offset ELSE 0
      data == SubSeq(rows, skip + 1, IF skip + size < Len(rows) THEN skip + size ELSE Len(rows))
      from == IF data = <<>> THEN 0 ELSE wrapped(offset + 1)
  IN IF d.columns = {} \/ (words # {} /\ \E i \in DOMAIN d.fields : malformed(d.fields[i])) THEN {}
     ELSE {[Data |-> data, Total |-> Len(rows), PerPage |-> size, Page |-> GetPage(p),
            LastPage |-> (Len(rows) + size - 1) \div size, From |-> from, To |-> IF data = <<>> THEN 0 ELSE from + Len(data) - 1,
            authors |-> {data[i].by : i \in {j \in DOMAIN data : data[j].by > 0}}]}

-----------------------------------------------------------------------------
(* What is answered: meta, of a page or of a typed route's page.            *)
numbers(result) == [k \in {"total", "page", "last_page"} |-> <<"number", k>>]
ViewMeta(views) == <<"views", views>>
WritePage(result) ==
  LET meta == result.Meta @@ numbers(result) IN IF result.Views # <<>> THEN ("views" :> ViewMeta(result.Views)) @@ meta ELSE meta
PageMeta(result) == result.Meta @@ numbers(result)
ToPage(result) == [Meta |-> IF result.Views # <<>> THEN ("views" :> ViewMeta(result.Views)) @@ result.Meta ELSE result.Meta]

-----------------------------------------------------------------------------
(* Named date ranges, in days; day 0 is Sunday, 1 January 2023.             *)
leap(y) == y % 4 = 0 /\ (y % 100 # 0 \/ y % 400 = 0)
daysIn(y, m) == CASE m = 2 -> (IF leap(y) THEN 29 ELSE 28) [] m \in {4, 6, 9, 11} -> 30 [] OTHER -> 31
yearDays(y) == IF leap(y) THEN 366 ELSE 365
SumUpto(f(_), lo, hi) == FoldLeft(LAMBDA a, i : a + f(i), 0, [i \in 1..(hi - lo + 1) |-> lo + i - 1])
\* time.Date: a month or a day out of range moves the date.
Date(y, m, d) ==
  LET yy == y + ((m - 1) \div 12) mm == ((m - 1) % 12) + 1
  IN SumUpto(yearDays, 2023, yy - 1) - SumUpto(yearDays, yy, 2022) + SumUpto(LAMBDA k : daysIn(yy, k), 1, mm - 1) + d - 1
AddDate(now, y, m, d) == Date(now.y + y, now.m + m, now.d + d)
today(now) == Date(now.y, now.m, now.d)
dayRange(day) == <<day, day>>
weekRange(now, weeks) ==
  LET sinceMonday == ((today(now) % 7) + 6) % 7 monday == today(now) - sinceMonday + weeks * 7 IN <<monday, monday + 6>>
yearRange(y) == <<Date(y, 1, 1), Date(y, 12, 31)>>
dateRange(value, now) ==
  CASE value = "today" -> dayRange(today(now)) [] value = "yesterday" -> dayRange(AddDate(now, 0, 0, -1))
    [] value = "this_week" -> weekRange(now, 0) [] value = "last_week" -> weekRange(now, -1)
    [] value = "this_month" -> <<Date(now.y, now.m, 1), AddDate(now, 0, 1, -now.d)>>
    [] value = "last_month" -> <<Date(now.y, now.m - 1, 1), AddDate(now, 0, 0, -now.d)>>
    [] value = "this_year" -> yearRange(now.y) [] value = "last_year" -> yearRange(now.y - 1)
    [] OTHER -> <<>>

-----------------------------------------------------------------------------
(* Both readers of a query read the same page.                              *)
ReadersAgree(query) == ParamsOf(PageFromValues(query)) = ParamsFromValues(query)

(* The pages of a list, one after another, are as many rows as it has, with *)
(* its keys in their order, whatever size and order was asked and however   *)
(* the engine orders equal keys; the numbers of a page are its own, and a   *)
(* page past the end is empty (while its place fits an int).  No row is     *)
(* repeated or missed where no two keys are equal, or the engine orders     *)
(* equal ones alike for every page; Get promises no more, for it orders by  *)
(* the one column.                                                          *)
PagesCover(d, p, words, ties) ==
  LET asked == WithDefaultOrder(p, d.order[1], d.order[2])
      at == [n \in 1..(Cardinality(d.table) + 1) |-> Get(d, [p EXCEPT !.Page = n], words, ties[n])]
      wanted == selected(d, asked, words)
      col == orderCol(d, asked)
      having(k) == Cardinality({r \in wanted : r[col] = k})
  IN at[1] # {} => \E page \in {[n \in DOMAIN at |-> CHOOSE r \in at[n] : TRUE]} :
       LET last == page[1].LastPage all == FoldLeft(LAMBDA a, n : a \o page[n].Data, <<>>, [n \in 1..last |-> n])
       IN /\ Len(all) = Cardinality(wanted) /\ page[1].Total = Len(all)
          /\ \A i \in DOMAIN all : /\ all[i] \in wanted
                                  /\ having(all[i][col]) = Cardinality({j \in DOMAIN all : all[j][col] = all[i][col]})
                                  /\ i > 1 => IF asked.OrderDir = "asc" THEN all[i - 1][col] <= all[i][col] ELSE all[i - 1][col] >= all[i][col]
          /\ (\A r \in wanted : having(r[col]) = 1) \/ (\A n \in DOMAIN at : ties[n] = ties[1]) => Range(all) = wanted
          /\ \A n \in 1..last : /\ Len(page[n].Data) = page[n].To - page[n].From + 1
                                /\ SubSeq(all, page[n].From, page[n].To) = page[n].Data
          /\ page[last + 1].Data = <<>> /\ page[last + 1].From = 0 /\ page[last + 1].LastPage = last
          /\ d.fields # <<>> => \A r \in wanted : \A w \in words : \E c \in {"name", "note"} : IsIn(w, coalesce(r[c]))

(* A page is answered with the same meta whichever way it is written.       *)
AnswersAgree(result) == PageMeta(ToPage(result)) = WritePage(result)

(* A named range is exactly the days of that day, week, month or year.      *)
RangesRight(now) ==
  LET days == (today(now) - 20)..(today(now) + 20)
      month(m) == {Date(now.y, m, d) : d \in 1..daysIn(now.y + ((m - 1) \div 12), ((m - 1) % 12) + 1)}
      is(value, S) == \E r \in {dateRange(value, now)} : S = r[1]..r[2]
      week(n) == {x \in days : (x + 6) \div 7 = ((today(now) + 6) \div 7) + n}
  IN /\ is("this_month", month(now.m)) /\ is("last_month", month(now.m - 1))
     /\ is("this_week", week(0)) /\ is("last_week", week(-1))
     /\ is("this_year", UNION {month(m) : m \in 1..12}) /\ is("last_year", UNION {month(m) : m \in -11..0})
     /\ is("yesterday", {today(now) - 1})

-------------------------------------------------------------------------------
(* What the users administration shows (identity/account: Admin.List, SignIns, *)
(* Changes, Activity; identity/gormstore; identity/http): the pages, the views *)
(* and their counts, computed by different queries over the same rows.  Times  *)
(* are natural numbers, 0 for none; a text is a sequence of characters.        *)

CONSTANTS DefaultPerPage, MaxPerPage, LockAfter, LockFor

-------------------------------------------------------------------------------
(* Pages                                                                      *)

resolved(p) ==
    [page |-> IF p.page < 1 THEN 1 ELSE p.page,
     perPage |-> IF p.perPage < 1 THEN DefaultPerPage ELSE Min({p.perPage, MaxPerPage})]

offset(p) == LET r == resolved(p) IN (r.page - 1) * r.perPage

(* The page size the services use for a requested one.                        *)
resolvedPerPage(perPage) == IF perPage < 1 THEN DefaultPerPage ELSE Min({perPage, MaxPerPage})

(* OFFSET and LIMIT of the rows a query selects.                              *)
Slice(rows, from, limit) == SubSeq(rows, from + 1, Min({from + limit, Len(rows)}))

LastPage(total, perPage) == Max({(total + perPage - 1) \div perPage, 1})

pageOf(rows, total, page, perPage) ==
    [data |-> rows, total |-> total, perPage |-> perPage, page |-> page, lastPage |-> LastPage(total, perPage),
     from |-> IF rows = <<>> THEN 0 ELSE (page - 1) * perPage + 1,
     to |-> IF rows = <<>> THEN 0 ELSE (page - 1) * perPage + Len(rows)]

(* signInPage, userChanges, userActivity: the service slices with the page it *)
(* resolves, the handler describes it with the one it resolves.               *)
Paged(rows, p) ==
    pageOf(Slice(rows, offset(p), resolved(p).perPage), Len(rows), Max({p.page, 1}), resolvedPerPage(p.perPage))

-------------------------------------------------------------------------------
(* The lock, and who is locked now                                            *)

(* LockEvents: the latest n of the account's lock events, newest first.       *)
LockEvents(entries, id, n) ==
    LET own == SelectSeq(Reverse(entries),
                         LAMBDA e : e.account = id /\ e.event \in {"wrong_password", "signed_in", "unlocked"})
    IN  Slice(own, 0, n)

LockedUntil(latest, now) ==
    IF /\ Len(latest) >= LockAfter
       /\ \A i \in 1..LockAfter : latest[i].event = "wrong_password"
       /\ now < latest[1].at + LockFor
    THEN latest[1].at + LockFor ELSE 0

lockedUntil(entries, id, now) == LockedUntil(LockEvents(entries, id, LockAfter), now)

WrongPasswordsSince(entries, since) ==
    {e.account : e \in {e \in ToSet(entries) : e.event = "wrong_password" /\ e.at > since}}

(* Admin.locks: the history is asked only about the accounts that had a wrong *)
(* password within the lock's length.                                         *)
locks(entries, now) ==
    {id \in WrongPasswordsSince(entries, now - LockFor) : lockedUntil(entries, id, now) > 0}

-------------------------------------------------------------------------------
(* The list of accounts                                                       *)

(* LastSignIns: the time of the account's sign-in with the highest id.        *)
LastSignIn(entries, id) ==
    LET own == {i \in DOMAIN entries : entries[i].account = id /\ entries[i].event = "signed_in"}
    IN  IF own = {} THEN 0 ELSE entries[Max(own)].at

(* matching: the rows under the search and the last sign-in filter.           *)
matching(accounts, entries, q) ==
    LET signed(a, since) ==
            \E e \in ToSet(entries) : e.account = a.id /\ e.event = "signed_in" /\ e.at >= since
    IN  {a \in accounts :
            /\ q.search = "" \/ q.search \in a.found
            /\ CASE q.lastSignIn = "never" -> ~signed(a, 0)
                 [] q.lastSignIn = "idle" -> signed(a, 0) /\ ~signed(a, q.idleBefore)
                 [] OTHER -> TRUE}

(* Admin.List: the query of a view.  Locked is {} when it does not matter.    *)
QueryOf(in, locked) ==
    [search |-> in.search, lastSignIn |-> in.lastSignIn, idleBefore |-> in.idleBefore, lockedIDs |-> locked,
     active |-> CASE in.view \in {"active", "locked"} -> {TRUE} [] in.view = "inactive" -> {FALSE} [] OTHER -> {},
     locked |-> CASE in.view = "active" -> {FALSE} [] in.view = "locked" -> {TRUE} [] OTHER -> {}]

Search(accounts, entries, q) ==
    {a \in matching(accounts, entries, q) :
        /\ q.active # {} => a.active \in q.active
        /\ q.locked = {TRUE} => a.id \in q.lockedIDs
        /\ q.locked = {FALSE} => a.id \notin q.lockedIDs}

Counts(accounts, entries, q) ==
    LET found == matching(accounts, entries, q)
        inactive == Cardinality({a \in found : ~a.active})
        locked == Cardinality({a \in found : a.active /\ a.id \in q.lockedIDs})
    IN  [active |-> Cardinality(found) - inactive - locked, locked |-> locked, inactive |-> inactive]

All(counts) == counts.active + counts.locked + counts.inactive

(* statusOf: what a row says of the account.                                  *)
statusOf(a, until) == IF ~a.active THEN "inactive" ELSE IF until > 0 THEN "locked" ELSE "active"

(* The rows of the view, each with its lock and its last sign-in, and the     *)
(* counts of every view.                                                      *)
List(accounts, entries, in, now) ==
    LET locked == locks(entries, now)
        q == QueryOf(in, locked)
    IN  [rows |-> {[id |-> a.id, lastSignIn |-> LastSignIn(entries, a.id),
                    status |-> statusOf(a, IF a.id \in locked THEN lockedUntil(entries, a.id, now) ELSE 0)]
                    : a \in Search(accounts, entries, q)},
         counts |-> Counts(accounts, entries, q)]

-------------------------------------------------------------------------------
(* The sign-in history and the changes of an account                          *)

failedEvents == {"wrong_password", "locked_out", "refused_inactive"}

(* events: the events of a view, {} for every one.                            *)
events(view) == IF view = "failed" THEN failedEvents ELSE {}

Entries(entries, id, view) ==
    SelectSeq(Reverse(entries), LAMBDA e : e.account = id /\ (events(view) # {} => e.event \in events(view)))

EventCounts(entries, id) ==
    [e \in {x.event : x \in ToSet(entries)} |->
        Cardinality({i \in DOMAIN entries : entries[i].account = id /\ entries[i].event = e})]

signInCounts(byEvent) ==
    [all |-> MapThenSumSet(LAMBDA e : byEvent[e], DOMAIN byEvent),
     failed |-> MapThenSumSet(LAMBDA e : byEvent[e], DOMAIN byEvent \cap failedEvents)]

accessActions == {"password", "deactivated", "activated"}

(* narrow: the actions the view shows, or leaves out.                         *)
narrow(view) ==
    [only |-> IF view = "access" THEN accessActions ELSE {},
     except |-> IF view = "details" THEN accessActions ELSE {}]

canonicalActions == <<"created", "updated", "deactivated", "activated", "password", "email", "profile">>

(* NewChangeLog: the action a row's name is read as; the first canonical one  *)
(* of those written under it wins.                                            *)
read(written) ==
    [n \in {written[a] : a \in DOMAIN written} |->
        LET having == {i \in DOMAIN canonicalActions :
                          canonicalActions[i] \in DOMAIN written /\ written[canonicalActions[i]] = n}
        IN  canonicalActions[Min(having)]]

nameOf(written, a) == IF a \in DOMAIN written THEN written[a] ELSE a

actionOf(written, n) == IF n \in DOMAIN read(written) THEN read(written)[n] ELSE n

(* names: the row names that are read as one of the actions.                  *)
names(written, actions) == {nameOf(written, a) : a \in {a \in actions : actionOf(written, nameOf(written, a)) = a}}

(* Changes: an empty list is IN (NULL) to the database, and neither IN nor    *)
(* NOT IN of it holds of a row.                                               *)
Changes(rows, written, view) ==
    LET n == narrow(view)
        in(list) == names(written, list)
    IN  SelectSeq(Reverse(rows), LAMBDA row :
            /\ n.only # {} => row \in in(n.only)
            /\ n.except # {} => in(n.except) # {} /\ row \notin in(n.except))

ChangeCounts(rows, written) ==
    [a \in {actionOf(written, n) : n \in ToSet(rows)} |->
        Cardinality({i \in DOMAIN rows : actionOf(written, rows[i]) = a})]

changeCounts(byAction) ==
    LET all == MapThenSumSet(LAMBDA a : byAction[a], DOMAIN byAction)
        access == MapThenSumSet(LAMBDA a : byAction[a], DOMAIN byAction \cap accessActions)
    IN  [all |-> all, access |-> access, details |-> all - access]

-------------------------------------------------------------------------------
(* What a person did, by area                                                 *)

HasType(set, type) == type \in set.types \/ \E p \in set.prefixes : IsPrefix(p, type)

Covers(area) == area.types \cup area.prefixes

(* NewActivityAreas: what is wrong with the areas, "" for nothing.            *)
Problem(areas) ==
    LET wrong(i) ==
            IF ~areas[i].isKey THEN "not a key"
              ELSE IF areas[i].key \in {"other", "all"} THEN "reserved"
              ELSE IF \E j \in 1..(i - 1) : areas[j].key = areas[i].key THEN "named twice"
              ELSE IF Covers(areas[i]) = {} \/ <<>> \in Covers(areas[i]) THEN "covers no record type"
              ELSE ""
        bad == {i \in DOMAIN areas : wrong(i) # ""}
    IN  IF bad = {} THEN "" ELSE wrong(Min(bad))

identityArea == [key |-> "identity", isKey |-> TRUE, types |-> {<<"account">>}, prefixes |-> {}]

all(areas) == IF \E i \in DOMAIN areas : areas[i].key = "identity" THEN areas ELSE Append(areas, identityArea)

Keys(areas) == [i \in DOMAIN all(areas) |-> all(areas)[i].key] \o <<"other">>

AreaOf(areas, type) ==
    LET covering == {i \in DOMAIN all(areas) : HasType(all(areas)[i], type)}
    IN  IF covering = {} THEN "other" ELSE all(areas)[Min(covering)].key

NoSet == [types |-> {}, prefixes |-> {}]

(* sets: what to read for an area: within it, and outside every area named    *)
(* before it.                                                                 *)
sets(areas, key) ==
    LET list == all(areas)
        at == {i \in DOMAIN list : list[i].key = key}
        before == IF at = {} THEN DOMAIN list ELSE 1..(Min(at) - 1)
    IN  [within |-> IF at = {} THEN NoSet ELSE [types |-> list[Min(at)].types, prefixes |-> list[Min(at)].prefixes],
         outside |-> [types |-> UNION {list[i].types : i \in before}, prefixes |-> UNION {list[i].prefixes : i \in before}],
         ok |-> at # {} \/ key = "other"]

(* ActivityFilter.query: days, the last one inclusive; 0 is open.             *)
query(f) ==
    [from |-> f.from, to |-> IF f.to = 0 THEN 0 ELSE f.to + 1,
     ok |-> ~(f.from # 0 /\ f.to # 0 /\ f.from >= f.to + 1)]

InDays(row, q) == (q.from # 0 => row.at >= q.from) /\ (q.to # 0 => row.at < q.to)

ActivityActionOf(verb) ==
    CASE verb \in {"create", "created"} -> "created"
      [] verb \in {"delete", "deleted"} -> "deleted"
      [] OTHER -> "changed"

(* signedInAs: the sessions opened by signing in as the person, oldest first, *)
(* each from its opening to a little after its last use, or its expiry.       *)
lastUseSlack == 1

signedInAs(tokens) ==
    LET by == SelectSeq(tokens, LAMBDA t : t.actor # 0)
        end(t) == Min({t.expires, Max({t.lastUsed, t.created}) + lastUseSlack})
    IN  [i \in DOMAIN by |-> [actor |-> by[i].actor, start |-> by[i].created, end |-> end(by[i])]]

(* windows.at: the session opened last first.                                 *)
windowAt(windows, t) ==
    LET open == {i \in DOMAIN windows : windows[i].start <= t /\ t <= windows[i].end}
    IN  IF open = {} THEN 0 ELSE windows[Max(open)].actor

(* Activity: the condition on the type is left out when it is empty.  A row   *)
(* without a type (<<>>) is outside every set.                                *)
Activity(rows, q, asked, tokens) ==
    LET shown == SelectSeq(rows, LAMBDA r :
            /\ InDays(r, q)
            /\ Covers(asked.within) # {} => HasType(asked.within, r.type)
            /\ ~HasType(asked.outside, r.type))
    IN  [i \in DOMAIN shown |->
            [type |-> shown[i].type, action |-> ActivityActionOf(shown[i].action), at |-> shown[i].at,
             signedInAs |-> windowAt(signedInAs(tokens), shown[i].at)]]

ActivityByType(rows, q) ==
    [t \in {r.type : r \in ToSet(rows)} |-> Cardinality({i \in DOMAIN rows : rows[i].type = t /\ InDays(rows[i], q)})]

(* ActivityCounts: of every area, whichever is shown.                         *)
ActivityCounts(rows, areas, q) ==
    LET byType == ActivityByType(rows, q)
        of(key) == MapThenSumSet(LAMBDA t : byType[t], {t \in DOMAIN byType : AreaOf(areas, t) = key})
    IN  [key \in ToSet(Keys(areas)) |-> of(key)]

-------------------------------------------------------------------------------
(* The names of the people and service accounts a page mentions               *)

Names(accounts, ids) == [id \in {a.id : a \in {a \in accounts : a.id \in ids}} |->
    LET a == CHOOSE a \in accounts : a.id = id IN IF a.name = "" THEN a.login ELSE a.name]

(* SubjectNames: people, and service accounts when there are any installed.   *)
SubjectNames(accounts, robots, installed, subjects) ==
    LET people == Names(accounts, {s.id : s \in {s \in subjects : s.kind = "user"}})
        named == {s \in subjects : \/ s.kind = "user" /\ s.id \in DOMAIN people
                                   \/ s.kind = "service_account" /\ installed /\ s.id \in DOMAIN robots}
    IN  [s \in named |-> IF s.kind = "user" THEN people[s.id] ELSE robots[s.id]]

-------------------------------------------------------------------------------
(* Reading every page of a list, from the first to the last it says there is, *)
(* shows every row once, and the numbers of a page are those of its rows.     *)
ViewPagesCover(rows, perPage) ==
    LET page(n) == Paged(rows, [page |-> n, perPage |-> perPage])
        last == page(1).lastPage
    IN  /\ FlattenSeq([n \in 1..last |-> page(n).data]) = rows
        /\ \A n \in 1..last : page(n).data # <<>> => page(n).data = SubSeq(rows, page(n).from, page(n).to)
        /\ page(last + 1).data = <<>>

(* Each view of the list has as many rows as its count says, every row of a   *)
(* view has that view's status, every account is in exactly one of them, and  *)
(* nobody who is locked is missed by asking only about recent wrong passwords *)
(* (Admin.locks).                                                             *)
ListViewsAgree(accounts, entries, in, now) ==
    LET shown(view) == List(accounts, entries, [in EXCEPT !.view = view], now)
    IN  /\ \A view \in {"active", "locked", "inactive"} :
              /\ Cardinality(shown(view).rows) = shown("all").counts[view]
              /\ \A row \in shown(view).rows : row.status = view
        /\ Cardinality(shown("all").rows) = All(shown("all").counts)
        /\ shown("all").rows = UNION {shown(view).rows : view \in {"active", "locked", "inactive"}}
        /\ \A a \in accounts : lockedUntil(entries, a.id, now) > 0 => a.id \in locks(entries, now)
        /\ \A row \in shown("all").rows :
              /\ in.lastSignIn = "never" => row.lastSignIn = 0
              /\ in.lastSignIn = "idle" => row.lastSignIn \in 1..(in.idleBefore - 1)

(* The sign-ins and the changes a view shows are as many as its count says,   *)
(* for every way an application names the actions in the audit trail that     *)
(* leaves one action of the access view a name of its own.                    *)
HistoryViewsAgree(entries, rows, written, id) ==
    /\ LET counts == signInCounts(EventCounts(entries, id)) IN
       /\ Len(Entries(entries, id, "all")) = counts.all
       /\ Len(Entries(entries, id, "failed")) = counts.failed
    /\ names(written, accessActions) # {} =>
       LET counts == changeCounts(ChangeCounts(rows, written)) IN
       /\ \A view \in {"all", "access", "details"} : Len(Changes(rows, written, view)) = counts[view]

(* An area shows exactly the rows AreaOf gives it, as many as its count says, *)
(* and the areas together show everything the person did in those days; a row *)
(* is put down to somebody signed in as the person only while a session of    *)
(* theirs was open.                                                           *)
AreasAgree(rows, areas, tokens, f) ==
    Problem(areas) = "" /\ query(f).ok =>
    LET q == query(f)
        counts == ActivityCounts(rows, areas, q)
        shown(key) == Activity(rows, q, sets(areas, key), tokens)
    IN  /\ \A key \in ToSet(Keys(areas)) :
              /\ sets(areas, key).ok
              /\ Len(shown(key)) = counts[key]
              /\ \A i \in DOMAIN shown(key) : AreaOf(areas, shown(key)[i].type) = key
        /\ MapThenSumSet(LAMBDA key : counts[key], DOMAIN counts)
             = Len(Activity(rows, q, [within |-> NoSet, outside |-> NoSet], tokens))
        /\ \A key \in ToSet(Keys(areas)) : \A i \in DOMAIN shown(key) :
              shown(key)[i].signedInAs # 0 =>
                  \E t \in ToSet(tokens) : /\ t.actor = shown(key)[i].signedInAs
                                           /\ t.created <= shown(key)[i].at /\ shown(key)[i].at <= t.expires
===============================================================================
