--------------------------- MODULE Characteristics ---------------------------
(***************************************************************************)
(* The characteristics service (characteristics/core/core.go) over its SQL *)
(* store (characteristics/gormstore): a tree of items in two levels, read  *)
(* through a snapshot the process keeps for a while.  A request finds its  *)
(* item in the snapshot (loading it level by level, under the mutex, when  *)
(* there is none), writes, and drops the snapshot.  Another process writes *)
(* to the same tables without dropping it.                                 *)
(***************************************************************************)
EXTENDS Naturals, Sequences, FiniteSets, FiniteSetsExt, SequencesExt

CONSTANTS ChReqs,       \* requests in progress together
          ItemIds,      \* ids of rows (an id is of one level in this model)
          MaxChWrites   \* bound of the instance

VARIABLES items,      \* the tables: id -> [level, parent, order, active], a function on live ids
          used,       \* the items the application's Usage port says are used
          snap,       \* the kept snapshot, a set of at most one [rows, ver]
          loading,    \* the load that holds the mutex, a set of at most one
          chReq, ver, answered, chWrites

chVars == <<items, used, snap, loading, chReq, ver, answered, chWrites>>

ChIdle == [pc |-> "idle"]
CharLevels == {1, 2}
RowsOfLevel(l) == {id \in DOMAIN items : items[id].level = l}
NewId == {id \in ItemIds : id \notin DOMAIN items}

(* A root with children numbered from 1. *)
CharInit ==
    /\ \E root \in ItemIds, n \in 1..2 :
        /\ root + n \in ItemIds
        /\ items = [id \in root..(root + n) |->
                [level |-> IF id = root THEN 1 ELSE 2, parent |-> IF id = root THEN 0 ELSE root,
                 order |-> IF id = root THEN 1 ELSE id - root, active |-> TRUE]]
    /\ used = {} /\ snap = {} /\ loading = {}
    /\ chReq = [r \in ChReqs |-> ChIdle]
    /\ ver = 0 /\ answered = 0 /\ chWrites = 0

-----------------------------------------------------------------------------
(* Reading the snapshot. *)

(* snapshot.below: everything under the item. *)
below(rows, id) == {c \in DOMAIN rows : rows[c].parent = id /\ rows[c].level = rows[id].level + 1}
nodes(rows, level, parent) == {id \in DOMAIN rows : rows[id].level = level /\ rows[id].parent = parent}
(* Options: the active children of a parent, for a form field. *)
Options(rows, level, parent) ==
    IF (level = 1) # (parent = 0) THEN {} ELSE {id \in nodes(rows, level, parent) : rows[id].active}

(* report: what is used among the item and the items below it. *)
UsesOf(rows, id) == ({id} \cup below(rows, id)) \cap used

(* A request comes in; op = [kind, level, id, parent, position, force, active]. *)
ChBegin(r, op) ==
    /\ chReq[r].pc = "idle" /\ chWrites < MaxChWrites
    /\ chWrites' = chWrites + 1
    /\ chReq' = [chReq EXCEPT ![r] =
        IF op.kind = "create" /\ op.level = 1     \* a root item needs no parent to be found
        THEN [pc |-> "act", op |-> op, rows |-> <<>>, sver |-> ver]
        ELSE [pc |-> "find", op |-> op]]
    /\ UNCHANGED <<items, used, snap, loading, ver, answered>>

(* A kept snapshot that is not too old is used as it is. *)
UseSnapshot(r) ==
    /\ chReq[r].pc = "find" /\ loading = {}
    /\ \E s \in snap : chReq' = [chReq EXCEPT ![r] = [pc |-> "act", op |-> @.op, rows |-> s.rows, sver |-> s.ver]]
    /\ UNCHANGED <<items, used, snap, loading, ver, answered, chWrites>>

(* Without one, or when its time is over, the request holds the mutex and reads level 1 ... *)
LoadFirst(r) ==
    /\ chReq[r].pc = "find" /\ loading = {} /\ snap = {}
    /\ loading' = {[by |-> r, rows |-> Restrict(items, RowsOfLevel(1)), ver |-> ver]}
    /\ chReq' = [chReq EXCEPT ![r] = [pc |-> "load", op |-> @.op]]
    /\ UNCHANGED <<items, used, snap, ver, answered, chWrites>>

(* ... and then level 2, and keeps both. *)
LoadSecond(r) ==
    /\ chReq[r].pc = "load"
    /\ \E l \in loading :
        LET rows == Restrict(items, RowsOfLevel(2)) @@ l.rows
        IN  /\ snap' = {[rows |-> rows, ver |-> l.ver]}
            /\ chReq' = [chReq EXCEPT ![r] = [pc |-> "act", op |-> @.op, rows |-> rows, sver |-> l.ver]]
    /\ loading' = {}
    /\ UNCHANGED <<items, used, ver, answered, chWrites>>

(* The snapshot's time is over. *)
SnapshotExpires ==
    /\ snap # {} /\ loading = {}
    /\ snap' = {}
    /\ UNCHANGED <<items, used, loading, chReq, ver, answered, chWrites>>

-----------------------------------------------------------------------------
(* The writes of the store. *)

Siblings(rows, level, parent) == nodes(rows, level, parent)
OrdersOf(rows, ids) == {rows[id].order : id \in ids}

(* Create reads the last order among the siblings, and inserts the row after it. *)
LastOrder(op) == Max({0} \cup OrdersOf(items, Siblings(items, op.level, op.parent)))
CreateRow(op, id, last) ==
    (id :> [level |-> op.level, parent |-> op.parent, active |-> op.active, order |-> last + 1]) @@ items

(* Move: the positions the snapshot's siblings get when the item is put at a position, of   *)
(* the rows whose number changes.                                                           *)
SortedSiblings(rows, id) ==
    SetToSortSeq(Siblings(rows, rows[id].level, rows[id].parent) \ {id},
                 LAMBDA a, b : \/ rows[a].order < rows[b].order
                               \/ rows[a].order = rows[b].order /\ a < b)
Placed(rows, id, position) ==
    LET others == SortedSiblings(rows, id)
        at == IF position < 1 THEN 1 ELSE IF position > Len(others) + 1 THEN Len(others) + 1 ELSE position
    IN  InsertAt(others, at, id)
MoveChanges(rows, id, position) ==
    LET placed == Placed(rows, id, position)
        number == [row \in ToSet(placed) |-> CHOOSE i \in DOMAIN placed : placed[i] = row]
    IN  Restrict(number, {row \in ToSet(placed) : rows[row].order # number[row]})
(* SetOrders: an id that is gone is not written. *)
SetOrders(changes) ==
    [id \in DOMAIN items |-> IF id \in DOMAIN changes THEN [items[id] EXCEPT !.order = changes[id]] ELSE items[id]]

(* Delete: the item and what the snapshot shows below it. *)
DeleteRows(rows, id) == Restrict(items, DOMAIN items \ ({id} \cup below(rows, id)))

(* Whether the service goes on to write, by the snapshot the request found and what the     *)
(* application says is used.                                                                *)
ChildOf(op, rows) == op.level = 2 /\ op.parent \in DOMAIN rows /\ rows[op.parent].level = 1
Accepted(op, rows) ==
    CASE op.kind = "create" -> op.level = 1 \/ ChildOf(op, rows)
      [] op.kind = "move" -> op.id \in DOMAIN rows /\ DOMAIN MoveChanges(rows, op.id, op.position) # {}
      [] op.kind = "delete" -> /\ op.id \in DOMAIN rows
                               /\ op.force \/ (UsesOf(rows, op.id) = {} /\ below(rows, op.id) = {})
      [] op.kind = "get" -> FALSE
      [] OTHER -> op.id \in DOMAIN rows

CheckItem(r) ==
    /\ chReq[r].pc = "act"
    /\ chReq' = [chReq EXCEPT ![r] =
        IF Accepted(@.op, @.rows)
        THEN [pc |-> "write", op |-> @.op, rows |-> @.rows,
              last |-> LastOrder(@.op)]  \* Create reads the last order before it inserts
        ELSE ChIdle]                     \* refused: not found, no parent, in use, items below it; or read
    /\ UNCHANGED <<items, used, snap, loading, ver, answered, chWrites>>

Written(op, rows) ==
    CASE op.kind = "move" -> SetOrders(MoveChanges(rows, op.id, op.position))
      [] op.kind = "delete" -> DeleteRows(rows, op.id)
      [] op.kind = "active" /\ op.id \in DOMAIN items -> [items EXCEPT ![op.id].active = op.active]
      [] OTHER -> items       \* an update changes names and values; a row that is gone is not found

WriteItem(r) ==
    /\ chReq[r].pc = "write"
    /\ IF chReq[r].op.kind = "create"
       THEN \E id \in NewId : items' = CreateRow(chReq[r].op, id, chReq[r].last)
       ELSE items' = Written(chReq[r].op, chReq[r].rows)
    /\ ver' = ver + 1
    /\ chReq' = [chReq EXCEPT ![r] = [pc |-> "drop", op |-> @.op, wver |-> ver + 1]]
    /\ UNCHANGED <<used, snap, loading, answered, chWrites>>

(* The write failed: the snapshot is dropped all the same. *)
WriteFails(r) ==
    /\ chReq[r].pc = "write"
    /\ chReq' = [chReq EXCEPT ![r] = [pc |-> "drop", op |-> @.op, wver |-> 0]]
    /\ UNCHANGED <<items, used, snap, loading, ver, answered, chWrites>>

(* A move, a delete and a failure are answered now, the others after reading the item back. *)
AfterDrop(req) ==
    IF req.wver = 0 \/ req.op.kind \in {"move", "delete"}
    THEN ChIdle
    ELSE [pc |-> "find", op |-> [req.op EXCEPT !.kind = "get", !.position = req.wver]]

(* A slip: the snapshot is kept. *)
KeepMutant(r) ==
    /\ chReq[r].pc = "drop" /\ loading = {}
    /\ answered' = Max({answered, chReq[r].wver})
    /\ chReq' = [chReq EXCEPT ![r] = AfterDrop(@)]
    /\ UNCHANGED <<items, used, snap, loading, ver, chWrites>>
(* drop waits for the mutex. *)
drop(r) ==
    /\ chReq[r].pc = "drop" /\ loading = {}
    /\ snap' = {}
    /\ answered' = Max({answered, chReq[r].wver})
    /\ chReq' = [chReq EXCEPT ![r] = AfterDrop(@)]
    /\ UNCHANGED <<items, used, loading, ver, chWrites>>

(* The application starts to use an item. *)
UseItem(id) ==
    /\ id \in DOMAIN items \ used
    /\ used' = used \cup {id}
    /\ UNCHANGED <<items, snap, loading, chReq, ver, answered, chWrites>>

Op(kind, level, id, parent, position, flag) ==
    [kind |-> kind, level |-> level, id |-> id, parent |-> parent, position |-> position,
     force |-> flag, active |-> flag]

CharNext ==
    \/ \E r \in ChReqs :
        \/ \E parent \in {0} \cup DOMAIN items :
            ChBegin(r, Op("create", IF parent = 0 THEN 1 ELSE 2, 0, parent, 0, TRUE))
        \/ \E id \in DOMAIN items :
            \/ \E position \in 1..2 : ChBegin(r, Op("move", 0, id, 0, position, TRUE))
            \/ \E flag \in BOOLEAN : ChBegin(r, Op("delete", 0, id, 0, 0, flag))
            \/ ChBegin(r, Op("active", 0, id, 0, 0, FALSE))
            \/ ChBegin(r, Op("update", 0, id, 0, 0, FALSE))
        \/ UseSnapshot(r) \/ LoadFirst(r) \/ LoadSecond(r)
        \/ CheckItem(r) \/ WriteItem(r) \/ WriteFails(r) \/ drop(r)
    \/ SnapshotExpires
    \/ \E id \in ItemIds : UseItem(id)

CharSpec == CharInit /\ [][CharNext]_chVars

-----------------------------------------------------------------------------
(* A snapshot is never older than a write this process has answered, however loads, writes *)
(* and drops interleave, and the item a request reads back is never older than what it has *)
(* just written.                                                                           *)
SnapshotFresh == \A s \in snap : s.ver >= answered
ReadBackFresh ==
    \A r \in ChReqs : (chReq[r].pc = "act" /\ chReq[r].op.kind = "get") => chReq[r].sver >= chReq[r].op.position

(* A move made on the rows as they are numbers the siblings 1..n with the item where it was *)
(* put; a delete made on them leaves nothing below the item.                                *)
CurrentWritesRight ==
    [][\A r \in ChReqs :
        (chReq[r].pc = "write" /\ chReq'[r].pc = "drop" /\ chReq'[r].wver # 0 /\ chReq[r].rows = items)
        => LET op == chReq[r].op
           IN  /\ op.kind = "move" =>
                    LET family == Siblings(items, items[op.id].level, items[op.id].parent)
                    IN  /\ {items'[id].order : id \in family} = 1..Cardinality(family)
                        /\ items'[op.id].order = Min({op.position, Cardinality(family)})
               /\ op.kind = "delete" =>
                    \A id \in DOMAIN items' : id # op.id /\ items'[id].parent # op.id
      ]_chVars

\* A snapshot is never older than a write this process has answered, and a move or a delete
\* made on the rows as they are leaves the siblings numbered and nothing below (Service.Move,
\* Delete, snapshot).
TreesKept == [](SnapshotFresh /\ ReadBackFresh) /\ CurrentWritesRight
=============================================================================
