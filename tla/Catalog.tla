--------------------------------- MODULE Catalog ---------------------------------
(***************************************************************************)
(* The table registry of BoogyDb: the map of TableStates in memory, the    *)
(* image of it that persist_registry and Drop write to page 0, and what    *)
(* BoogyDb::open rebuilds from that image after a clean shutdown or a      *)
(* process crash.                                                          *)
(*                                                                         *)
(* A schema change runs in steps: change one TableMeta under its write     *)
(* lock; clone every TableMeta, one read lock at a time, under the map's   *)
(* read lock (snapshot_table_metas); write the clones to page 0            *)
(* (persist_registry).  A row change updates root_page, row_count and      *)
(* next_rowid in memory only.                                              *)
(*                                                                         *)
(* One commit_write is one step here, and what it commits survives a       *)
(* process crash: that is PageStore's subject.  The content of a schema is *)
(* TableOps' subject: here it is a version number.                         *)
(***************************************************************************)
EXTENDS SmallTree

CONSTANTS Threads, Names,
          NoImage,
          Workloads,  \* what the threads do: [threads, names, ops, gated, tables, alters,
                      \* crashes, shutdowns]; gated: the calls go through
                      \* AsyncBoogyDb's write gate; the last four are bounds
          MaxTables, MaxPages, MaxRow

ASSUME BoundsAssumption == MaxTables \in Nat /\ MaxPages \in Nat \ {0} /\ MaxRow \in Nat
ASSUME WorkloadAssumption ==
    \A w \in Workloads : /\ w.threads \subseteq Threads /\ w.names \subseteq Names
                         /\ w.gated \in BOOLEAN /\ w.tables \in 0 .. MaxTables
                         /\ {w.alters, w.crashes, w.shutdowns} \subseteq Nat

Page == 0 .. MaxPages - 1
TableIds == 1 .. MaxTables
RowIds == 1 .. MaxRow
CountMod == 2 * MaxRow + 2     \* stands for 2^64: row_count wraps

\* NoImage is none of the images page 0 can hold.
Images == [next : Nat,
           metas : UNION {[S -> [id : TableIds, root : Page, count : Nat, next : Nat, schema : Nat]]
                             : S \in SUBSET Names}]
ASSUME ImageAssumption == NoImage \notin Images

VARIABLES
    status,     \* "up", "flushed" (Drop before wal.truncate), "closed", "crashed"
    tables,     \* name -> table id: the map of Arc<RwLock<TableState>>
    obj,        \* table id -> TableMeta, kept while a thread may hold the Arc
    nextId,     \* next_table_id
    pages, numPages,
    disk,       \* page 0 in the data file
    log,        \* the last image of page 0 in the WAL
    pc,
    cur,        \* thread -> [name, id, root] of its call
    snap, todo, \* thread -> the clones taken, the names still to clone
    committed,  \* table id -> rows of the calls that returned Ok (history)
    crashes, shutdowns,
    load        \* the workload of this behaviour

mem == <<tables, obj, nextId>>
vars == <<status, tables, obj, nextId, pages, numPages, disk, log, pc, cur, snap, todo,
          committed, crashes, shutdowns, load>>

NewMeta(id, root) == [id |-> id, root |-> root, count |-> 0, next |-> 1, schema |-> 0]
NoCall == [name |-> NoImage, id |-> 0, root |-> 0]
EmptyImage == [next |-> 1, metas |-> <<>>]

With(f, x, y) == [z \in DOMAIN f \cup {x} |-> IF z = x THEN y ELSE f[z]]
Without(f, x) == [z \in DOMAIN f \ {x} |-> f[z]]

\* The registry as it is now, and the image open() would load now.
Current == [next |-> nextId, metas |-> [n \in DOMAIN tables |-> obj[tables[n]]]]
Recovered == IF log # NoImage THEN log ELSE disk

Init ==
    /\ status = "up"
    /\ tables = <<>> /\ obj = <<>> /\ nextId = 1
    /\ pages = [p \in Page |-> Hole] /\ numPages = 0
    /\ disk = EmptyImage /\ log = NoImage
    /\ pc = [t \in Threads |-> "idle"]
    /\ cur = [t \in Threads |-> NoCall]
    /\ snap = [t \in Threads |-> EmptyImage]
    /\ todo = [t \in Threads |-> {}]
    /\ committed = [i \in TableIds |-> {}]
    /\ crashes = 0 /\ shutdowns = 0
    /\ load \in Workloads

\* A thread may enter a call; behind the write gate, only when nobody is in one.
MayCall(t) == status = "up" /\ pc[t] = "idle" /\ (load.gated => \A u \in Threads : pc[u] = "idle")

Goto(t, l) == pc' = [pc EXCEPT ![t] = l]
Return(t) == Goto(t, "idle") /\ cur' = [cur EXCEPT ![t] = NoCall]

\* Mutant: the map is not locked while it is walked.
MapNeverLocked == TRUE

\* snapshot_table_metas holds the map's read lock: the map cannot change.
MapUnread == \A t \in Threads : todo[t] = {}

------------------------------------------------------------------------------
(* create_table and drop_table. *)

CreateCheck(t, n) ==
    /\ "create_table" \in load.ops /\ MayCall(t)
    /\ n \notin DOMAIN tables
    /\ Goto(t, "checked")
    /\ cur' = [cur EXCEPT ![t] = [NoCall EXCEPT !.name = n]]
    /\ UNCHANGED <<status, mem, pages, numPages, disk, log, snap, todo, committed, crashes, shutdowns>>

\* Page 0 comes before the first root page.
FirstFree == IF numPages = 0 THEN 1 ELSE numPages

\* Mutant: the table id is read but not advanced.
CreateSameId(t) ==
    /\ pc[t] = "checked" /\ status = "up"
    /\ nextId <= load.tables /\ FirstFree < MaxPages
    /\ pages' = [pages EXCEPT ![FirstFree] = Leaf({})]
    /\ numPages' = FirstFree + 1
    /\ cur' = [cur EXCEPT ![t].id = nextId, ![t].root = FirstFree]
    /\ Goto(t, "allocated")
    /\ UNCHANGED <<status, mem, disk, log, snap, todo, committed, crashes, shutdowns>>

CreateAllocate(t) ==
    /\ pc[t] = "checked" /\ status = "up"
    /\ nextId <= load.tables /\ FirstFree < MaxPages
    /\ pages' = [pages EXCEPT ![FirstFree] = Leaf({})]
    /\ numPages' = FirstFree + 1
    /\ nextId' = nextId + 1
    /\ cur' = [cur EXCEPT ![t].id = nextId, ![t].root = FirstFree]
    /\ Goto(t, "allocated")
    /\ UNCHANGED <<status, tables, obj, disk, log, snap, todo, committed, crashes, shutdowns>>

\* Mutant: no second look at the map.
CreateOverwrite(t) ==
    /\ pc[t] = "allocated" /\ status = "up" /\ MapUnread
    /\ Goto(t, "changed")
    /\ tables' = With(tables, cur[t].name, cur[t].id)
    /\ obj' = With(obj, cur[t].id, NewMeta(cur[t].id, cur[t].root))
    /\ committed' = [committed EXCEPT ![cur[t].id] = {}]
    /\ UNCHANGED <<status, nextId, pages, numPages, disk, log, cur, snap, todo, crashes, shutdowns>>

\* The name is looked up again under the write lock: the loser of a race gets
\* TableExists and its root page stays behind.
CreateRegister(t) ==
    /\ pc[t] = "allocated" /\ status = "up" /\ MapUnread
    /\ IF cur[t].name \in DOMAIN tables
       THEN /\ Return(t)
            /\ UNCHANGED <<tables, obj, committed>>
       ELSE /\ Goto(t, "changed") /\ UNCHANGED cur
            /\ tables' = With(tables, cur[t].name, cur[t].id)
            /\ obj' = With(obj, cur[t].id, NewMeta(cur[t].id, cur[t].root))
            /\ committed' = [committed EXCEPT ![cur[t].id] = {}]
    /\ UNCHANGED <<status, nextId, pages, numPages, disk, log, snap, todo, crashes, shutdowns>>

\* Mutant: the registry is not persisted.
DropUnsaved(t, n) ==
    /\ "drop_table" \in load.ops /\ MayCall(t) /\ MapUnread
    /\ n \in DOMAIN tables
    /\ tables' = Without(tables, n)
    /\ UNCHANGED <<status, obj, nextId, pages, numPages, disk, log, pc, cur, snap, todo, committed,
                   crashes, shutdowns>>

DropTable(t, n) ==
    /\ "drop_table" \in load.ops /\ MayCall(t) /\ MapUnread
    /\ n \in DOMAIN tables
    /\ tables' = Without(tables, n)
    /\ Goto(t, "changed")
    /\ UNCHANGED <<status, obj, nextId, pages, numPages, disk, log, cur, snap, todo, committed,
                   crashes, shutdowns>>

------------------------------------------------------------------------------
(* Calls on one table: the Arc is cloned, then the table is write-locked. *)

Resolve(t, n) ==
    /\ MayCall(t)
    /\ n \in DOMAIN tables
    /\ cur' = [cur EXCEPT ![t] = [NoCall EXCEPT !.name = n, !.id = tables[n]]]
    /\ Goto(t, "resolved")
    /\ UNCHANGED <<status, mem, pages, numPages, disk, log, snap, todo, committed, crashes, shutdowns>>

Meta(t) == obj[cur[t].id]
Resolved(t, op) == op \in load.ops /\ pc[t] = "resolved" /\ status = "up"

\* add_column, rename_column, drop_column, create_index_ex, drop_index.
Alter(t) ==
    /\ Resolved(t, "alter") /\ Meta(t).schema < load.alters
    /\ obj' = [obj EXCEPT ![cur[t].id].schema = @ + 1]
    /\ Goto(t, "changed")
    /\ UNCHANGED <<status, tables, nextId, pages, numPages, disk, log, cur, snap, todo, committed,
                   crashes, shutdowns>>

\* Mutant: a root split is not recorded in root_page.
AddKeepRoot(t, x, nxt) ==
    LET m == Meta(t)
        r == TreeInsert(pages, m.root, x, numPages)
    IN  /\ numPages + r.allocated <= MaxPages
        /\ pages' = Over(r.writes, pages)
        /\ numPages' = numPages + r.allocated
        /\ obj' = [obj EXCEPT ![cur[t].id] = [m EXCEPT !.count = (m.count + 1) % CountMod, !.next = nxt]]
        /\ committed' = [committed EXCEPT ![cur[t].id] = @ \cup {x}]

\* A row goes into the tree with the given next_rowid; the metadata follows.
Add(t, x, nxt) ==
    LET m == Meta(t)
        r == TreeInsert(pages, m.root, x, numPages)
    IN  /\ numPages + r.allocated <= MaxPages
        /\ pages' = Over(r.writes, pages)
        /\ numPages' = numPages + r.allocated
        /\ obj' = [obj EXCEPT ![cur[t].id] =
                     [m EXCEPT !.root = r.root, !.count = (m.count + 1) % CountMod, !.next = nxt]]
        /\ committed' = [committed EXCEPT ![cur[t].id] = @ \cup {x}]

\* An id that is in the tree already is DuplicateKey: next_rowid stays advanced.
Insert(t) ==
    /\ Resolved(t, "insert") /\ Meta(t).next <= MaxRow
    /\ IF Meta(t).next \in RowsFrom(pages, Meta(t).root)
       THEN /\ obj' = [obj EXCEPT ![cur[t].id].next = @ + 1]
            /\ UNCHANGED <<pages, numPages, committed>>
       ELSE Add(t, Meta(t).next, Meta(t).next + 1)
    /\ Return(t)
    /\ UNCHANGED <<status, tables, nextId, disk, log, snap, todo, crashes, shutdowns>>

InsertWithId(t, x) ==
    /\ Resolved(t, "insert_with_id")
    /\ x \notin RowsFrom(pages, Meta(t).root)
    /\ Add(t, x, IF x >= Meta(t).next THEN x + 1 ELSE Meta(t).next)
    /\ Return(t)
    /\ UNCHANGED <<status, tables, nextId, disk, log, snap, todo, crashes, shutdowns>>

\* Mutant: a root leaf is rewritten in a fresh page instead of in place.
DeleteCopied(t, x) ==
    LET old == Meta(t).root
    IN  /\ Resolved(t, "delete")
        /\ IsLeaf(pages[old]) /\ x \in pages[old].rows /\ numPages < MaxPages
        /\ pages' = [pages EXCEPT ![numPages] = Leaf(pages[old].rows \ {x})]
        /\ numPages' = numPages + 1
        /\ obj' = [obj EXCEPT ![cur[t].id] = [obj[cur[t].id] EXCEPT !.root = numPages,
                                                                  !.count = (@ + CountMod - 1) % CountMod]]
        /\ committed' = [committed EXCEPT ![cur[t].id] = @ \ {x}]
        /\ Return(t)
        /\ UNCHANGED <<status, tables, nextId, disk, log, snap, todo, crashes, shutdowns>>

Delete(t, x) ==
    /\ Resolved(t, "delete")
    /\ x \in RowsFrom(pages, Meta(t).root)
    /\ pages' = Over(TreeDelete(pages, Meta(t).root, x).writes, pages)
    /\ obj' = [obj EXCEPT ![cur[t].id].count = (Meta(t).count + CountMod - 1) % CountMod]
    /\ committed' = [committed EXCEPT ![cur[t].id] = @ \ {x}]
    /\ Return(t)
    /\ UNCHANGED <<status, tables, nextId, numPages, disk, log, snap, todo, crashes, shutdowns>>

------------------------------------------------------------------------------
(* snapshot_table_metas and persist_registry. *)

SnapBegin(t) ==
    /\ pc[t] = "changed" /\ status = "up"
    /\ snap' = [snap EXCEPT ![t] = [next |-> nextId, metas |-> <<>>]]
    /\ todo' = [todo EXCEPT ![t] = DOMAIN tables]
    /\ Goto(t, "snapshot")
    /\ UNCHANGED <<status, mem, pages, numPages, disk, log, cur, committed, crashes, shutdowns>>

SnapOne(t, n) ==
    /\ pc[t] = "snapshot" /\ n \in todo[t] /\ status = "up"
    /\ snap' = [snap EXCEPT ![t].metas = With(@, n, obj[tables[n]])]
    /\ todo' = [todo EXCEPT ![t] = @ \ {n}]
    /\ UNCHANGED <<status, mem, pages, numPages, disk, log, pc, cur, committed, crashes, shutdowns>>

PersistRegistry(t) ==
    /\ pc[t] = "snapshot" /\ todo[t] = {} /\ status = "up"
    /\ log' = snap[t]
    /\ numPages' = FirstFree
    /\ Return(t)
    /\ snap' = [snap EXCEPT ![t] = EmptyImage]
    /\ UNCHANGED <<status, mem, pages, disk, todo, committed, crashes, shutdowns>>

------------------------------------------------------------------------------
(* Drop, crash and open. *)

AllIdle == \A t \in Threads : pc[t] = "idle"

\* Mutant: the registry is left to the last schema change.
FlushPagesOnly ==
    /\ status = "up" /\ AllIdle /\ shutdowns < load.shutdowns
    /\ disk' = Recovered
    /\ status' = "flushed"
    /\ shutdowns' = shutdowns + 1
    /\ numPages' = FirstFree
    /\ UNCHANGED <<mem, pages, log, pc, cur, snap, todo, committed, crashes>>

\* Drop: registry into page 0 without a WAL entry, sync_all ...
Flush ==
    /\ status = "up" /\ AllIdle /\ shutdowns < load.shutdowns
    /\ disk' = Current
    /\ status' = "flushed"
    /\ shutdowns' = shutdowns + 1
    /\ numPages' = FirstFree
    /\ UNCHANGED <<mem, pages, log, pc, cur, snap, todo, committed, crashes>>

\* ... then wal.truncate.
TruncateWal ==
    /\ status = "flushed"
    /\ log' = NoImage
    /\ status' = "closed"
    /\ UNCHANGED <<mem, pages, numPages, disk, pc, cur, snap, todo, committed, crashes, shutdowns>>

\* A process crash: the threads and the memory are gone.
Crash ==
    /\ status \in {"up", "flushed"} /\ crashes < load.crashes
    /\ status' = "crashed" /\ crashes' = crashes + 1
    /\ pc' = [t \in Threads |-> "idle"]
    /\ cur' = [t \in Threads |-> NoCall]
    /\ snap' = [t \in Threads |-> EmptyImage]
    /\ todo' = [t \in Threads |-> {}]
    /\ tables' = <<>> /\ obj' = <<>> /\ nextId' = 1
    /\ UNCHANGED <<pages, numPages, disk, log, committed, shutdowns>>

\* open: the WAL is replayed over the file and truncated, page 0 is decoded.
Open ==
    LET m == Recovered.metas
    IN  /\ status \in {"closed", "crashed"}
        /\ disk' = Recovered /\ log' = NoImage
        /\ nextId' = Recovered.next
        /\ tables' = [n \in DOMAIN m |-> m[n].id]
        /\ obj' = [i \in {m[n].id : n \in DOMAIN m} |-> m[CHOOSE n \in DOMAIN m : m[n].id = i]]
        /\ status' = "up"
        /\ UNCHANGED <<pages, numPages, pc, cur, snap, todo, committed, crashes, shutdowns>>

Step ==
    \/ \E t \in load.threads :
          \/ \E n \in load.names : CreateCheck(t, n) \/ DropTable(t, n) \/ Resolve(t, n) \/ SnapOne(t, n)
          \/ \E x \in RowIds : InsertWithId(t, x) \/ Delete(t, x)
          \/ CreateAllocate(t) \/ CreateRegister(t) \/ Alter(t) \/ Insert(t)
          \/ SnapBegin(t) \/ PersistRegistry(t)
    \/ Flush \/ TruncateWal \/ Crash \/ Open

Next == Step /\ UNCHANGED load

Spec == Init /\ [][Next]_vars

------------------------------------------------------------------------------
(* Properties. *)

MetaType == [id : TableIds, root : Page, count : 0 .. CountMod - 1, next : 1 .. MaxRow + 1,
             schema : 0 .. load.alters]

ImageOK(im) == /\ im.next \in 1 .. MaxTables + 1
               /\ DOMAIN im.metas \subseteq Names
               /\ \A n \in DOMAIN im.metas : im.metas[n] \in MetaType

\* Types of the variables; a snapshot in progress only names registered tables.
TypeOK ==
    /\ status \in {"up", "flushed", "closed", "crashed"}
    /\ DOMAIN tables \subseteq Names /\ \A n \in DOMAIN tables : tables[n] \in DOMAIN obj
    /\ \A i \in DOMAIN obj : obj[i] \in MetaType
    /\ nextId \in 1 .. MaxTables + 1 /\ numPages \in 0 .. MaxPages
    /\ ImageOK(disk) /\ (log = NoImage \/ ImageOK(log))
    /\ \A t \in Threads :
          /\ pc[t] \in {"idle", "checked", "allocated", "resolved", "changed", "snapshot"}
          /\ ImageOK(snap[t]) /\ todo[t] \subseteq DOMAIN tables

Separate(im) ==
    \A m, n \in DOMAIN im.metas :
        /\ im.metas[n].id < im.next
        /\ PagesFrom(pages, im.metas[n].root) \subseteq 1 .. numPages - 1
        /\ m # n => /\ im.metas[m].id # im.metas[n].id
                    /\ PagesFrom(pages, im.metas[m].root) \cap PagesFrom(pages, im.metas[n].root) = {}

\* Two tables never share a table id or a page, neither in memory nor in the
\* registry that a crash at this moment would bring back, whatever create_table
\* and drop_table calls raced: a lost table's id and pages are never mixed up
\* with those of a table that survived.
TablesSeparate == Separate(Recovered) /\ (status = "up" => Separate(Current))

\* While the database is open no create_table replaces a table that another
\* call has registered under the same name.
TablesNotReplaced ==
    [][ status = "up" /\ status' = "up" =>
          \A n \in DOMAIN tables \cap DOMAIN tables' : tables'[n] = tables[n] ]_vars

\* What a schema change decided: the names, their table ids and their schemas.
Shape(im) == [n \in DOMAIN im.metas |-> [id |-> im.metas[n].id, schema |-> im.metas[n].schema]]

\* Behind the write gate, when no call is in progress, a crash brings back
\* exactly the tables and schemas the callers were told of.
DdlDurable == load.gated /\ status = "up" /\ AllIdle => Shape(Recovered) = Shape(Current)

\* After any history of crashes, the rows that get, update and delete find by id
\* are rows whose insert returned Ok and whose delete did not: a search from an old
\* root page never finds a deleted row or another table's.  (find and scan_batch
\* follow next_leaf beyond an old root's subtree, where a row inserted and deleted
\* again below the old root may still lie: the claim is for lookups by id.)
NoResurrection ==
    status = "up" => \A n \in DOMAIN tables :
        RowsFrom(pages, obj[tables[n]].root) \subseteq committed[tables[n]]

\* Without crashes every committed row is found by id from root_page, row_count
\* is the number of rows and next_rowid is above all of them, across shutdowns,
\* schema changes and dropped tables.
RowsExact ==
    status = "up" /\ crashes = 0 => \A n \in DOMAIN tables :
        LET m == obj[tables[n]]
        IN  /\ RowsFrom(pages, m.root) = committed[m.id]
            /\ m.count = Cardinality(committed[m.id])
            /\ \A x \in committed[m.id] : x < m.next

\* Opening after a clean shutdown restores the catalog as it was, row counts,
\* roots and id counters included.
CleanReopen == [][ status = "closed" /\ status' = "up" => Current' = Current ]_vars

\* Every row whose insert returned Ok and that was not deleted is found by its id,
\* also after a process crash.
CommittedRowsSurvive ==
    status = "up" => \A n \in DOMAIN tables :
        committed[tables[n]] \subseteq RowsFrom(pages, obj[tables[n]].root)
==============================================================================
