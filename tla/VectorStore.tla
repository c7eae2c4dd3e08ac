------------------------------- MODULE VectorStore -------------------------------
(***************************************************************************)
(* One vector collection of BoogyDb (db.rs, vector/collection.rs,          *)
(* vector/wal.rs): the mapped file and its graph, its own write-ahead log, *)
(* the row-to-node maps in memory, and the mapping table __vec_... in the  *)
(* database from which an open rebuilds those maps.                        *)
(*                                                                         *)
(* A call takes the collection's write lock, runs one or two jobs on the   *)
(* collection (each: stage, log, commit, apply, flush, truncate), releases *)
(* the lock and then changes the mapping rows, one committed operation     *)
(* each.  The process may die between any two of these steps: a plain file *)
(* is mapped and keeps what was stored, its header only what was flushed;  *)
(* an encrypted file keeps what the last flush wrote.                      *)
(*                                                                         *)
(* That a committed mapping row survives is PageStore's and Catalog's      *)
(* subject.  The rows of the owning table are taken to exist.              *)
(***************************************************************************)
EXTENDS Hnsw

CONSTANTS Threads, Rows,
          Vectors,    \* the vectors searched for
          Levels,     \* the layers the random generator draws
          Workloads   \* what the callers do: [ops, mine, vectors, gated, sealed, faults, limit]
                      \*   ops     the calls made
                      \*   mine    thread -> the row ids it calls with
                      \*   vectors row id -> the vectors stored for it
                      \*   gated   the calls go through AsyncBoogyDb's write gate
                      \*   sealed  the collection is encrypted
                      \*   faults  [max, any]: process deaths, only between calls unless any
                      \*   limit   bound: graph words after which nothing is inserted

ASSUME WorkloadAssumption ==
    \A w \in Workloads : /\ DOMAIN w.mine = Threads /\ \A r \in Rows : w.vectors[r] \subseteq Vectors
                         /\ {w.gated, w.sealed, w.faults.any} \subseteq BOOLEAN
                         /\ w.faults.max \in Nat /\ w.limit \in Nat
                         /\ w.ops \cap {"create", "drop"} # {} => w.gated

VARIABLES
    status,     \* "up", "down", "replayed" (in open, before the log is truncated)
    coll,       \* [file, rows, open]: the file and the mapping table exist, it is open
    m,          \* the mapped file, with the header in memory
    disk,       \* the header as last flushed and, if encrypted, the whole file
    wal,        \* entries of the vector log
    nodeOf, rowOf,  \* rowid_to_node, node_to_rowid
    table,      \* the mapping table: row id -> node
    pc, cur,    \* thread -> where it is, [jobs, rows, tx] of its call
    content,    \* history: row id -> the vector last stored for it
    acked,      \* history: row ids whose last insert or update returned Ok
    churned,    \* history: a node of this collection has been freed
    deaths, load

history == <<content, acked, churned>>
maps == <<nodeOf, rowOf>>
vars == <<status, coll, m, disk, wal, nodeOf, rowOf, table, pc, cur, content, acked, churned, deaths, load>>

NoCall == [jobs |-> <<>>, rows |-> <<>>, tx |-> <<>>]
Saved(f) == [h |-> f.h, img |-> IF load.sealed THEN f ELSE NewFile]
With(f, x, y) == [z \in DOMAIN f \cup {x} |-> IF z = x THEN y ELSE f[z]]
Without(f, x) == [z \in DOMAIN f \ {x} |-> f[z]]

Init ==
    /\ load \in Workloads
    /\ status = "up" /\ coll = [file |-> TRUE, rows |-> TRUE, open |-> TRUE]
    /\ m = NewFile /\ disk = Saved(NewFile) /\ wal = <<>>
    /\ nodeOf = <<>> /\ rowOf = <<>> /\ table = <<>>
    /\ pc = [t \in Threads |-> "idle"] /\ cur = [t \in Threads |-> NoCall]
    /\ content = [r \in Rows |-> 0] /\ acked = {} /\ churned = FALSE /\ deaths = 0

------------------------------------------------------------------------------
(* Calls. *)

Inside == {"start", "staged", "logged", "committed", "applied", "flushed"}
Unlocked == \A t \in Threads : pc[t] \notin Inside
AllIdle == \A t \in Threads : pc[t] = "idle"
MayCall(t, op) == /\ op \in load.ops /\ status = "up" /\ pc[t] = "idle"
                  /\ load.gated => AllIdle

Goto(t, l) == pc' = [pc EXCEPT ![t] = l]
Put(r, x) == [op |-> "insert", row |-> r, x |-> x]
Drop(r) == [op |-> "delete", row |-> r, x |-> 0]
BadVector == 0    \* a vector of the wrong dimension

\* Take the collection's write lock with the jobs of a call.
Enter(t, jobs) ==
    /\ coll.open /\ Unlocked
    /\ Goto(t, "start")
    /\ cur' = [cur EXCEPT ![t] = [NoCall EXCEPT !.jobs = jobs]]
    /\ UNCHANGED <<status, coll, m, disk, wal, maps, table, history, deaths>>

\* Bound: vectors at equal distances from each other are not in the file together.
Fresh(x) == \A n \in 0 .. m.h.count - 1 : m.slot[n] # VectorSlot(x)

VectorInsert(t, r, x) == MayCall(t, "insert") /\ Fresh(x) /\ Enter(t, <<Put(r, x)>>)
VectorInsertBatch(t, r, x, s, y) ==
    MayCall(t, "batch") /\ Fresh(x) /\ Fresh(y) /\ x # y /\ Enter(t, <<Put(r, x), Put(s, y)>>)
VectorUpdate(t, r, x) == MayCall(t, "update") /\ Fresh(x) /\ Enter(t, <<Drop(r), Put(r, x)>>)
VectorUpdateBad(t, r) == MayCall(t, "update_bad") /\ Enter(t, <<Drop(r), Put(r, BadVector)>>)
VectorDelete(t, r) == MayCall(t, "delete") /\ Enter(t, <<Drop(r)>>)

Job(t) == cur[t].jobs[1]

\* A job that is refused ends the call: what earlier jobs did stays, and no
\* mapping row is written.
Refused(t) ==
    /\ pc[t] = "start"
    /\ IF Job(t).op = "insert" THEN Job(t).x = BadVector \/ Job(t).row \in DOMAIN nodeOf
       ELSE Job(t).row \notin DOMAIN nodeOf
    /\ Goto(t, "idle") /\ cur' = [cur EXCEPT ![t] = NoCall]
    /\ UNCHANGED <<status, coll, m, disk, wal, maps, table, history, deaths>>

\* VectorCollection::insert up to the log: a node, its vector and an empty
\* graph record are in the mapped file already.  A file at its capacity has
\* been grown and flushed.
StageInsert(t, level) ==
    LET r == Job(t).row
        x == Job(t).x
        a == AllocateNode(m)
        f == AllocateRecord(WriteVector(a.m, a.node, x), a.node, level)
        g == GraphInsert(f, a.node, level)
    IN  /\ pc[t] = "start" /\ Job(t).op = "insert"
        /\ x # BadVector /\ r \notin DOMAIN nodeOf
        /\ m.h.len <= load.limit
        /\ m' = f
        /\ disk' = IF a.m.h.cap # m.h.cap THEN Saved(Grown(m)) ELSE disk
        /\ cur' = [cur EXCEPT ![t].tx = <<<<"insert", a.node, level, x>>>>
                      \o [i \in DOMAIN g.links |-> <<"links">> \o g.links[i]]
                      \o <<<<"header", g.ep, f.h.count, g.max>>>>]
        /\ Goto(t, "staged")
        /\ UNCHANGED <<status, coll, wal, maps, table, history, deaths>>

\* The entry point after node n is gone: its first layer-0 neighbour that is
\* not deleted, or none; another entry point stays.
NextEntry(f, n) ==
    LET alive == SelectSeq(Neighbors(f, n, 0), LAMBDA s : s \notin f.dead)
    IN  IF f.h.ep # n THEN f.h.ep ELSE IF alive = <<>> THEN None ELSE alive[1]

\* VectorCollection::delete up to the log: the maps are changed first.
StageDelete(t) ==
    LET r == Job(t).row
        n == nodeOf[r]
    IN  /\ pc[t] = "start" /\ Job(t).op = "delete"
        /\ r \in DOMAIN nodeOf
        /\ nodeOf' = Without(nodeOf, r) /\ rowOf' = Without(rowOf, n)
        /\ cur' = [cur EXCEPT ![t].tx = <<<<"delete", n>>, <<"header", NextEntry(m, n), m.h.count, m.h.max>>>>]
        /\ Goto(t, "staged")
        /\ churned' = TRUE /\ acked' = acked \ {r}
        /\ UNCHANGED <<status, coll, m, disk, wal, table, content, deaths>>

\* append_committed: the entries ...
AppendEntries(t) ==
    /\ pc[t] = "staged"
    /\ wal' = wal \o cur[t].tx
    /\ Goto(t, "logged")
    /\ UNCHANGED <<status, coll, m, disk, maps, table, cur, history, deaths>>

\* ... then the commit marker.
AppendCommit(t) ==
    /\ pc[t] = "logged"
    /\ wal' = Append(wal, <<"commit">>)
    /\ Goto(t, "committed")
    /\ UNCHANGED <<status, coll, m, disk, maps, table, cur, history, deaths>>

\* The mutation of one entry, as insert and delete apply it after the log.
ApplyEntry(f, e) ==
    CASE e[1] = "insert" -> f
      [] e[1] = "links" -> WriteNeighbors(f, e[2], e[3], e[4])
      [] e[1] = "delete" -> FreeNode(f, e[2])
      [] e[1] = "header" -> [f EXCEPT !.h.ep = e[2], !.h.max = e[4]]

Apply(t) ==
    /\ pc[t] = "committed"
    /\ m' = FoldLeft(ApplyEntry, m, cur[t].tx)
    /\ Goto(t, "applied")
    /\ UNCHANGED <<status, coll, disk, wal, maps, table, cur, history, deaths>>

\* Mutant: only the header of an encrypted file is written back.
FlushHeader(t) ==
    /\ pc[t] = "applied"
    /\ disk' = [disk EXCEPT !.h = m.h]
    /\ Goto(t, "flushed")
    /\ UNCHANGED <<status, coll, m, wal, maps, table, cur, history, deaths>>

\* flush: the header into the file, and an encrypted file rewritten whole.
Flush(t) ==
    /\ pc[t] = "applied"
    /\ disk' = Saved(m)
    /\ Goto(t, "flushed")
    /\ UNCHANGED <<status, coll, m, wal, maps, table, cur, history, deaths>>

\* The log is cut, an insert's maps are set, and the mapping row to write is
\* noted; after the last job the lock is released.
Truncate(t) ==
    LET r == Job(t).row
        n == cur[t].tx[1][2]
        rest == Tail(cur[t].jobs)
    IN  /\ pc[t] = "flushed"
        /\ wal' = <<>>
        /\ IF Job(t).op = "insert"
           THEN /\ nodeOf' = With(nodeOf, r, n) /\ rowOf' = With(rowOf, n, r)
                /\ content' = [content EXCEPT ![r] = Job(t).x]
           ELSE UNCHANGED <<maps, content>>
        /\ cur' = [cur EXCEPT ![t] = [jobs |-> rest, tx |-> <<>>,
                                      rows |-> Append(@.rows, <<Job(t).op, r, n>>)]]
        /\ Goto(t, IF rest = <<>> THEN "rows" ELSE "start")
        /\ UNCHANGED <<status, coll, m, disk, table, acked, churned, deaths>>

\* One mapping row: insert_with_id, which fails on a row that is there or a
\* missing table and ends the call, or delete, whose failure is ignored.
MapRow(t) ==
    LET c == cur[t].rows[1]
        fails == c[1] = "insert" /\ (~coll.rows \/ c[2] \in DOMAIN table)
        rest == Tail(cur[t].rows)
    IN  /\ pc[t] = "rows"
        /\ table' = IF fails THEN table
                    ELSE IF c[1] = "insert" THEN With(table, c[2], c[3]) ELSE Without(table, c[2])
        /\ acked' = IF c[1] = "insert" /\ ~fails THEN acked \cup {c[2]} ELSE acked
        /\ IF fails \/ rest = <<>>
           THEN Goto(t, "idle") /\ cur' = [cur EXCEPT ![t] = NoCall]
           ELSE UNCHANGED pc /\ cur' = [cur EXCEPT ![t].rows = rest]
        /\ UNCHANGED <<status, coll, m, disk, wal, maps, content, churned, deaths>>

------------------------------------------------------------------------------
(* Creating and dropping the collection. *)

\* create_vector_collection: VecFile::create refuses an existing file.
CreateFile(t) ==
    /\ MayCall(t, "create") /\ ~coll.open /\ ~coll.file
    /\ coll' = [coll EXCEPT !.open = TRUE, !.file = TRUE]
    /\ m' = NewFile /\ disk' = Saved(NewFile)
    /\ nodeOf' = <<>> /\ rowOf' = <<>> /\ churned' = FALSE
    /\ Goto(t, "create")
    /\ UNCHANGED <<status, wal, table, cur, content, acked, deaths>>

\* ... then the mapping table, which may be there already (TableExists).
CreateRows(t) ==
    /\ pc[t] = "create"
    /\ coll' = [coll EXCEPT !.rows = TRUE]
    /\ Goto(t, "idle")
    /\ UNCHANGED <<status, m, disk, wal, maps, table, cur, history, deaths>>

\* drop_vector_collection: out of the map, the files removed ...
DropFiles(t) ==
    /\ MayCall(t, "drop") /\ coll.open
    /\ coll' = [coll EXCEPT !.open = FALSE, !.file = FALSE]
    /\ wal' = <<>> /\ nodeOf' = <<>> /\ rowOf' = <<>> /\ acked' = {}
    /\ m' = NewFile /\ disk' = Saved(NewFile)
    /\ Goto(t, "drop")
    /\ UNCHANGED <<status, table, cur, content, churned, deaths>>

\* ... then the mapping table.
DropRows(t) ==
    /\ pc[t] = "drop"
    /\ coll' = [coll EXCEPT !.rows = FALSE] /\ table' = <<>>
    /\ Goto(t, "idle")
    /\ UNCHANGED <<status, m, disk, wal, maps, cur, history, deaths>>

------------------------------------------------------------------------------
(* The process dies and the database is opened again. *)

Crash ==
    /\ status # "down" /\ deaths < load.faults.max /\ (load.faults.any \/ AllIdle)
    /\ status' = "down" /\ deaths' = deaths + 1
    /\ coll' = [coll EXCEPT !.open = FALSE]
    /\ m' = IF load.sealed THEN disk.img ELSE [m EXCEPT !.h = disk.h]
    /\ nodeOf' = <<>> /\ rowOf' = <<>>
    /\ pc' = [t \in Threads |-> "idle"] /\ cur' = [t \in Threads |-> NoCall]
    /\ UNCHANGED <<disk, wal, table, history>>

\* read_committed: what follows the last commit marker is dropped.
Committed(w) ==
    LET ends == {i \in DOMAIN w : w[i] = <<"commit">>}
        last == IF ends = {} THEN 0 ELSE CHOOSE i \in ends : \A j \in ends : j <= i
    IN  SelectSeq(SubSeq(w, 1, last), LAMBDA e : e # <<"commit">>)

RECURSIVE GrowTo(_, _)
GrowTo(f, n) == IF f.h.count > n THEN f ELSE GrowTo(AllocateNode(f).m, n)

\* replay_transaction: the node number is reserved by counting up to it, it is
\* not taken off the free list; its record is a new one.
ReplayEntry(f, e) ==
    CASE e[1] = "insert" -> LET g == AllocateRecord(WriteVector(GrowTo(f, e[2]), e[2], e[4]), e[2], e[3])
                            IN  [g EXCEPT !.dead = @ \ {e[2]}]
      [] e[1] = "links" -> WriteNeighbors(f, e[2], e[3], e[4])
      [] e[1] = "delete" -> FreeNode(f, e[2])
      [] e[1] = "header" -> [f EXCEPT !.h.ep = e[2], !.h.count = e[3], !.h.max = e[4]]

\* Who opens: BoogyDb::open (reopen_vector_collections), or later
\* unlock_vector_collection, for an encrypted one, and open_vector_collection,
\* for one without a mapping table.
MayOpen == /\ coll.file /\ ~coll.open
           /\ \/ status = "down" /\ coll.rows /\ ~load.sealed
              \/ status = "up" /\ AllIdle /\ (load.sealed => coll.rows)

\* VectorCollection::open replays the log and flushes.
Replay ==
    /\ MayOpen
    /\ m' = FoldLeft(ReplayEntry, m, Committed(wal))
    /\ disk' = Saved(m')
    /\ status' = "replayed"
    /\ UNCHANGED <<coll, wal, maps, table, pc, cur, history, deaths>>

\* rebuild_mappings takes the table in row id order, so of two rows with one
\* node the later keeps it.
Rebuilt == [n \in {table[r] : r \in DOMAIN table} |->
               CHOOSE r \in DOMAIN table : table[r] = n /\ \A s \in DOMAIN table : table[s] = n => s <= r]

\* The log is cut and the maps are rebuilt.
FinishOpen ==
    /\ status = "replayed"
    /\ wal' = <<>>
    /\ nodeOf' = table /\ rowOf' = Rebuilt
    /\ coll' = [coll EXCEPT !.open = TRUE]
    /\ status' = "up"
    /\ UNCHANGED <<m, disk, table, pc, cur, history, deaths>>

\* reopen_vector_collections skips a collection without a file or a mapping
\* table, and one it has no key for.
OpenWithout ==
    /\ status = "down" /\ (~coll.file \/ ~coll.rows \/ load.sealed)
    /\ status' = "up"
    /\ UNCHANGED <<coll, m, disk, wal, maps, table, pc, cur, history, deaths>>

Step(t) ==
    \/ \E r \in load.mine[t] :
          \/ VectorDelete(t, r) \/ VectorUpdateBad(t, r)
          \/ \E x \in load.vectors[r] : VectorInsert(t, r, x) \/ VectorUpdate(t, r, x)
          \/ \E s \in load.mine[t] : \E x \in load.vectors[r], y \in load.vectors[s] :
                VectorInsertBatch(t, r, x, s, y)
    \/ Refused(t) \/ StageDelete(t) \/ \E level \in Levels : StageInsert(t, level)
    \/ AppendEntries(t) \/ AppendCommit(t) \/ Apply(t) \/ Flush(t) \/ Truncate(t) \/ MapRow(t)
    \/ CreateFile(t) \/ CreateRows(t) \/ DropFiles(t) \/ DropRows(t)

Next == ((\E t \in Threads : Step(t)) \/ Crash \/ Replay \/ FinishOpen \/ OpenWithout) /\ UNCHANGED load

Spec == Init /\ [][Next]_vars

------------------------------------------------------------------------------
(* Queries. *)

NoFilter == Rows \cup {0}

\* VectorCollection::search under the read lock: a filter lets a node pass if
\* its row is known and matches (keep); nodes without a row are left out of the
\* answer only after it was cut to k.
Search(q, k, keep) ==
    LET allowed == IF keep = NoFilter THEN Node ELSE {n \in DOMAIN rowOf : rowOf[n] \in keep}
        found == IF m.h.ep = None THEN <<>> ELSE GraphSearch(m, q, k, allowed)
        known == SelectSeq(found, LAMBDA n : n \in DOMAIN rowOf)
    IN  [i \in DOMAIN known |-> [row |-> rowOf[known[i]], distance |-> DistanceTo(m, known[i], q)]]

------------------------------------------------------------------------------
(* Properties. *)

Readable == status = "up" /\ coll.open /\ Unlocked
Filters == {NoFilter} \cup {Rows \ {r} : r \in Rows}
Ks == {1, 2, MaxNodes}

\* Types of the variables; node numbers stay below node_count, and node_count
\* below the capacity.
TypeOK ==
    /\ load \in Workloads /\ status \in {"up", "down", "replayed"}
    /\ m.h.count <= m.h.cap /\ m.h.count \in 0 .. MaxNodes /\ m.h.len <= GraphWords
    /\ m.h.ep \in {None} \cup 0 .. m.h.count - 1
    /\ m.dead \subseteq 0 .. m.h.count - 1
    /\ DOMAIN nodeOf \subseteq Rows /\ DOMAIN table \subseteq Rows /\ acked \subseteq Rows
    /\ \A r \in DOMAIN nodeOf : nodeOf[r] \in Node /\ m.index[nodeOf[r]] \in 0 .. m.h.len - 1
    /\ \A t \in Threads : pc[t] \in Inside \cup {"idle", "rows", "create", "drop"}

\* A vector whose insert or update returned Ok stays in its node with its
\* content, and the maps and the mapping table lead to that node and back, while
\* other calls come and fail, and inserts die half-way, across restarts.  (Two
\* calls never work on the same row here: each thread has rows of its own.)
AckedKept ==
    status = "up" /\ coll.open => \A r \in acked :
        /\ r \in DOMAIN nodeOf /\ r \in DOMAIN table /\ table[r] = nodeOf[r]
        /\ rowOf[nodeOf[r]] = r
        /\ m.slot[nodeOf[r]] = VectorSlot(content[r]) /\ nodeOf[r] \notin m.dead

\* A search never answers with a row that has no vector or fails the filter,
\* never names a row twice, and gives each row's distance to the vector last
\* stored for it, nearest first, although nodes are freed, reused and linked to
\* by lists nobody repairs.
SearchSound ==
    Readable => \A q \in Vectors, k \in Ks, keep \in Filters :
        LET s == Search(q, k, keep)
        IN  /\ Len(s) <= k
            /\ \A i \in DOMAIN s : /\ s[i].row \in DOMAIN nodeOf \cap keep
                                   /\ s[i].distance = Distance(content[s[i].row], q)
            /\ \A i, j \in DOMAIN s : i < j => s[i].row # s[j].row /\ s[i].distance < s[j].distance

\* Nodes in the graph that no row leads to, left by a call that died or failed.
Orphans == {n \in 0 .. m.h.count - 1 : n \notin m.dead \cup DOMAIN rowOf}

\* As long as no vector has been deleted or replaced, a search finds exactly
\* the nearest rows, as comparing the query with every stored vector would; a
\* node left over by a crash costs at most one place of an unfiltered answer.
SearchExact ==
    Readable /\ ~churned => \A q \in Vectors, k \in Ks, keep \in Filters :
        LET s == Search(q, k, keep)
            rows == DOMAIN nodeOf \cap keep
            dist(r) == Distance(content[r], q)
            nearer(r) == Cardinality({o \in rows : dist(o) < dist(r)})
            must == k - (IF keep = NoFilter THEN Cardinality(Orphans) ELSE 0)
            hits == {s[i].row : i \in DOMAIN s}
        IN  /\ {r \in rows : nearer(r) < must} \subseteq hits
            /\ \A r \in hits : nearer(r) < k

\* A process that dies before the WAL commit leaves the mapped file as it was
\* before the mutation: with nothing committed in the log, the free list that
\* the file's header starts holds deleted nodes only, each once, so that the
\* next insert can take its node from it.
FreeListSound ==
    status = "down" /\ Committed(wal) = <<>> =>
        LET l == FreeList(m)
        IN  ToSet(l) \subseteq m.dead /\ Cardinality(ToSet(l)) = Len(l)
==================================================================================
