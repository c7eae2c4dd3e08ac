# boogy-db: TLA+ models, checks and proofs

This directory models the storage engine of boogy-db (the crate under `src/src/`): its page
file and redo log, its row and index trees, its table operations and queries, its table registry,
its transactions and its vector collections.
TLC checks the models on small instances; TLAPS proves the safety properties that TLC checks,
those of the vector collections excepted, for every instance. `PROJECT.json` lists the components,
the runs with the properties each one checks, the source lines behind every definition, the
mutants that show each property can fail, the hazards that the properties are aimed at, and the
theorems.

- `tlc -workers 2 -config <Run>.cfg MC<Module>` checks one run.
- `tlapm <Module>.tla` checks the proofs of one module: `PageStoreProofs`, `BPlusTreeProofs`,
  `IndexTreeProofs`, `BTreeProofs`, `TableProofs`, `SmallTreeProofs`, `AcidTxProofs`,
  `CatalogProofs`.

## 1. The system

boogy-db is an embedded, single-file table store. One `BoogyDb` handle is shared by threads.

| Component | State | Operations | Talks to |
|---|---|---|---|
| Page file (`file.rs`) | the page cache, `num_pages`, one write mutex around `WriteState` (dirty overlay, count of new pages) | `read_page`, `begin_write`, `allocate_page`, `write_page`, `commit`, `sync_all`, `put_page_direct` | every tree; the data file |
| Redo log (`wal.rs`) | entries (after-images of pages), header with `entry_count`, sequence number | `append_page_image`, `sync`, `read_entries`, `truncate` | `commit_write`, `open`, `Drop` |
| Row tree (`btree.rs`, `overflow.rs`) | leaf, branch and overflow pages; leaves doubly linked | `insert`, `delete`, `search`, `scan_from`, `update_matching`, `delete_matching` | the page file through a `WriteGuard` |
| Index tree (`index.rs`) | leaf and branch pages of keys = encoded column values followed by the row id | insert, delete, prefix scan and count, `scan_from_key` | table operations |
| Table operations (`db.rs`, `table.rs`, `row.rs`, `value.rs`, `filter.rs`) | per table, under an `RwLock`: columns, name map, indexes, `root_page`, `row_count`, `next_rowid` | `insert*`, `update*`, `delete*`, `find`, `count`, `scan_batch`, index and column changes | trees, registry |
| Registry (`db.rs`, page 0) | map name -> table; `next_table_id`; image of it on page 0 | `create_table`, `drop_table`, `snapshot_table_metas`, `persist_registry`, `open`, `Drop` | page file |
| ACID transactions (`db.rs`) | private dirty pages, private page count, one `MetaDelta` per table | row operations, `upsert`, `upsert_increment`, reads over the private pages, `commit`, drop | shared cache, table metas, log |
| Light transactions, callback API | none beyond the handle | forward to `BoogyDb` | table operations |
| Async handle (`async_db.rs`) | a write gate (an async mutex) | same calls, most behind the gate | `BoogyDb` |
| Encryption (`crypto.rs`) | per-table ciphers, page -> table map | encrypt/decrypt page payloads, unlock | page file |
| Vector collections (`vector/`, `db.rs`) | mapped file (header in memory, vector slots, free list, graph records), own log, row/node maps in memory, mapping table `__vec_...` in the database | create, drop, insert, batch insert, update, delete, search, open with replay | own files; table operations for the mapping rows |

Locks are taken in the order table lock, write mutex, WAL mutex; the registry path takes the two
mutexes without a table lock, and so does `AcidTransaction::commit`, which takes the lock of each
table it changed only afterwards, to update the table's metadata. The write mutex is released before
the WAL mutex is taken.

What is hard here:

- **Order.** A commit is visible in the cache before it is in the log, and the write mutex is
  released in between, so two commits can reach the log in the opposite order. The callers of
  `commit_write` hold their table's lock across both; `AcidTransaction::commit` does not.
- **Crashes.** A commit is several log entries with no commit record; the table metadata reaches
  page 0 only on schema changes and clean shutdown; `Drop` writes page 0 without logging it;
  `truncate` cuts the entries before it resets the count; an entry is written in the slot that
  `entry_count` names, over whatever a power loss left there.
- **Interleaving.** `read_page` fills a cache slot in three separately locked steps; ACID
  operations drop the table lock before they change pages; `create_table` checks, allocates and
  registers in three steps; the registry snapshot locks one table at a time.
- **Partial failure.** An operation that fails with the guard open leaves its pages in the
  overlay, to be published by the next commit.
- **Two stores.** A vector call writes its own log and mapped file under the collection's lock,
  and its mapping row afterwards through the page store; nothing ties the two together.
- **Boundaries.** Splits of leaves with rows of different sizes, overflow chains, resume tokens
  of scans on rows that have gone, reuse of column names, defaults that are not in the index.

What makes each part correct: a page never reads older than it did, and replay of the log
gives back everything acknowledged (page file and log); lookups, scans and the leaf chain agree
with the rows inserted (tree); names, indexes, counters and queries agree with the rows (table
operations); tables never share ids or pages and come back after a crash as the callers were
told (registry); a transaction is applied entirely or not at all, and sees its own changes (ACID);
an acknowledged vector is found again, and a search answers only with rows that have one (vectors).

## 2. Modules

| Module | Models | State and actions |
|---|---|---|
| `PageStore` | `file.rs`, `wal.rs`, `commit_write`, `AcidTransaction::commit`, `open`, `Drop` | A page image is the number of the commit that wrote it. A writer walks `pc`: `LockTable`/`CommitTransaction`/`PersistRegistry`, `BeginWrite`, `Mutate`, `Publish`, `Release`, `LockWal`, `AppendPageImage`, `FinishLog`, `Return`, or leaves through `ErrorExit`. A reader walks `ReadMiss`, `ReadFromDisk`, `InsertRead`. Shutdown, crash (process or power) and recovery are actions of their own, one per write or fsync. The log is an array of slots and a count; a power loss takes every page, slot and the count from what was written or from what was synced. |
| `PageStoreProofs` | – | Theorems about `PageStore`: types, what readers see, fresh pages, the redo log, power losses. |
| `BPlusTree` | what `btree.rs` and `index.rs` have in common | Walks along page links, splits of a branch page, the climb from a split leaf to the root. |
| `BPlusTreeProofs` | – | Lemmas about trees of any depth: what a tree is, descents, the leaf chain, splits. |
| `IndexTree` | `index.rs` | The pages of one index as operators from trees to trees: insert, delete, prefix scans and counts, the ordered scan. |
| `IndexTreeProofs` | – | Lemmas about `IndexTree`: what insert, delete, prefix lookups and the ordered scan do to a tree of any depth. |
| `BTree` | `btree.rs`, `overflow.rs`, `scan_batch` | Leaves, branches and overflow pages with sizes in abstract units, the last of a page for its checksum, and an `IndexTree` kept in step; `altered` has the rows whose end the checksum took; one action per row operation, and a client that pages through the table between operations, in row or index order. |
| `BTreeProofs` | – | Theorems about `BTree`: lookups, tree shape, leaf chain, split points, index lookups, paging. |
| `SmallTree` | the tree as its callers see it | Which pages a write touches, how many it allocates, where the root is afterwards, which rows a search by id finds; used by `AcidTx` and `Catalog`. |
| `SmallTreeProofs` | – | What its operators keep and compute: splits, insertion, deletion, trees that share no page. |
| `Filters` | `value.rs`, `filter.rs` | Comparison, the filter operators on decoded values and on raw bytes, the order a sort uses. |
| `TableOps` | `table.rs`, `row.rs`, key encoding of `index.rs`, the table operations of `db.rs` | One table: columns, name map, rows, indexes as key sets, counters. One action per operation, as each holds the table lock throughout; an `insert_many` that fails in the middle of its rows is `InsertManyTooLarge`, and the commit that publishes what it left `PublishLeft`; `Find` and `Count` follow every access path of the code. |
| `TableTx` | the row operations of `AcidTransaction`, `upsert`, `upsert_increment` | Extends `TableOps` with one open transaction: the rows and keys its private pages hold, its `MetaDelta`, `unique_seen`; `Commit` moves them into the table. |
| `TableProofs` | – | Theorems about `TableOps` and `TableTx`. |
| `Catalog` | registry, `create_table`, `drop_table`, schema changes, `open`, `Drop` | The map in memory, the image of page 0 in the file and in the log, each call in the steps between which other threads can run. |
| `CatalogProofs` | – | Theorems about `Catalog`. |
| `AtomicTables` | what the README promises of ACID mode | Abstract: staged changes, applied in one step or dropped. |
| `AcidTx` | `AcidTransaction`, the write gate, `get` | Private pages and deltas, publish, release, metadata applied table by table; refines `AtomicTables` when gated. |
| `AcidTxProofs` | – | Theorems about `AcidTx` behind the gate, the refinement among them. |
| `VecFile` | `vector/mmap.rs` | An image of the mapped file: header, vector slots that double as links of the free list, deleted flags, and the graph area as the flat array of words it is, so that a layer a record lacks reads its successor's words. |
| `Hnsw` | `vector/hnsw.rs` | Greedy descent, layer search, neighbour selection, insert and search over an image. |
| `VectorStore` | `vector/collection.rs`, `vector/wal.rs`, the vector calls of `db.rs` | A call walks `start`, `staged`, `logged`, `committed`, `applied`, `flushed` under the lock, then writes its mapping rows; create, drop, death, replay and reopening are actions. |
| `MC*` | – | Model values and small sets for the runs. |

`Catalog` and `AcidTx` treat one `commit_write` as one durable step: `PageStore` is where a commit
comes apart. `Catalog` reduces a schema to a version number: `TableOps` is where schemas live.
`SmallTree` reduces the tree to two levels of id-only rows and reads to searches by id: `BTree` is
where it has depth, sizes and scans along the leaf chain.
`TableTx` has one transaction at a time with every operation, `AcidTx` several with two operations
and the steps inside `commit`. `TableOps` has index keys as sets, `IndexTree` their pages.

`BTree`, `TableOps`, `Catalog` and `VectorStore` take a set of **workloads**: each says which
operations, ids, values and faults its callers use, and `Init` picks one. A run thus checks several
instances of one specification, each large in the dimension it is about.

## 3. Runs

| Run | Instance | Shows |
|---|---|---|
| `PageStore_redo` | 2 writers, 2 tables and the registry, 1 reader, 4 pages, 2 commits, each under its table's lock or an ACID transaction's without it, 1 process crash at any step, `Normal` | `RedoCoversAcked`, `UnlockedMeansLogged`: one operation at a time on a table is what keeps the log in order per table page; both are claimed until an ACID commit overlaps another operation on its table (`raced`). `AppendsOwnPages`, `ViewNeverRegresses`, without that limit. 580 thousand states. |
| `PageStore_live` | 2 writers, 1 table and the registry, `Immediate`, power loss at any step, one failing operation, fair | `AckedSurvives`, `FreshPagesAreFree` with failures, `OperationsReturn`, `RecoveryTerminates`. ACID commits as in `PageStore_redo`. One power loss; 135 thousand states. |
| `PageStore_torn_commit` | as above, `Normal`, process crash | **Violation** of `CommitsAreAtomic` (finding 1). |
| `BTree_all` | four workloads: ids 1..5, 2 rows a leaf, 2 keys a branch, and a client paging in both directions; sizes 2, 7, 12 in leaves of 8 and a checksum of 1 (12 spills over overflow pages; a half of 2 + 7 is cut into by the checksum, one of 7 + 7 panics) with bulk updates and deletes; an index of repeated values up to three levels; a client paging in index order | `SearchTree`, `ScanTiles`, `LookupsExact`, `ChainIntact`, `OverflowSplitComplete`, `IndexLookupsExact`. 271 thousand states. |
| `TableOps_all` | four workloads on a table of 2 names and 3 column slots: every operation with partial, ill-typed and Null values, unique, plain and composite indexes; a name dropped and used again for another type; up to 3 rows, 2 indexes and some 50 queries of every form; ACID transactions of up to 3 operations | `NameMapExact`, `IndexExact`, `CountsExact`, `UniqueHolds`, `QueriesExact`, `OverlayExact`, `ReadsStable`; where rows, keys and counters are compared, until an `insert_many` fails in the middle of its rows (`halfDone`). 324 thousand states. |
| `TableOps_composite` | composite index on (a, b) | **Violation** of `FindExact` (finding 4). |
| `Catalog_all` | two workloads: 2 threads, 2 names, 3 table ids and a crash without the gate; schema and row changes with splits, a crash and a clean shutdown behind it | `TablesSeparate`, `TablesNotReplaced`; `DdlDurable`, `NoResurrection`, `RowsExact`, `CleanReopen`. |
| `Catalog_crash` | inserts after `create_table`, a root split, a crash | **Violation** of `CommittedRowsSurvive` (finding 3). |
| `AcidTx_gated` | 2 transactions of up to 2 operations, 2 tables with full leaves, 1 reader, gate on | `ImplementsAtomic` (refinement of `AtomicTables`), `CountsExact`, `TreesDisjoint`, `CalmReadsFindRows`. |
| `AcidTx_same_table` | the same on one table, gate off | **Violation** of `NothingLost` (finding 2). |
| `Vector_all` | 3 rows, 4 vectors, 2 layers, M = 2, a file that grows from 2 nodes; four workloads: every call behind the gate with a restart; failing batches and updates; inserts and batches of two threads with a death at any step; the same encrypted | `AckedKept`, `SearchSound`, `SearchExact`. |
| `Vector_crash` | inserts and deletes of one caller, a death at any step | **Violation** of `FreeListSound` (finding 5). |

**Bounds.** Two actors on each contended resource reach every order of two commits, on one table and
on two, and two commits give a page an acknowledged image and a later one that is published and not
logged; the theorems have any number of them. One crash is placed at every step, recovery included,
since a crash during recovery differs from the first only in what was already replayed
(`RedoCoversAcked` speaks of every instant of the replay). With two power losses `PageStore_live`
has 624 thousand states and shows the same; the theorems below put no bound on the number of either.
Four pages leave one or two to allocate beyond page 0 and the roots. In `BTree`, leaves of two rows
and branches of two keys need five rows for a split at every level; the sizes 2, 7 and 12 against a
capacity of 8 and a checksum of 1 give leaves that fill by number, by size and by overflow, and
halves that do not fit. Two rows show every interference between two rows of an index; the third in
the query workload gives sorts, offsets and limits something to cut. In `VectorStore` three nodes
grow the file from two nodes, fill a list of M = 2 on layer 1, and let a freed node be reused with
the others still linking to it; the graph has no more nodes than a list has places in the states
where `SearchExact` is claimed, so `prune_neighbors`, which a longer list would call, is never
reached there. `TableOps` follows a table on which an `insert_many` failed half-way up to the commit
that publishes its rows, and no further. Starting more than `MaxCommits` operations, allocating past
`MaxPages`, and ids past `MaxRow` are the only steps the bounds remove. `CountMod` stands for 2^64:
`row_count` wraps below zero there as it does in a release build.

**Symmetry** is over threads in `PageStore_redo` only: a run with liveness must not use it, and the
workloads of the others name particular threads.

**Deadlock** is not checked: once the bounded number of commits, operations or ids is used up, the
callers of the model have nothing left to do. `OperationsReturn` is the property that catches
callers waiting on one another.

**Fairness** (`FairSpec`, used by `PageStore_live`): weak fairness of each started operation's next
step, of recovery once entered and of shutdown once entered. Each is straight-line code that only
waits on a mutex whose holder is another such operation. No fairness is given to starting an
operation, to readers, to errors, to crashes or to `Drop`. Weak fairness of one thread's step is
enough although mutexes may be re-taken, because the number of commits is bounded: the locks are
not assumed fair beyond that.

## 4. Findings

1. **A crash inside a commit recovers part of it** (`PageStore_torn_commit`). After-images are
   counted one at a time and there is no commit record; the ACID design document and README
   promise all-or-nothing. `RedoCoversAcked` shows that what *returned* is not lost, as long as no ACID
   commit overlaps another operation on its table.
2. **Ungated ACID transactions on one table overwrite each other** (`AcidTx_same_table`). The
   design document says that the second one blocks on the table's write lock; the operations
   hold the table lock only while they copy the metadata. `AcidTx_gated` shows that the async write
   gate restores the promise.
3. **Rows committed after the last schema change can no longer be found by id after a crash**
   (`Catalog_crash`). Their pages are replayed, but page 0 still names the root before the split.
   Lookups by id (`get`, `update`, `delete`) no longer find them; `find` without an index and
   `scan_batch` still do, as they follow `next_leaf` from the old root's leaf, and `row_count` and
   `next_rowid` are those of page 0. `NoResurrection` shows that what a lookup by id finds is never
   wrong. A scan is not part of it: a row that is inserted with its id below the old root and
   deleted there again, both returning Ok, is still in the leaf that was split off before the crash,
   and `find({})` shows that one.
4. **`find` on the leading Integer column of a composite index returns nothing**
   (`TableOps_composite`): `extract_rowid` reads the second column's bytes as the row id.
5. **A death while a freed vector node is being reused breaks the free list** (`Vector_crash`). The
   new vector overwrites the slot that held the list's link before the WAL commit, while the header
   in the file still starts the list there; the design document says that a crash before the WAL
   commit leaves only pre-mutation state. `Vector_all` shows that inserts into fresh nodes survive
   deaths at every step.

Smaller observations, visible in the models but not claimed as properties:

- Two ACID commits on one table, or one and a plain operation, can reach the log in the reverse of
  the order in which they were published, because `AcidTransaction::commit` publishes and logs
  without the table lock. Replay then puts the older image of a page over the newer one although
  both calls returned Ok, under `Immediate` as well; and a table that nobody has locked may have
  pages that readers see and the log does not have. A single `insert`, `update` or `delete` under
  `set_acid(true)` commits the same way. `raced` records that an ACID commit overlapped another
  operation on its table; `RedoCoversAcked`, `UnlockedMeansLogged` and `AckedSurvives` are claimed
  until one did. Callers that stay behind the async write gate never get there; `AsyncDb::begin` and
  `AsyncDb::transaction` do not take it.
- An `insert_many` whose later row exceeds `max_row_size` returns with its guard open (`db.rs:2800`).
  The next commit publishes the rows before it, of which `row_count` and `next_rowid` know nothing,
  so that the next `insert` meets `DuplicateKey` where its search reaches them; if they split the
  root of the rows, the indexes have keys of rows that a search by id from the table's root does not
  reach. `halfDone` records it.
- `insert_many`, `update` and `update_where` do not enforce unique indexes (`UniqueHolds` is
  claimed only while none of them ran).
- A crash between the two halves of `truncate` leaves a count without entries, which every later
  `open` refuses (`phase = "failed"`). A torn tail after a power loss is refused in the same way.
- Two power losses can undo an `Immediate` commit. `append_page_image` writes into the slot after the
  counted ones; `open` neither cuts nor syncs a log whose count is 0, and `read_entries` does not
  compare sequence numbers. A power loss while commit 2 logs can leave its entry in slot 2 and a
  count of 0; commit 3 is acknowledged in slot 1; a power loss while commit 4 logs can keep the
  count 2 and the old slot 2, whose replay puts the page of commit 2 over that of commit 3.
  `damaged` records that a power loss hit unsynced slots over older entries, and `AckedSurvives`
  is claimed for histories without one.
- Index maintenance takes a column's type from the first slot with its name, dropped slots included
  (`db.rs:1079` and the six places like it). A name dropped and used again with another type makes
  an index miss rows or keep keys of rows that have gone. `retyped` records it; `IndexExact`,
  `UniqueHolds` and `QueriesExact` are claimed of tables where no name had columns of two types.
- Images of page 0 can be logged out of order by ungated callers, as no table lock covers it.
- A half of a plain leaf split can be larger than a page. An overrun of more than the four bytes of
  the page checksum panics. One of at most four is committed: `update_checksum` writes over the end
  of its last row, the checksum verifies, and the row reads back with other content. `altered`
  records it; `LookupsExact` claims of such a row only that it is found.
- A read that overlaps a commit can miss a row or fail: `CalmReadsFindRows` is about the others.
- `find` on a column with a default depends on whether the column is indexed (`Plain`).
- `find` with an indexed equality, a second filter and a limit cuts the index entries before the
  second filter and can return too few rows (`CutTooEarly`).
- Null, or a value of another type, looked for through an index finds nothing (`Encodable`), while a
  scan compares it. `Lt` and `Le` match Null. Values that do not compare count as equal in a sort,
  which is then no total order.
- `update_where` and `delete_where` evaluate filters without defaults and know no `_id` column; those
  of an ACID transaction do both.
- An ACID transaction's `unique_seen` never forgets: deleting a row does not free its value for an
  insert in the same transaction, and a failed `insert_with_id` leaves its value taken.
- `insert_many` in an ACID transaction leaves the rows before a refused one staged.
- Replay of the vector log is not idempotent: a delete that was flushed but not truncated is replayed
  and its node links to itself on the free list; an insert replayed after a death before its mapping
  row stays as a node without a row, which takes a place in unfiltered answers (`Orphans`).
- A death between a vector delete and the removal of its mapping row leaves a row that leads to a
  freed node.
- A refused `vector_update` has already deleted the old vector.

## 5. Proofs

Every theorem holds for any values of the constants that satisfy the assumptions stated with them:
the bounds are naturals, the names are distinct, the tables start with distinct root pages
(`RootsAssumption`), a new table's columns have different names (`ColumnsAssumption`) and none is
called `_id` (`NamesAssumption`: `create_table` takes such a column, which the row id then hides
from every filter), callers pass values of the right kind (`CallsAssumption`, `QueriesAssumption`,
`ValuesAssumption`, `UpsertsAssumption`), pages hold something and rows have a size, from a finite
set and longer than a checksum (`SpaceAssumption`, `IndexAssumption`), and `NoImage` is no image
(`ImageAssumption`). TLC evaluates the assumptions on every run. Each proof is the same argument: an
inductive invariant, one lemma per action, and the property as a consequence. TLC has checked the
inductive invariants on small instances.

**`PageStoreProofs`**: for any sets of threads, readers and tables, any durability, with failing
operations, process crashes and power losses:

- **`TypeCorrect`: `Spec => []TypeOK`.** `TypeOK` alone is not inductive. `TypeInv` adds that the
  overlay fits (`numPages + newPages <= MaxPages`), that only an open handle has new pages, that
  a replay stays within the log, and that while the database is open or replaying the count does
  not pass the slots: without these `Release`, `Drop`, `ReplayEntry` and `AppendPageImage` could
  leave the types.
- **`ViewMonotone`: `Spec => ViewNeverRegresses`.** `ImageInv` says that no image in the cache, the
  file or the log is newer than the last commit, and that the image a reader took from the file
  is still the file's. Then `Publish` only installs newer images, and `InsertRead` either
  finds the slot filled (and keeps it) or installs what readers already saw.
- **`FreshPages`: `Spec => []FreshPagesAreFree`.** `FreshInv` says that the write mutex is held
  exactly by the thread whose guard is open, that the overlay lies below `num_pages` plus its own
  count, that pages waiting to be logged lie below `num_pages` once the guard is released, and that
  `open` puts `num_pages` above every page of the file (lemma `PagesOfBound`). A failed operation
  keeps this because it leaves the overlay and its count together.

Its second part, under `Setting` (commits are logged, `Normal` or `Immediate`, and the set
of threads is finite) and without operations that fail with their guard open (`MaxErrors = 0`):

- **`RedoCovers`: `Spec => []RedoCoversAcked`**, without power losses as well. ACID commits without
  the table lock are among the steps.
- **`UnlockedIsLogged`: `Spec => []UnlockedMeansLogged`**, **`OwnPagesLogged`:
  `Spec => []AppendsOwnPages`**, with process crashes and power losses.

The hypotheses matter, and so does `~raced`; TLC refutes `RedoCoversAcked` on the instance of
`PageStore_redo` when one is dropped: ACID commits overtake one another (section 4), a failed
operation's pages are published and logged by another table's commit without that table's lock, a
power loss under `Normal` takes log entries that were not synced, and `None` logs nothing. The
invariant comes in layers that are each proved from those before:

| Layer | Says | Needed because |
|---|---|---|
| `TypeInv`, `ImageInv`, `FreshInv` | as above | |
| `BudgetInv` | commits published and under way stay within the bound | `writes` has an entry for every commit |
| `OwnInv` | a thread that is not an ACID commit holds its table's lock from its first step to its last; until `raced`, a table has one operation at a time; the overlay and a commit's pages belong to its table | until `raced` two threads never have the same page to log (lemma `OneCommitter`): this is what keeps the log in order although the write mutex is released before the WAL mutex is taken |
| `ZeroInv` | page 0 is the registry's and is in the file and on the platter; no slot holds an empty image; a counted slot is not torn while the database is open or replaying | page 0 is the one page no table lock covers, so `LogInv` leaves it out; appends go on after the counted slots |
| `LogInv` | until `raced`: while open, readers see what replay would give unless the page waits to be logged; a commit's pages stay cached as published; flush and replay bring the file to that value before `truncate` cuts the log | `RedoCoversAcked` alone says nothing of the image an append is about to write, nor of a half-replayed file |
| `CoverInv` | until `raced`: what readers see and what replay gives is at least what was acknowledged, as long as no power loss took unsynced slots over older ones (`Sure`) | this is the property, and with the file and the log as they were written also a part of the invariant behind `AckedIsKept` |

What replay computes is stated once, for any file, slots and count: the last counted entry for a page
decides (`LastEntryWins`), and an append decides its own page and no other (`AppendDecides`).

Its third part, under `Immediate` with a finite set of threads and any number of process
crashes, power losses and interrupted recoveries, until an operation fails with its guard open or an
ACID commit overlaps another operation on its table:

- **`AckedIsKept`: `Spec => []AckedSurvives`.** A power loss takes each page from the file or from
  the platter, and each slot and the count from the log or from what was synced of it.
  `PlatterCovers` says that all four combinations of a file and a log cover what was acknowledged.
  A mixture inside the log still needs to be one of them for each page: `SlotsSynced` says that a
  counted slot that is not synced holds an image at least as new as the acknowledged one, so it can
  only help. `PlatterInOrder` says that the file is synced before the log is cut, and the cut log
  before its count is raised again; `CommitsLogged`, that a commit about to be acknowledged has its
  images last of their pages in the synced log. Lemma `PowerCovers` is the power loss itself. All
  guards of `AckedSurvives` are needed: section 4 has the histories that `damaged` and `raced` exclude.

**`BPlusTreeProofs`, `IndexTreeProofs` and `BTreeProofs`**: for any number of row ids, page numbers,
keys and separators a page, sizes of rows, and workloads.

- **`TypesHold`** (`TypeOK`: the pages in use are exactly those below the counter).
- **`LookupsAreExact`** (`LookupsExact`: every row left is found, whole unless a checksum took its
  end), **`SearchTreeHolds`** (`SearchTree`), **`ChainStaysIntact`**
  (`ChainIntact`), **`SplitsAreComplete`** (`OverflowSplitComplete`).
- **`IndexLookupsAreExact`** (`IndexLookupsExact`).
- **`ScansTile`** (`ScanTiles`), in both directions, in row and in index order.

A tree of any depth is described without recursion. A *cover* `g` gives every page the range of
places it is for, `g.lo[p] .. g.hi[p] - 1`, and its height `g.lv[p]`; a place is a row id, or a
key's rank among the possible keys (`KeySpace`, finite because the sizes are). `Whole` says of a
tree and a cover that pages of one height have disjoint ranges (`Frame`), that the children of a
branch share out its range at its separators (`Nodes`), and that the leaf chain links ranges that
join (`Linked`). `Stored` adds that each leaf holds the rows of its range, each with its content in
its overflow chain; `Filed` says the same of keys.

| Part of `IInv` | Says | Needed because |
|---|---|---|
| `RowsOK`, `ScanOK` | types of the rows and of the paging client | |
| `Sound` | some cover makes the row tree `Stored` with the rows the operations left | no property of the pages alone is inductive: a split moves rows between ranges and the parent learns of it afterwards |
| `IndexSound` | some cover makes the index `Filed` with one key for each row | index entries are removed by computing the old key again |
| `AlteredOK` | a row whose end a checksum took is in the table | `LookupsExact` says that it is still found |
| `Explained` | a leaf whose split for an overflowing row failed could not be cut in two | `OverflowSplitComplete` |

The cover is a witness in the proof and not a variable of the model: `Init` gives one, and each
operation gives the next from the last. A descent reaches the leaf for a place because ranges nest
(`Descends`); the chain from a leaf shows all rows from there on because ranges join (`ChainMeets`).
An insert is proved bottom up: `SpillIs` (the overflow chain), `LeafCut` and `SplitPointIs` (what is
in the two halves), then the climb. While a split is on its way up, the tree is `Pending`: the page
that was split still answers, in its parent, for the range of its new neighbour. `Absorbed`,
`BranchSplits` and `RootSplits` are the ways it ends, and `ClimbGrows` and `GrownGrows` the
induction over the path. That induction, and those over walks, splits and touched rows, are over a
number, stated of the recursive function at each argument (`Iteration`, `Walker`), as the provers
need it. `SearchTree` and `ChainIntact` look at all pages reachable from the root; `DepthIs`
computes that set, by depth, from the cover.

`ScansTile` needs one more invariant, of the client (`ScanSound`): what it has been shown is in
order and not beyond its token, and what it has yet to be shown is beyond its token (`Shown`). It is
an invariant of whatever else happens because the token is a place and not a page: the next batch
starts from the leaf whose range the token is in *now* (`ScanStartIs`), and the chain shows
everything from there on (`MetIdsAre`, `KeysFromIs`), whether the token's row still exists or not.

**`TableProofs`**: for any schema, workload, number of rows and transactions of any length. `TableInv`
is about the table, `TxInv` about the open transaction.

- **`TableTypes`** (`TypeOK`) and **`NamesSurviveReopen`** (`NameMapExact`). `MapsNames` gives each live
  column its slot; with it the map is the one `open` rebuilds (`NameMapIs`). It survives a rename onto
  the name of a dropped column, where the two slots with one name are told apart by `dropped`.
- **`IndexesExact`** (`IndexExact`). `IndexesHold` says that each index has exactly the keys of the rows
  (`AllKeys`). Delete and update remove keys by computing them again from the old row, so the
  type and slot the code resolves must be those the key was stored with: `SchemaInv` says that they
  are (`ColTypeIs`) while no name had two types, and `SameSlots` that schema changes keep the slots.
- **`RowCountExact`** (`CountsExact`).
- **`UniqueIndexes`** (`UniqueHolds`). For transactions this rests on `TxUnique`: a tuple in the
  private pages is in the committed index or among those the transaction has recorded. That is what
  `enforce_unique_indexes_acid` checks a new row against.
- `IndexesExact`, `RowCountExact`, `UniqueIndexes` and, below, `QueriesAnswered` are claimed until
  an `insert_many` fails in the middle of its rows. `HistoryInv` is the invariant over both kinds of
  history: `TableInv` and `TxInv` until then, the types afterwards, with no transaction open.
- **`OverlayAgrees`** (`OverlayInStep`, the conjunct of `OverlayExact` about keys, count and next id)
  and **`BatchesExact`** (`OverlayExact`): batches of `scan_batch`, over the table and over the private
  pages of a transaction, follow one another without a gap in both directions. `SortedIs` says that the
  two orders of the code are orders of the rows, which needs that every stored value is one of its
  column's type: **`RowValues`** (`ValuesInv`), through upserts and their sums as well.
- **`QueriesAnswered`** (`QueriesExact`): `find` and `count` on plain columns give what the predicate
  asks for. `IndexedRows` is the heart of it: the row ids that `find` takes from an index, for `Eq` and
  for `In`, are those of the rows that pass the filter on decoded values, which `IndexesExact` and
  `RawAgrees` (a filter on raw bytes says what it says on decoded values) make so. `CutOrdered` says
  which limits may be applied before the sort.
- **`ReadsAreStable`** (`ReadsStable`): by cases of the schema changes, as no other step disturbs it.

**`SmallTreeProofs`** has the lemmas that the next two modules share: `Halves` (what `split_leaf` puts
on each side), `ChildOfRow` and `LeafFound` (the separators lead to the leaf that has the row),
`InsertTree` and `DeleteTree` (rows and pages afterwards, with a leaf, root or child split), and
`ForestInsert` and `ForestDelete` (trees that share no page still share none, and the others keep
their rows).

**`AcidTxProofs`**, behind the write gate, for any number of transactions, tables, readers, rows and
pages. Without the gate `AcidTx_same_table` refutes the property of `GatedNothingLost`.

- **`TxTypes`**, **`TxCountsExact`**, **`TreesApart`**, **`CalmReads`**, **`GatedNothingLost`**.
- **`GatedRefinesAtomic`: `Spec => ImplementsAtomic`**, with what the tables show between commits, or
  `committed` inside one, as the abstract rows.

`GateInv` says that a transaction without the gate has done nothing (`Fresh`), that the one with it
sees a forest with its own changes over the committed rows (`TxTrees`, `TxCounts`), that the root it
read is still the table's when it writes (`TxRead`), that tables it has not used are untouched
(`TxUnused`) and, once published, that its pages are the shared ones (`TxStaged`). The last is
why `commit` may apply its metadata table by table. `TablesOK` is claimed outside commits. A reader
(`ReaderOK`) is on the path to its row, unless a commit that changes its table has overtaken it.

**`CatalogProofs`**: for any threads, names, tables, rows, pages and workloads, with crashes and
shutdowns.

- **`CatalogTypes`**, **`TablesApart`** (`TablesSeparate`), **`NamesAreTaken`**
  (`TablesNotReplaced`), **`SchemaChangesDurable`** (`DdlDurable`), **`NoRowResurrected`**
  (`NoResurrection`), **`RowCountsExact`** (`RowsExact`), **`ReopenIsClean`** (`CleanReopen`).

| Part of `CatalogInv` | Says | Needed because |
|---|---|---|
| `Trees`, `MapOK` | the trees of all tables that memory knows, dropped ones included, share no page, and hold no row that was not committed; without crashes exactly those | a thread may still write to a table that has been dropped |
| `Calls` | a root page allocated by an unfinished `create_table` is in no tree, and two of them differ | `create_table` checks, allocates and registers in three steps |
| `SnapOK` | a snapshot in progress names tables that exist, with roots that are still pages of their trees | it locks one table at a time while rows are inserted and roots split |
| `ImagesOK` | so does the image that recovery would load; after a crash its trees hold only committed rows | `NoResurrection` speaks of the moment after `open`: the old root it starts from must still be a page of the right tree, and what a search by id finds below it is among the rows committed |
| `Down` | no call is under way while the database is closed | |
| `GateOK` | behind the gate one call runs at a time, and between schema changes memory and image have the same shape | `DdlDurable` |

**Only model-checked**, and why:

- `OperationsReturn`, `RecoveryTerminates`: liveness under fairness.
- `VectorStore` (`TypeOK`, `AckedKept`, `SearchSound`, `SearchExact`): `Hnsw` and `VecFile` walk lists
  and graphs with `RECURSIVE` operators, with which no theorem can be checked.

What the proofs asked of the models: walks, selections and sums over sequences are recursive
functions where a fold would do, and enumerations are `Ordered` instead of `SetToSortSeq`, because the
library's definitions are opaque to the provers; and the page bounds of the trees are named
(`Outgrown`, `IndexOutgrown`), with an operation of several inserts stopping at them, so that no page
number beyond the bound is ever written to.

The theorems about `AcidTx` and `Catalog` are about the trees of `SmallTree`, of at most two levels;
those about `BTree`, of any depth, are about one table. That a tree in `Catalog` or `AcidTx` could
be replaced by one of `BTree` is not proved.

## 6. Not modelled

- **Vector collections**, in part: beams smaller than the graph (`ef` is taken to exceed the number of
  nodes, so recall with eviction is not examined), vectors of more than one dimension and equal
  distances, power loss, a death inside `grow`, `flush` or the loop that applies one transaction,
  torn log entries, `vector_rebuild_mappings` with mappings of the caller's own, distance kernels.
- **Encryption**: the ciphers are external; the page-to-cipher map of a multi-table commit is
  listed as a hazard. Encrypted vector files are covered as files rewritten whole by `flush`.
- **Index keys longer than 36 bytes**, which branch pages truncate.
- **Light transactions and the callback API**: forward to the operations modelled here.
- **Real, Boolean and Blob values, byte encodings**: Integer and Text show every branch but the
  Integer/Real coercion.
- **Page checksums, WAL sequence numbers**: checksums appear as torn log entries and as what takes
  the end of a row in a half that is too large; sequence numbers are not read by recovery.
- **Content of an altered row**: `BTree` takes it that such a row still decodes and that the indexed
  column is not the one the row ends with.
- **Predicates on overflowing rows**: `update_matching` and `delete_matching` evaluate them on the
  inline part and its trailer (`btree.rs:781`, `851`); `BTree` lets any rows match.
- **A table after a failed `insert_many`** beyond the commit that publishes its rows.
- **Scans from an old root** after a crash (finding 3): `Catalog` has searches by id.
- **In `PageStore`**: an ACID commit of several tables (whose pages all carry the first table's tag,
  `db.rs:4802`); one that takes a failed operation's pages along from the overlay; page counts that
  went stale between a transaction's operations and its commit (`AcidTx` has those); the overflow
  pages of a registry that outgrows page 0, and the root that `create_table` allocates first.

## 7. Plan

Done: the models of every component listed as modelled in `PROJECT.json` (`PageStore` first, as
everything rests on it, then `BTree` with `IndexTree`, `TableOps` with `Filters` and `TableTx`,
`Catalog`, `AcidTx` with `AtomicTables`, `VectorStore` with `VecFile` and `Hnsw`), and the theorems
above: every safety property that the runs show to hold of `PageStore`, `BTree`, `TableOps`, `TableTx`,
`Catalog` and `AcidTx`.

Left, in this order:

1. `AckedKept` of `VectorStore`: the log and the mapping rows, with the file and the graph as
   operators that the proof leaves unexpanded. It needs `VecFile` and `Hnsw` without `RECURSIVE`.
2. `SmallTree` as an abstraction of `BTree`: a refinement that maps a tree to its root, its pages
   and its rows would let the theorems about `Catalog` and `AcidTx` speak of trees of any depth.
3. Keys of an index longer than the 36 bytes a branch page keeps, and beams of a vector search
   smaller than the graph.
