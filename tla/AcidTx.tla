--------------------------------- MODULE AcidTx ---------------------------------
(***************************************************************************)
(* ACID transactions (AcidTransaction in db.rs) over the shared page cache, *)
(* with the write gate of AsyncBoogyDb.                                    *)
(*                                                                         *)
(* A transaction keeps its changed pages in private_dirty and its metadata *)
(* in meta_deltas.  Each operation reads the table's root under the table  *)
(* read lock, drops that lock, and then changes pages under the write      *)
(* mutex with the private pages injected.  commit() publishes the pages,   *)
(* bumps num_pages, releases the mutex and only then writes the new roots  *)
(* and counts into each TableMeta, one table at a time.                    *)
(*                                                                         *)
(* Trees are those of SmallTree; MaxPages keeps them at two levels.  The   *)
(* WAL part of commit() is the module PageStore's.                         *)
(***************************************************************************)
EXTENDS SmallTree

CONSTANTS Txs,        \* callers, each running one transaction after another
          Readers,    \* callers of get()
          Tables,
          Nobody,
          RootOf,     \* table -> its root page at the start
          InitRows,   \* rows 1 .. InitRows are in every table at the start
          MaxPages, MaxRow, MaxOps,
          Gated       \* TRUE: writers take AsyncBoogyDb's write gate

Page == 0 .. MaxPages - 1
RowIds == 1 .. MaxRow

ASSUME ShapeAssumption == MaxPages \in Nat /\ MaxRow \in Nat /\ MaxOps \in Nat
ASSUME InitAssumption == InitRows \in 0 .. Cap /\ InitRows <= MaxRow
\* The root pages follow the header page and are all different.
ASSUME RootsAssumption == /\ IsFiniteSet(Tables) /\ Cardinality(Tables) < MaxPages
                          /\ RootOf \in [Tables -> 1 .. Cardinality(Tables)]
                          /\ \A a, b \in Tables : RootOf[a] = RootOf[b] => a = b
ASSUME GateAssumption == Gated \in BOOLEAN /\ Nobody \notin Txs

VARIABLES
    pages,      \* the shared cache
    numPages,
    meta,       \* table -> [root, rows (row_count), next (next_rowid)]
    holder,     \* the write mutex, as far as other threads can see it
    gate,       \* AsyncBoogyDb.write_gate
    pc, ops,
    cur,        \* tx -> the table, root and next_rowid its operation read
    priv,       \* tx -> private_dirty
    newPages,   \* tx -> new_page_count
    delta,      \* tx -> table -> MetaDelta
    did,        \* tx -> table -> [ins, del]: what its operations returned Ok for
    committed,  \* table -> rows of the transactions whose commit() returned
    rd          \* reader -> its get() in progress

vars == <<pages, numPages, meta, holder, gate, pc, ops, cur, priv, newPages, delta, did,
          committed, rd>>

NoDelta == [root |-> 0, rows |-> 0, next |-> 0, used |-> FALSE]
NoOps == [tb \in Tables |-> [ins |-> {}, del |-> {}]]
NoCur == [tb |-> Nobody, root |-> 0, next |-> 0]

------------------------------------------------------------------------------

Init ==
    /\ pages = [p \in Page |-> IF \E tb \in Tables : RootOf[tb] = p
                               THEN Leaf(1 .. InitRows) ELSE Hole]
    /\ numPages = 1 + Cardinality(Tables)
    /\ meta = [tb \in Tables |-> [root |-> RootOf[tb], rows |-> InitRows, next |-> InitRows + 1]]
    /\ holder = Nobody /\ gate = Nobody
    /\ pc = [t \in Txs |-> "active"]
    /\ ops = [t \in Txs |-> 0]
    /\ cur = [t \in Txs |-> NoCur]
    /\ priv = [t \in Txs |-> <<>>]
    /\ newPages = [t \in Txs |-> 0]
    /\ delta = [t \in Txs |-> [tb \in Tables |-> NoDelta]]
    /\ did = [t \in Txs |-> NoOps]
    /\ committed = [tb \in Tables |-> 1 .. InitRows]
    /\ rd = [r \in Readers |-> [at |-> "idle"]]

MetaLocked(tb) == \E r \in Readers : rd[r].at # "idle" /\ rd[r].tb = tb

\* What a transaction sees: its private pages over the cache (inject_dirty).
Overlay(t) == [p \in Page |-> IF p \in DOMAIN priv[t] THEN priv[t][p] ELSE pages[p]]

\* ensure_write_gate, then the start of insert/delete: current_root and
\* current_next_rowid, from the delta when the table has one.
ReadMeta(t, tb) ==
    /\ pc[t] = "active" /\ ops[t] < MaxOps
    /\ Gated => gate \in {Nobody, t}
    /\ gate' = IF Gated THEN t ELSE gate
    /\ ops' = [ops EXCEPT ![t] = @ + 1]
    /\ cur' = [cur EXCEPT ![t] =
                 LET src == IF delta[t][tb].used THEN delta[t][tb] ELSE meta[tb]
                 IN  [tb |-> tb, root |-> src.root, next |-> src.next]]
    /\ pc' = [pc EXCEPT ![t] = "read"]
    /\ UNCHANGED <<pages, numPages, meta, holder, priv, newPages, delta, did, committed, rd>>

\* with_guard: inject, run the tree operation, drain; then record the delta.
Stage(t, w, rowDelta, next, d) ==
    LET tb == cur[t].tb
        old == delta[t][tb]
    IN  /\ priv' = [priv EXCEPT ![t] = Over(w.writes, @)]
        /\ newPages' = [newPages EXCEPT ![t] = @ + w.allocated]
        /\ delta' = [delta EXCEPT ![t][tb] =
                       [root |-> w.root, rows |-> old.rows + rowDelta, next |-> next, used |-> TRUE]]
        /\ did' = [did EXCEPT ![t][tb] = d]
        /\ pc' = [pc EXCEPT ![t] = "active"]
        /\ cur' = [cur EXCEPT ![t] = NoCur]

\* AcidTransaction::insert takes the next row id.
Insert(t) ==
    /\ pc[t] = "read" /\ holder = Nobody
    /\ LET x == cur[t].next
           tb == cur[t].tb
           w == TreeInsert(Overlay(t), cur[t].root, x, numPages + newPages[t])
       IN  /\ x \in RowIds
           /\ x \notin RowsFrom(Overlay(t), cur[t].root)
           /\ DOMAIN w.writes \subseteq Page
           /\ Stage(t, w, 1, x + 1, [ins |-> did[t][tb].ins \cup {x}, del |-> did[t][tb].del \ {x}])
    /\ UNCHANGED <<pages, numPages, meta, holder, gate, ops, committed, rd>>

\* AcidTransaction::delete of a row the transaction can see.
Delete(t, x) ==
    /\ pc[t] = "read" /\ holder = Nobody
    /\ LET tb == cur[t].tb
           w == TreeDelete(Overlay(t), cur[t].root, x)
       IN  /\ x \in Overlay(t)[LeafOf(Overlay(t), cur[t].root, x)].rows
           /\ Stage(t, w, -1, cur[t].next,
                    [ins |-> did[t][tb].ins \ {x}, del |-> did[t][tb].del \cup {x}])
    /\ UNCHANGED <<pages, numPages, meta, holder, gate, ops, committed, rd>>

\* The operation returns Err (DuplicateKey) or Ok(false): with_guard drains the
\* unchanged overlay and no delta is recorded.
Refuse(t) ==
    /\ pc[t] = "read" /\ holder = Nobody
    /\ pc' = [pc EXCEPT ![t] = "active"]
    /\ cur' = [cur EXCEPT ![t] = NoCur]
    /\ UNCHANGED <<pages, numPages, meta, holder, gate, ops, priv, newPages, delta, did,
                   committed, rd>>

\* commit(): inject into an empty overlay, publish to the cache ...
Publish(t) ==
    /\ pc[t] = "active" /\ DOMAIN priv[t] # {} /\ holder = Nobody
    /\ holder' = t
    /\ pages' = Overlay(t)
    /\ pc' = [pc EXCEPT ![t] = "published"]
    /\ UNCHANGED <<numPages, meta, gate, ops, cur, priv, newPages, delta, did, committed, rd>>

\* num_pages after a commit; the mutants forget the new pages, or count those
\* handed over by set_new_page_count twice.
NotGrown(t) == numPages
GrownTwice(t) == numPages + 2 * newPages[t]
Grown(t) == numPages + newPages[t]

\* ... bump num_pages and release the write mutex ...
Release(t) ==
    /\ pc[t] = "published"
    /\ numPages' = Grown(t)
    /\ holder' = Nobody
    /\ pc' = [pc EXCEPT ![t] = "counted"]
    /\ UNCHANGED <<pages, meta, gate, ops, cur, priv, newPages, delta, did, committed, rd>>

\* A TableMeta after its delta; the mutants leave the old root, or assign the
\* row delta instead of adding it.
RootNotMoved(m, d) == [root |-> m.root, rows |-> m.rows + d.rows,
                       next |-> IF d.next > m.next THEN d.next ELSE m.next]
RowsAssigned(m, d) == [root |-> d.root, rows |-> d.rows,
                       next |-> IF d.next > m.next THEN d.next ELSE m.next]
NewMeta(m, d) == [root |-> d.root, rows |-> m.rows + d.rows,
                  next |-> IF d.next > m.next THEN d.next ELSE m.next]

\* ... then, table by table under its write lock, apply the delta.
ApplyMeta(t, tb) ==
    /\ pc[t] = "counted" /\ delta[t][tb].used /\ ~MetaLocked(tb)
    /\ meta' = [meta EXCEPT ![tb] = NewMeta(@, delta[t][tb])]
    /\ delta' = [delta EXCEPT ![t][tb] = NoDelta]
    /\ UNCHANGED <<pages, numPages, holder, gate, pc, ops, cur, priv, newPages, did, committed, rd>>

\* Mutant: private_dirty outlives the transaction.
FinishKeepsPages(t) ==
    /\ UNCHANGED <<priv, newPages>>
    /\ delta' = [delta EXCEPT ![t] = [tb \in Tables |-> NoDelta]]
    /\ did' = [did EXCEPT ![t] = NoOps]
    /\ gate' = IF gate = t THEN Nobody ELSE gate
    /\ pc' = [pc EXCEPT ![t] = "active"]

\* The transaction object is consumed, by commit or by drop.
Finish(t) ==
    /\ priv' = [priv EXCEPT ![t] = <<>>]
    /\ newPages' = [newPages EXCEPT ![t] = 0]
    /\ delta' = [delta EXCEPT ![t] = [tb \in Tables |-> NoDelta]]
    /\ did' = [did EXCEPT ![t] = NoOps]
    /\ gate' = IF gate = t THEN Nobody ELSE gate
    /\ pc' = [pc EXCEPT ![t] = "active"]

\* commit() returns Ok and the gate is released.
Return(t) ==
    /\ \/ pc[t] = "counted" /\ \A tb \in Tables : ~delta[t][tb].used
       \/ pc[t] = "active" /\ DOMAIN priv[t] = {}
    /\ committed' = [tb \in Tables |-> (committed[tb] \ did[t][tb].del) \cup did[t][tb].ins]
    /\ Finish(t)
    /\ UNCHANGED <<pages, numPages, meta, holder, ops, cur, rd>>

\* Drop without commit.
Rollback(t) ==
    /\ pc[t] = "active"
    /\ Finish(t)
    /\ UNCHANGED <<pages, numPages, meta, holder, ops, cur, committed, rd>>

------------------------------------------------------------------------------
(* BoogyDb::get: the table read lock is held throughout; pages are read one *)
(* at a time, each checked against num_pages.                               *)

InCommit == \E t \in Txs : pc[t] \in {"published", "counted"}

\* `known': the row was committed before get() started and nobody is deleting
\* it; `calm': no commit() has overlapped it.
StartGet(r, tb, x) ==
    /\ rd[r].at = "idle"
    /\ rd' = [rd EXCEPT ![r] = [at |-> "page", tb |-> tb, row |-> x, page |-> meta[tb].root,
                                known |-> x \in committed[tb], calm |-> ~InCommit]]
    /\ UNCHANGED <<pages, numPages, meta, holder, gate, pc, ops, cur, priv, newPages, delta, did,
                   committed>>

\* read_page and one level of search_recursive.
GetPage(r) ==
    /\ rd[r].at = "page"
    /\ LET g == rd[r]
           c == pages[g.page]
           answer == IF g.page >= numPages THEN "error"
                     ELSE IF ~IsLeaf(c) THEN "page"
                     ELSE IF g.row \in c.rows THEN "found" ELSE "missing"
       IN  rd' = [rd EXCEPT ![r] =
                    [g EXCEPT !.at = answer,
                              !.page = IF answer = "page" THEN c.kids[ChildIndex(c, g.row)] ELSE @,
                              !.known = @ /\ \A t \in Txs : g.row \notin did[t][g.tb].del,
                              !.calm = @ /\ ~InCommit]]
    /\ UNCHANGED <<pages, numPages, meta, holder, gate, pc, ops, cur, priv, newPages, delta, did,
                   committed>>

EndGet(r) ==
    /\ rd[r].at \in {"found", "missing", "error"}
    /\ rd' = [rd EXCEPT ![r] = [at |-> "idle"]]
    /\ UNCHANGED <<pages, numPages, meta, holder, gate, pc, ops, cur, priv, newPages, delta, did,
                   committed>>

------------------------------------------------------------------------------

TxStep(t) == \/ Insert(t) \/ Publish(t) \/ Release(t) \/ Return(t) \/ Rollback(t) \/ Refuse(t)
             \/ \E x \in RowIds : Delete(t, x)
             \/ \E tb \in Tables : ReadMeta(t, tb) \/ ApplyMeta(t, tb)

ReadStep(r) == GetPage(r) \/ EndGet(r) \/ \E tb \in Tables, x \in RowIds : StartGet(r, tb, x)

Next == (\E t \in Txs : TxStep(t)) \/ (\E r \in Readers : ReadStep(r))

Spec == Init /\ [][Next]_vars

------------------------------------------------------------------------------
(* Properties *)

Contents(tb) == RowsFrom(pages, meta[tb].root)

\* Types of the main variables.
TypeOK ==
    /\ numPages \in 0 .. MaxPages
    /\ DOMAIN pages = Page
    /\ \A tb \in Tables : meta[tb].root \in Page /\ meta[tb].rows \in Int /\ meta[tb].next \in Nat
    /\ holder \in Txs \cup {Nobody} /\ gate \in Txs \cup {Nobody}
    /\ \A t \in Txs : /\ pc[t] \in {"active", "read", "published", "counted"}
                      /\ DOMAIN priv[t] \subseteq Page
                      /\ newPages[t] \in Nat
    /\ committed \in [Tables -> SUBSET RowIds]

\* Between commits, each table's tree holds exactly the rows of the committed
\* transactions: no transaction's rows are lost and none come back.
NothingLost == ~InCommit => \A tb \in Tables : Contents(tb) = committed[tb]

\* Between commits, the cached row_count is the number of rows (count() without
\* filters returns it) and next_rowid is above every row.
CountsExact == ~InCommit => \A tb \in Tables :
    /\ meta[tb].rows = Cardinality(committed[tb])
    /\ \A x \in committed[tb] : x < meta[tb].next

\* The trees of two tables never share a page, and no page a published page
\* points to is beyond the end of the file once the writer has let go.
TreesDisjoint == ~InCommit =>
    /\ \A a, b \in Tables : a # b => PagesFrom(pages, meta[a].root) \cap PagesFrom(pages, meta[b].root) = {}
    /\ \A a \in Tables : \A p \in PagesFrom(pages, meta[a].root) : p < numPages

\* A get() that no commit() overlaps finds every row committed before it.
CalmReadsFindRows ==
    \A r \in Readers : rd[r].at \in {"missing", "error"} => ~(rd[r].known /\ rd[r].calm)

\* Commit is one atomic step of AtomicTables: the mapping shows the contents of
\* the trees, except that they keep their last stable value during a commit().
Atomic == INSTANCE AtomicTables
            WITH rows <- [tb \in Tables |-> IF InCommit THEN committed[tb] ELSE Contents(tb)],
                 staged <- did
ImplementsAtomic == Atomic!Spec
=============================================================================
