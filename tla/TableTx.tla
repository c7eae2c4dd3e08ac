-------------------------------- MODULE TableTx --------------------------------
(***************************************************************************)
(* The operations of an ACID transaction (AcidTransaction in db.rs) on the *)
(* table of TableOps.  They see the table through the transaction's        *)
(* private pages, kept here as the rows and the index keys those pages     *)
(* hold, and its MetaDelta; commit() moves both into the table.            *)
(*                                                                         *)
(* The transaction has the table to itself, as behind the write gate of    *)
(* AsyncBoogyDb: no other writer runs while it is open, and readers go on  *)
(* seeing the table of TableOps.  Transactions that overlap, and the steps *)
(* inside commit(), are the module AcidTx's.                               *)
(***************************************************************************)
EXTENDS TableOps

CONSTANT MaxCounter    \* bound: counters stay at or below it (i64 wraps far above)

ASSUME UpsertsAssumption ==
    \A w \in DOMAIN Workloads : \A u \in Workloads[w].upserts :
        \A d \in {u.key, u.set, u.also} : \A n \in DOMAIN d : d[n] \in Value

VARIABLE tx    \* <<>>, or <<the open transaction>>, a record of
               \*   rows    row id -> row, through the private pages
               \*   keys    index -> the keys of its tree, through the private pages
               \*   next    MetaDelta.next_rowid
               \*   added   MetaDelta.row_count_delta
               \*   seen    unique_seen: <<index name, prefix>>
               \*   loose   history: an update wrote a column of a unique index
               \*   steps   operations so far

table == <<columns, colId, indexes, rows, next, count, bypassed, retyped, staged, halfDone, load>>
allVars == <<columns, colId, indexes, rows, next, count, bypassed, retyped, staged, halfDone, load, tx>>

Open == tx # <<>>
T == tx[1]
Stage(u) == tx' = <<[u EXCEPT !.steps = @ + 1]>> /\ UNCHANGED table
MayStage(op) == Called(op) /\ Open /\ T.steps < Work.steps

------------------------------------------------------------------------------
(* The operations, as functions on an open transaction t. *)

Begun == [rows |-> rows, keys |-> [n \in DOMAIN indexes |-> indexes[n].keys], next |-> next, added |-> 0,
          seen |-> {}, loose |-> FALSE, steps |-> 0]

\* Put rows new in place of rows old, in the tree and in every index.
Staged(t, old, new) ==
    [t EXCEPT !.rows = With(Without(@, DOMAIN old), new),
              !.keys = [n \in DOMAIN indexes |->
                          (@[n] \ KeysOf(indexes[n], old)) \cup KeysOf(indexes[n], new)]]

UniqueTuples(r) == {<<indexes[n].name, Prefix(indexes[n], r)>> :
                      n \in {n \in DOMAIN indexes : indexes[n].unique /\ Prefix(indexes[n], r) # <<>>}}

\* Mutant: only the committed tree is searched.
CommittedOnly(t, r) == UniqueAccepted(r)
\* enforce_unique_indexes_acid: against the committed index tree, deleted rows
\* and all, and against what this transaction has inserted.
UniqueInTx(t, r) == UniqueAccepted(r) /\ UniqueTuples(r) \cap t.seen = {}

\* insert and insert_with_id of an accepted row.
Inserted(t, id, d, following) ==
    [Staged(t, <<>>, [i \in {id} |-> Encode(d)]) EXCEPT !.added = @ + 1, !.next = following,
                                                       !.seen = @ \cup UniqueTuples(Encode(d))]

Touched(d) == \E n \in DOMAIN indexes : indexes[n].unique /\ ToSet(indexes[n].columns) \cap DOMAIN d # {}

\* Mutant: the old index entries stay.
UpdatedKeepOld(t, S, d) == [Staged(t, <<>>, [i \in S |-> Merged(t.rows[i], d)]) EXCEPT !.loose = @ \/ Touched(d)]
\* update of the rows S, which are there: uniqueness is not looked at.
Updated(t, S, d) ==
    [Staged(t, Only(t.rows, S), [i \in S |-> Merged(t.rows[i], d)]) EXCEPT !.loose = @ \/ (S # {} /\ Touched(d))]

Deleted(t, S) == [Staged(t, Only(t.rows, S), <<>>) EXCEPT !.added = @ - Cardinality(S)]

\* The rows find, count_with, update_where and delete_where match: all rows are
\* read through the private pages, and defaults apply.
Matching(t, filters, groups) == {id \in DOMAIN t.rows : RowPasses(id, t.rows[id], filters, groups)}

------------------------------------------------------------------------------
(* Actions. *)

Begin == Called("begin") /\ ~Open /\ ~halfDone /\ tx' = <<Begun>> /\ UNCHANGED table

Acceptable(t, d) == t.next <= MaxRow /\ TypesAccepted(d) /\ UniqueInTx(t, Encode(d))

TxInsert(d) ==
    /\ MayStage("tx_insert") /\ Acceptable(T, d)
    /\ Stage(Inserted(T, T.next, d, T.next + 1))

\* insert_with_id of an id in use fails in the tree, after its tuples have been
\* recorded.
TxInsertWithId(id, d) ==
    /\ MayStage("tx_insert_with_id")
    /\ TypesAccepted(d) /\ UniqueInTx(T, Encode(d))
    /\ Stage(IF id \in DOMAIN T.rows THEN [T EXCEPT !.seen = @ \cup UniqueTuples(Encode(d))]
             ELSE Inserted(T, id, d, IF id >= T.next THEN id + 1 ELSE T.next))

\* insert_many: the rows one by one; those before a refused one stay staged.
TxInsertMany(d, e) ==
    /\ MayStage("tx_insert_many") /\ Acceptable(T, d)
    /\ LET u == Inserted(T, T.next, d, T.next + 1)
       IN  Stage(IF Acceptable(u, e) THEN Inserted(u, u.next, e, u.next + 1) ELSE u)

TxUpdate(id, d) ==
    /\ MayStage("tx_update") /\ TypesAccepted(d) /\ id \in DOMAIN T.rows
    /\ Stage(Updated(T, {id}, d))

\* The matching ids are collected before the first row is updated.
TxUpdateWhere(fs, d) ==
    /\ MayStage("tx_update_where") /\ TypesAccepted(d)
    /\ Stage(Updated(T, Matching(T, fs, <<>>), d))

TxDelete(id) == MayStage("tx_delete") /\ id \in DOMAIN T.rows /\ Stage(Deleted(T, {id}))

TxDeleteWhere(fs) == MayStage("tx_delete_where") /\ Stage(Deleted(T, Matching(T, fs, <<>>)))

\* The lookup of upsert and upsert_increment: the first row with the key.
WithKey(key) == LET hits == {id \in DOMAIN T.rows : \A c \in DOMAIN key :
                               FilterMatchesRow([col |-> c, op |-> "Eq", value |-> key[c], list |-> <<>>], id, T.rows[id])}
                IN  IF hits = {} THEN 0 ELSE Min(hits)

\* upsert: a unique index over exactly the key's columns is required.
Upsert(key, set) ==
    /\ MayStage("upsert")
    /\ \E n \in DOMAIN indexes : /\ indexes[n].unique /\ Len(indexes[n].columns) = Cardinality(DOMAIN key)
                                 /\ ToSet(indexes[n].columns) = DOMAIN key
    /\ LET id == WithKey(key)
       IN  IF id # 0 THEN TypesAccepted(set) /\ Stage(Updated(T, {id}, set))
           ELSE /\ Acceptable(T, With(key, set))
                /\ Stage(Inserted(T, T.next, With(key, set), T.next + 1))

\* add_counter: an absent or Null counter counts as zero; a Text one is an error.
Sum(v, d) == <<"Integer", (IF v = Null THEN 0 ELSE v[2]) + d>>

UpsertIncrement(key, counter, d, also) ==
    /\ MayStage("upsert_increment")
    /\ LET id == WithKey(key)
           now == IF id = 0 THEN Null ELSE Get(T.rows[id], counter)
           set == With([c \in {counter} |-> Sum(now, d)], also)
       IN  /\ TypeOf(now) # "Text" /\ Sum(now, d)[2] <= MaxCounter
           /\ IF id # 0 THEN TypesAccepted(set) /\ Stage(Updated(T, {id}, set))
              ELSE /\ Acceptable(T, With(key, set))
                   /\ Stage(Inserted(T, T.next, With(key, set), T.next + 1))

\* commit: the pages become the table's, and the delta is added to its metadata.
Commit ==
    /\ Open
    /\ rows' = T.rows
    /\ indexes' = [n \in DOMAIN indexes |-> [indexes[n] EXCEPT !.keys = T.keys[n]]]
    /\ count' = count + T.added
    /\ next' = IF T.next > next THEN T.next ELSE next
    /\ bypassed' = (bypassed \/ T.loose)
    /\ tx' = <<>>
    /\ UNCHANGED <<columns, colId, retyped, staged, halfDone, load>>

\* Drop without commit.
Rollback == Open /\ tx' = <<>> /\ UNCHANGED table

TxStep ==
    \/ Begin \/ Commit \/ Rollback
    \/ \E d \in Work.data : \/ TxInsert(d)
                            \/ \E id \in RowIds : TxInsertWithId(id, d) \/ TxUpdate(id, d)
                            \/ \E e \in Work.data : TxInsertMany(d, e)
                            \/ \E fs \in Work.wheres : TxUpdateWhere(fs, d)
    \/ \E id \in RowIds : TxDelete(id)
    \/ \E fs \in Work.wheres : TxDeleteWhere(fs)
    \/ \E u \in Work.upserts : Upsert(u.key, u.set) \/ UpsertIncrement(u.key, u.counter, 1, u.also)

TxNext == (~Open /\ Next /\ UNCHANGED tx) \/ TxStep

TxInit == Init /\ tx = <<>>

TxSpec == TxInit /\ [][TxNext]_allVars

------------------------------------------------------------------------------
(* Reading inside the transaction. *)

\* AcidTransaction::count_with.
TxCount(filters, groups) == IF filters = <<>> /\ groups = <<>> THEN count + T.added
                            ELSE Cardinality(Matching(T, filters, groups))

\* The order of encoded keys: the first component that differs, then the row id.
KeyPrecedes(a, b) ==
    LET apart == {k \in DOMAIN a.prefix : a.prefix[k] # b.prefix[k]}
    IN  IF apart = {} THEN a.id < b.id ELSE a.prefix[Min(apart)][2] < b.prefix[Min(apart)][2]

\* AcidTransaction::scan_batch in the order of index n, 0 for row order: where
\* each row that passes comes, those an index leaves out skipped.
Places(n, fs) ==
    LET ids == Matching(T, fs, <<>>)
    IN  IF n = 0 THEN {[prefix |-> <<>>, id |-> id] : id \in ids}
        ELSE UNION {Keys(indexes[n], id, T.rows[id]) : id \in ids}

After(k, after, dir) ==
    after = <<>> \/ (IF dir = "asc" THEN KeyPrecedes(after[1], k) ELSE KeyPrecedes(k, after[1]))

\* One batch after the exclusive bound, and a bound for the next one only when
\* there is more.  In row order a row that fails the filters counts as more.
TxScanBatch(n, fs, dir, after, limit) ==
    LET sorted(S) == Ordered(S, LAMBDA a, b : IF dir = "asc" THEN KeyPrecedes(a, b) ELSE KeyPrecedes(b, a))
        left(S) == sorted({k \in S : After(k, after, dir)})
        passing == left(Places(n, fs))
        shown == SubSeq(passing, 1, Min({limit, Len(passing)}))
        candidates == IF n = 0 THEN left(Places(0, <<>>)) ELSE passing
    IN  [keys |-> shown,
         last |-> IF limit # 0 /\ Len(shown) = limit /\ Last(shown) # Last(candidates) THEN <<Last(shown)>> ELSE <<>>]

------------------------------------------------------------------------------
(* Properties. *)

\* The keys at which a batch may be asked to resume: those the transaction sees
\* and, for a token it was given before, those it has since removed.
Tokens(n) == {<<>>} \cup {<<k>> : k \in IF n = 0 THEN [prefix : {<<>>}, id : RowIds] ELSE indexes[n].keys \cup T.keys[n]}

\* Inside an open transaction, after any mix of its operations, what its reads
\* rest on agrees with the rows it sees: every index tree holds exactly their
\* keys (if the indexes were exact at begin), the cached row count with its delta
\* is their number, and the next row id is free.
OverlayInStep ==
    Open =>
        /\ ~retyped => \A n \in DOMAIN indexes :
              T.keys[n] = KeysOf(indexes[n], T.rows)
        /\ TxCount(<<>>, <<>>) = Cardinality(DOMAIN T.rows)
        /\ \A id \in DOMAIN T.rows : id < T.next

\* The same, and: a batch of scan_batch, in row or index order and in either
\* direction, from any token, shows the first matching row past it, and its own
\* token is there if a matching row is left and leaves none of them out.
OverlayExact ==
    /\ OverlayInStep
    /\ Open =>
        \A n \in {0} \cup DOMAIN indexes, fs \in Work.wheres, dir \in {"asc", "desc"} :
              LET past(k, token) == token = <<>> \/ IF dir = "asc" THEN KeyPrecedes(token[1], k) ELSE KeyPrecedes(k, token[1])
              IN  \A token \in Tokens(n) :
                    \E due \in {{k \in Places(n, fs) : past(k, token)}}, b \in {TxScanBatch(n, fs, dir, token, 1)} :
                       /\ ToSet(b.keys) \subseteq due /\ Len(b.keys) = Min({1, Cardinality(due)})
                       /\ due # {} => \A k \in due : k = b.keys[1] \/ (b.last = b.keys /\ past(k, b.last))
==============================================================================
