-------------------------------- MODULE TableOps --------------------------------
(***************************************************************************)
(* One table of BoogyDb as its non-ACID operations see it: the schema      *)
(* (TableMeta of table.rs), the rows, the secondary indexes, and the ways  *)
(* find() and count() answer a query, by an index or by a scan.            *)
(*                                                                         *)
(* Every operation holds the table's write lock from its first read of the *)
(* metadata to its commit, so each is one action.  A call that fails       *)
(* before it changes anything is not a step.  An insert_many that fails in *)
(* the middle of its rows leaves the first of them in the overlay; such a  *)
(* table is followed to the commit that publishes them and no further.     *)
(* What a crash or a failing commit leaves behind is the business of       *)
(* PageStore and Catalog.                                                  *)
(*                                                                         *)
(* Row bytes are a function from the column ids that are physically       *)
(* present to values.  Real, Boolean and Blob values are left out: Integer *)
(* and Text already show every branch of the index encoding and of the     *)
(* filters but the Integer/Real coercion.                                  *)
(***************************************************************************)
EXTENDS Filters

CONSTANTS Names,        \* column names
          Types,        \* declared column types
          Defaults,     \* defaults given to add_column
          NoDefault,
          InitColumns,  \* the ColumnDefs given to create_table
          MaxCols,      \* bound: column slots
          NoLimit,      \* a query without a limit
          Workloads     \* name -> what the callers do: a record with
                        \*   ops      the operations they use
                        \*   data     the (name -> value) arguments of inserts and updates
                        \*   wheres   the filter lists of update_where and delete_where
                        \*   types    the column types add_column is given
                        \*   names    index names, and defs the [columns, unique] of create_index_ex
                        \*   rows     bound: row ids are 1 .. rows
                        \*   queries  the FindOptions: [filters, groups, sort, limit, offset, total]
                        \*   steps, upserts  see TableTx

ColumnDef == [name : Names, type : Types, default : Defaults \cup {NoDefault}, dropped : BOOLEAN]

ASSUME BoundsAssumption == MaxCols \in Nat /\ \A w \in DOMAIN Workloads : Workloads[w].rows \in Nat

\* create_table does not look for a name given twice: its callers give none.
ASSUME ColumnsAssumption ==
    /\ InitColumns \in Seq(ColumnDef)
    /\ \A i, j \in DOMAIN InitColumns : InitColumns[i].name = InitColumns[j].name => i = j

ASSUME CallsAssumption ==
    \A w \in DOMAIN Workloads :
        /\ Workloads[w].types \subseteq Types
        /\ \A def \in Workloads[w].defs : def.columns \in Seq(Names) /\ def.unique \in BOOLEAN

\* The row id, which reads as a column.
AutoIdCol == "_id"

\* create_table takes a column of that name too, which no filter would then
\* reach: its callers give none.
ASSUME NamesAssumption == AutoIdCol \notin Names

FilterType == [col : Names \cup {AutoIdCol}, op : {"Eq", "Ne", "Lt", "Le", "Gt", "Ge", "In", "IsNull", "IsNotNull"},
               value : Value, list : Seq(Value)]

ASSUME QueriesAssumption ==
    \A w \in DOMAIN Workloads : Workloads[w].queries \subseteq
        [filters : Seq(FilterType), groups : Seq(Seq(FilterType)),
         sort : Seq([col : Names \cup {AutoIdCol}, dir : {"asc", "desc"}]),
         limit : Nat \cup {NoLimit}, offset : Nat, total : BOOLEAN]

ASSUME ValuesAssumption ==
    /\ Defaults \subseteq Value \cup {NoDefault}
    /\ \A w \in DOMAIN Workloads : \A d \in Workloads[w].data : \A n \in DOMAIN d : d[n] \in Value

VARIABLES
    columns,    \* Vec<ColumnDef>: position is the column id
    colId,      \* col_name_to_id
    indexes,    \* Vec<IndexMeta>: [name, columns, unique, keys (its tree)]
    rows,       \* row id -> (column id -> value)
    next,       \* next_rowid
    count,      \* row_count
    bypassed,   \* history: an operation that skips enforce_unique_indexes ran
                \* on the table while it had a unique index
    retyped,    \* history: two column slots, dropped or not, had one name and
                \* two types
    staged,     \* the rows, by id, that a failed insert_many left in the overlay
    halfDone,   \* history: an insert_many failed in the middle of its rows
    load        \* the name of this behaviour's workload

vars == <<columns, colId, indexes, rows, next, count, bypassed, retyped, staged, halfDone, load>>

Work == Workloads[load]
MaxRow == Work.rows
RowIds == 1 .. MaxRow

------------------------------------------------------------------------------
(* Schema. *)

\* TableMeta::new: the name map holds the columns that are not dropped.
NameMap(cs) ==
    LET live == {i \in DOMAIN cs : ~cs[i].dropped}
    IN  [n \in {cs[i].name : i \in live} |-> CHOOSE i \in live : cs[i].name = n]

Live == DOMAIN colId

Retyped(cs) == \E i, j \in DOMAIN cs : cs[i].name = cs[j].name /\ cs[i].type # cs[j].type

\* meta.columns.iter().find(|c| c.name == n): the first slot of that name,
\* dropped or not.
ColType(n) ==
    LET slots == {i \in DOMAIN columns : columns[i].name = n}
    IN  columns[CHOOSE i \in slots : \A j \in slots : i <= j].type

\* extract_column, with an absent column read as Null.
Stored(r, i) == IF i \in DOMAIN r THEN r[i] ELSE Null

\* Row::get: the first live slot of the name; the default when it is absent.
Get(r, n) ==
    LET i == CHOOSE i \in DOMAIN columns : columns[i].name = n /\ ~columns[i].dropped
    IN  IF i \in DOMAIN r \/ columns[i].default = NoDefault
        THEN Stored(r, i) ELSE columns[i].default

\* The encoded row of an argument: names that are no live column are ignored.
Encode(d) == [i \in {colId[n] : n \in DOMAIN d \cap Live} |->
                 d[CHOOSE n \in DOMAIN d \cap Live : colId[n] = i]]

Merged(r, d) == [i \in DOMAIN r \cup DOMAIN Encode(d) |->
                    IF i \in DOMAIN Encode(d) THEN Encode(d)[i] ELSE r[i]]

\* patch_row_multi, the updater of update_where: a column that the row does not
\* physically hold is left out, whatever the argument gives for it.
Patched(r, d) == [i \in DOMAIN r |-> IF i \in DOMAIN Encode(d) THEN Encode(d)[i] ELSE r[i]]

------------------------------------------------------------------------------
(* Indexes. *)

Resolved(ix) == \A k \in DOMAIN ix.columns : ix.columns[k] \in Live

\* encode_composite_value_prefix of a row: one component per index column, and
\* None (the empty tuple) if one of them is Null or not of the column's type.
Prefix(ix, r) ==
    LET part(k) == Stored(r, colId[ix.columns[k]])
    IN  IF Resolved(ix) /\ \A k \in DOMAIN ix.columns : TypeOf(part(k)) = ColType(ix.columns[k])
        THEN [k \in DOMAIN ix.columns |-> part(k)]
        ELSE <<>>

\* The index keys of a row: prefix and row id, or nothing.
Keys(ix, id, r) == IF Prefix(ix, r) = <<>> THEN {} ELSE {[prefix |-> Prefix(ix, r), id |-> id]}

KeysOf(ix, rs) == UNION {Keys(ix, id, rs[id]) : id \in DOMAIN rs}

\* Mutant: the old keys are left behind.
ReindexedKeepOld(old, new) ==
    [n \in DOMAIN indexes |->
        [indexes[n] EXCEPT !.keys = @ \cup KeysOf(indexes[n], new)]]

\* index_update_row over a set of rows: old keys removed, new keys added.
Reindexed(old, new) ==
    [n \in DOMAIN indexes |->
        [indexes[n] EXCEPT !.keys = (@ \ KeysOf(indexes[n], old)) \cup KeysOf(indexes[n], new)]]

\* enforce_index_types: only an index's leading column is checked.
TypesAccepted(d) ==
    \A n \in DOMAIN indexes :
        LET c == indexes[n].columns[1]
        IN  c \in DOMAIN d /\ d[c] # Null => TypeOf(d[c]) = ColType(c)

\* enforce_unique_indexes on the row about to be inserted.
UniqueAccepted(r) ==
    \A n \in DOMAIN indexes :
        indexes[n].unique /\ Prefix(indexes[n], r) # <<>> =>
            \A k \in indexes[n].keys : k.prefix # Prefix(indexes[n], r)

------------------------------------------------------------------------------
(* Queries. *)

\* find_index_for_column: the first index whose leading column is c.
IndexesOn(c) == {n \in DOMAIN indexes : indexes[n].columns[1] = c}
FirstIndexOn(c) == CHOOSE n \in IndexesOn(c) : \A m \in IndexesOn(c) : n <= m

\* scan_prefix with encode_value_prefix(col_type, v).
Scanned(c, v) ==
    IF TypeOf(v) # ColType(c) THEN {} ELSE {k \in indexes[FirstIndexOn(c)].keys : k.prefix[1] = v}

\* extract_rowid: bytes 8..16 for an Integer column, which in a composite key
\* are the second component with its sign bit flipped (no id in use); the last
\* eight bytes for a Text column.
ExtractRowid(c, k) ==
    IF ColType(c) = "Integer" /\ Len(k.prefix) > 1 THEN {} ELSE {k.id}

\* The column of a row as a sequence: <<>> when it is absent and has no default.
Column(r, i) == IF i \in DOMAIN r THEN <<r[i]>>
                ELSE IF columns[i].default = NoDefault THEN <<>> ELSE <<columns[i].default>>

\* filter_matches_row: the bytes if the column is there, else its default; a
\* column that does not exist counts as Null.
FilterMatchesRow(f, id, r) ==
    IF f.col = AutoIdCol THEN Matches(f, <<"Integer", id>>)
    ELSE IF f.col \notin Live THEN Matches(f, Null)
    ELSE IF colId[f.col] \in DOMAIN r THEN Passes(f, r[colId[f.col]])
    ELSE LET d == Column(r, colId[f.col]) IN Matches(f, IF d = <<>> THEN Null ELSE d[1])

\* row_passes: all of the filters, and all of one of the groups if there are any.
RowPasses(id, r, filters, groups) ==
    /\ \A i \in DOMAIN filters : FilterMatchesRow(filters[i], id, r)
    /\ groups = <<>> \/ \E g \in ToSet(groups) : \A i \in DOMAIN g : FilterMatchesRow(g[i], id, r)

Ascending(S) == Ordered(S, LAMBDA a, b : a < b)

\* Mutant: the skipped rows are not counted.
NeededOnly(q) == q.limit
\* How many matches are enough when neither a sort nor the total needs them all.
Needed(q) == q.offset + q.limit

\* Cut a list of matches there: scan_prefix_limit, and stop_after of the scans.
Stopped(q, s) == IF q.sort = <<>> /\ ~q.total /\ q.limit # NoLimit
                 THEN SubSeq(s, 1, Min({Needed(q), Len(s)})) ELSE s

\* The filter find answers from an index, 0 if it scans: the first Eq or In
\* filter on an indexed column, and only without groups.
IndexFilter(q) ==
    LET usable == {i \in DOMAIN q.filters : q.filters[i].op \in {"Eq", "In"} /\ IndexesOn(q.filters[i].col) # {}}
    IN  IF q.groups # <<>> \/ usable = {} THEN 0 ELSE Min(usable)

\* The row ids an index filter gives; those of an Eq filter are cut before the
\* other filters are applied.
FromIndex(q, f) ==
    LET ids(v) == UNION {ExtractRowid(f.col, k) : k \in Scanned(f.col, v)}
    IN  IF f.op = "In" THEN Ascending(UNION {ids(v) : v \in ToSet(f.list)})
        ELSE Stopped(q, Ascending(ids(f.value)))

\* One filter, not In, on a name that is no column matches nothing.
NoColumn(filters, groups) == /\ groups = <<>> /\ Len(filters) = 1
                             /\ filters[1].op # "In" /\ filters[1].col \notin Live \cup {AutoIdCol}

\* The matches of find, in id order, by index or by scan.
Found(q) ==
    LET passing(S) == {id \in S : RowPasses(id, rows[id], q.filters, q.groups)}
        i == IndexFilter(q)
    IN  IF i # 0 THEN LET ids == ToSet(FromIndex(q, q.filters[i])) \cap DOMAIN rows
                      IN  Ascending(IF Len(q.filters) > 1 THEN passing(ids) ELSE ids)
        ELSE IF NoColumn(q.filters, q.groups) THEN <<>>
        ELSE Stopped(q, Ascending(passing(DOMAIN rows)))

\* The stable sorts of find, last key first: the first key that tells two rows
\* apart decides, and the row id after all of them.
Precedes(q, a, b) ==
    LET value(id, k) == IF q.sort[k].col = AutoIdCol THEN <<<<"Integer", id>>>>
                        ELSE IF q.sort[k].col \in Live THEN Column(rows[id], colId[q.sort[k].col]) ELSE <<>>
        order(k) == SortOrder(value(a, k), value(b, k))
        apart == {k \in DOMAIN q.sort : order(k) # Equal}
    IN  IF apart = {} THEN a < b
        ELSE order(Min(apart)) = IF q.sort[Min(apart)].dir = "asc" THEN Less ELSE Greater

InOrder(q, S) == Ordered(S, LAMBDA a, b : Precedes(q, a, b))

\* skip and take.
Slice(q, s) == SubSeq(s, q.offset + 1, IF q.limit = NoLimit THEN Len(s) ELSE Min({q.offset + q.limit, Len(s)}))

\* find: the rows in order, and the number of matches.
Find(q) ==
    LET found == Found(q)
    IN  [rows |-> Slice(q, IF q.sort = <<>> THEN found ELSE InOrder(q, ToSet(found))),
         total |-> IF q.total THEN <<Len(found)>> ELSE <<>>]

\* count_with: the counter, the index if the value can be encoded, or a scan.
Count(filters, groups) ==
    LET f == filters[1]
    IN  IF filters = <<>> /\ groups = <<>> THEN count
        ELSE IF /\ groups = <<>> /\ Len(filters) = 1 /\ f.op = "Eq"
                /\ IndexesOn(f.col) # {} /\ TypeOf(f.value) = ColType(f.col)
             THEN Cardinality(Scanned(f.col, f.value))
        ELSE IF NoColumn(filters, groups) THEN 0
        ELSE Cardinality({id \in DOMAIN rows : RowPasses(id, rows[id], filters, groups)})

\* The predicate of update_where and delete_where: the stored values only, no
\* defaults and no row id.
Where(filters) ==
    {id \in DOMAIN rows : \A i \in DOMAIN filters :
        LET f == filters[i]
        IN  IF f.col \in Live /\ colId[f.col] \in DOMAIN rows[id] THEN Passes(f, rows[id][colId[f.col]])
            ELSE Matches(f, Null)}

------------------------------------------------------------------------------

Init ==
    /\ columns = InitColumns
    /\ colId = NameMap(InitColumns)
    /\ indexes = <<>>
    /\ rows = <<>>
    /\ next = 1
    /\ count = 0
    /\ bypassed = FALSE
    /\ retyped = Retyped(InitColumns)
    /\ staged = <<>> /\ halfDone = FALSE
    /\ load \in DOMAIN Workloads

\* A function without some of its arguments, and one with others added.
Without(f, S) == [x \in DOMAIN f \ S |-> f[x]]
With(f, g) == [x \in DOMAIN f \cup DOMAIN g |-> IF x \in DOMAIN g THEN g[x] ELSE f[x]]
Only(f, S) == [x \in S |-> f[x]]

HasUnique(ixs) == \E n \in DOMAIN ixs : ixs[n].unique
Enforced == UNCHANGED bypassed
NotEnforced == bypassed' = HasUnique(indexes)

\* Put rows new in place of rows old (same metadata): tree and indexes.
Store(old, new) ==
    /\ rows' = With(Without(rows, DOMAIN old), new)
    /\ indexes' = Reindexed(old, new)
    /\ UNCHANGED <<columns, colId>>

Insert(d) ==
    /\ next <= MaxRow
    /\ TypesAccepted(d) /\ UniqueAccepted(Encode(d))
    /\ next \notin DOMAIN rows
    /\ Store(<<>>, [id \in {next} |-> Encode(d)])
    /\ next' = next + 1 /\ count' = count + 1
    /\ Enforced

\* A row over max_row_size is refused after its id has been taken.
InsertTooLarge(d) ==
    /\ next <= MaxRow
    /\ TypesAccepted(d)
    /\ next' = next + 1
    /\ UNCHANGED <<columns, colId, indexes, rows, count, bypassed>>

\* Mutant: next_rowid is not moved past an id equal to it.
InsertWithIdLate(id, d) ==
    /\ TypesAccepted(d) /\ UniqueAccepted(Encode(d))
    /\ id \notin DOMAIN rows
    /\ Store(<<>>, [i \in {id} |-> Encode(d)])
    /\ next' = (IF id > next THEN id + 1 ELSE next)
    /\ count' = count + 1
    /\ Enforced

InsertWithId(id, d) ==
    /\ TypesAccepted(d) /\ UniqueAccepted(Encode(d))
    /\ id \notin DOMAIN rows
    /\ Store(<<>>, [i \in {id} |-> Encode(d)])
    /\ next' = (IF id >= next THEN id + 1 ELSE next)
    /\ count' = count + 1
    /\ Enforced

\* insert_many of two rows: the types of all rows are checked, uniqueness of none.
InsertMany(d, e) ==
    /\ next + 1 <= MaxRow
    /\ TypesAccepted(d) /\ TypesAccepted(e)
    /\ {next, next + 1} \cap DOMAIN rows = {}
    /\ Store(<<>>, [id \in {next, next + 1} |-> IF id = next THEN Encode(d) ELSE Encode(e)])
    /\ next' = next + 2 /\ count' = count + 2
    /\ NotEnforced

\* insert_many whose second row is over max_row_size: the call returns with its
\* guard open, so the first row and its index keys stay in the overlay, while
\* next_rowid, row_count and the root of the rows are only set after the commit.
InsertManyTooLarge(d, e) ==
    /\ next <= MaxRow
    /\ TypesAccepted(d) /\ TypesAccepted(e)
    /\ next \notin DOMAIN rows
    /\ staged' = [id \in {next} |-> Encode(d)]
    /\ halfDone' = TRUE
    /\ NotEnforced
    /\ UNCHANGED <<columns, colId, indexes, rows, next, count>>

\* The next commit of any operation publishes what was left.  The indexes know
\* their new roots; from the old root of the rows a search by id reaches all of
\* them or, if the failed call split that root, those below the separator.
PublishLeft ==
    /\ staged # <<>>
    /\ \E separator \in 2 .. MaxRow + 1 :
          rows' = [id \in {i \in DOMAIN rows \cup DOMAIN staged : i < separator} |->
                      IF id \in DOMAIN staged THEN staged[id] ELSE rows[id]]
    /\ indexes' = Reindexed(<<>>, staged)
    /\ staged' = <<>>
    /\ UNCHANGED <<columns, colId, next, count, bypassed, halfDone>>

Update(id, d) ==
    /\ TypesAccepted(d)
    /\ id \in DOMAIN rows
    /\ Store(Only(rows, {id}), [i \in {id} |-> Merged(rows[id], d)])
    /\ UNCHANGED <<next, count>>
    /\ NotEnforced

UpdateWhere(fs, d) ==
    /\ TypesAccepted(d)
    /\ Store(Only(rows, Where(fs)), [i \in Where(fs) |-> Patched(rows[i], d)])
    /\ UNCHANGED <<next, count>>
    /\ NotEnforced

\* Mutant: row_count goes down whether or not a row was there.
DeleteUnchecked(id) ==
    /\ Store(Only(rows, {id} \cap DOMAIN rows), <<>>)
    /\ count' = count - 1 /\ UNCHANGED next
    /\ Enforced

Delete(id) ==
    /\ id \in DOMAIN rows
    /\ Store(Only(rows, {id}), <<>>)
    /\ count' = count - 1 /\ UNCHANGED next
    /\ Enforced

DeleteWhere(fs) ==
    /\ Store(Only(rows, Where(fs)), <<>>)
    /\ count' = count - Cardinality(Where(fs)) /\ UNCHANGED next
    /\ Enforced

------------------------------------------------------------------------------
(* Schema changes. *)

\* create_index_ex: built from all rows; a unique index refuses duplicates.
CreateIndex(n, def) ==
    LET ix == [name |-> n, columns |-> def.columns, unique |-> def.unique, keys |-> {}]
        keys == KeysOf(ix, rows)
    IN  /\ \A m \in DOMAIN indexes : indexes[m].name # n
        /\ def.columns # <<>> /\ \A k \in DOMAIN def.columns : def.columns[k] \in Live
        /\ def.unique => \A j, k \in keys : j.prefix = k.prefix => j = k
        /\ indexes' = Append(indexes, [ix EXCEPT !.keys = keys])
        /\ UNCHANGED <<columns, colId, rows, next, count, bypassed>>

DropIndex(n) ==
    /\ \E m \in DOMAIN indexes :
          /\ indexes[m].name = n
          /\ indexes' = SubSeq(indexes, 1, m - 1) \o SubSeq(indexes, m + 1, Len(indexes))
    /\ UNCHANGED <<columns, colId, rows, next, count>>
    /\ bypassed' = (bypassed /\ HasUnique(indexes'))

\* Mutant: the id is taken from the length before the push.
AddColumnShort(n, ty, d, nullable) ==
    /\ Len(columns) < MaxCols
    /\ n \notin Live
    /\ nullable \/ d # NoDefault \/ count = 0
    /\ columns' = Append(columns, [name |-> n, type |-> ty, default |-> d, dropped |-> FALSE])
    /\ colId' = With(colId, [m \in {n} |-> Len(columns)])
    /\ UNCHANGED <<indexes, rows, next, count, bypassed>>

AddColumn(n, ty, d, nullable) ==
    /\ Len(columns) < MaxCols
    /\ n \notin Live
    /\ nullable \/ d # NoDefault \/ count = 0
    /\ columns' = Append(columns, [name |-> n, type |-> ty, default |-> d, dropped |-> FALSE])
    /\ colId' = With(colId, [m \in {n} |-> Len(columns) + 1])
    /\ UNCHANGED <<indexes, rows, next, count, bypassed>>

\* The column keeps its id; the indexes that name it are renamed too.
RenameIn(cols, old, new) == [k \in DOMAIN cols |-> IF cols[k] = old THEN new ELSE cols[k]]

RenameColumn(old, new) ==
    /\ old \in Live /\ new \notin Live
    /\ columns' = [columns EXCEPT ![colId[old]].name = new]
    /\ colId' = With(Without(colId, {old}), [m \in {new} |-> colId[old]])
    /\ indexes' = [n \in DOMAIN indexes |->
                      [indexes[n] EXCEPT !.columns = RenameIn(@, old, new)]]
    /\ UNCHANGED <<rows, next, count, bypassed>>

\* The slot stays, marked dropped, so that later ids do not shift.
Tombstoned(n) == [columns EXCEPT ![colId[n]].dropped = TRUE]

\* Mutant: the slot is removed, and the later columns move up.
DropSlot(n) ==
    /\ n \in Live
    /\ \A m \in DOMAIN indexes : \A k \in DOMAIN indexes[m].columns : indexes[m].columns[k] # n
    /\ columns' = SubSeq(columns, 1, colId[n] - 1) \o SubSeq(columns, colId[n] + 1, Len(columns))
    /\ colId' = NameMap(columns')
    /\ UNCHANGED <<indexes, rows, next, count, bypassed>>

DropColumn(n) ==
    /\ n \in Live
    /\ \A m \in DOMAIN indexes : \A k \in DOMAIN indexes[m].columns : indexes[m].columns[k] # n
    /\ columns' = Tombstoned(n)
    /\ colId' = Without(colId, {n})
    /\ UNCHANGED <<indexes, rows, next, count, bypassed>>

\* Clean shutdown and open: the registry keeps the columns, not the name map.
Reopen ==
    /\ colId' = NameMap(columns)
    /\ UNCHANGED <<columns, indexes, rows, next, count, bypassed>>

Called(op) == op \in Work.ops

Step ==
    \/ Called("insert") /\ \E d \in Work.data : Insert(d) \/ InsertTooLarge(d)
    \/ Called("insert_with_id") /\ \E id \in RowIds, d \in Work.data : InsertWithId(id, d)
    \/ Called("insert_many") /\ \E d, e \in Work.data : InsertMany(d, e)
    \/ Called("update") /\ \E id \in RowIds, d \in Work.data : Update(id, d)
    \/ Called("update_where") /\ \E fs \in Work.wheres, d \in Work.data : UpdateWhere(fs, d)
    \/ Called("delete") /\ \E id \in RowIds : Delete(id)
    \/ Called("delete_where") /\ \E fs \in Work.wheres : DeleteWhere(fs)
    \/ Called("create_index_ex") /\ \E n \in Work.names, def \in Work.defs : CreateIndex(n, def)
    \/ Called("drop_index") /\ \E n \in Work.names : DropIndex(n)
    \/ Called("add_column") /\ \E n \in Names, ty \in Work.types, d \in Defaults, b \in BOOLEAN :
                                  AddColumn(n, ty, d, b)
    \/ Called("rename_column") /\ \E old, new \in Names : RenameColumn(old, new)
    \/ Called("drop_column") /\ \E n \in Names : DropColumn(n)
    \/ Reopen

\* An operation that runs to its end, or fails with nothing left behind.
Whole == /\ ~halfDone /\ Step
         /\ retyped' = (retyped \/ (columns' # columns /\ Retyped(columns')))
         /\ UNCHANGED <<staged, halfDone, load>>

Half == /\ \/ ~halfDone /\ Called("insert_many") /\ \E d, e \in Work.data : InsertManyTooLarge(d, e)
           \/ PublishLeft
        /\ UNCHANGED <<retyped, load>>

Next == Whole \/ Half

Spec == Init /\ [][Next]_vars

------------------------------------------------------------------------------
(* Properties. *)

\* Types of the variables; rows and name map only use existing column ids.
TypeOK ==
    /\ columns \in Seq(ColumnDef)
    /\ Live \subseteq Names /\ \A n \in Live : colId[n] \in DOMAIN columns
    /\ \A m \in DOMAIN indexes :
          /\ indexes[m].name \in Work.names /\ indexes[m].unique \in BOOLEAN
          /\ indexes[m].columns \in Seq(Names)
          /\ \A k \in indexes[m].keys : k.id \in RowIds
    /\ DOMAIN rows \subseteq RowIds
    /\ \A id \in DOMAIN rows : DOMAIN rows[id] \subseteq DOMAIN columns
    /\ next \in 1 .. MaxRow + 1 /\ count \in 0 .. MaxRow
    /\ bypassed \in BOOLEAN /\ retyped \in BOOLEAN
    /\ DOMAIN staged \subseteq RowIds /\ (staged # <<>> => halfDone) /\ halfDone \in BOOLEAN

\* The name map kept by add_column, rename_column and drop_column is the one
\* TableMeta::new rebuilds from the columns, so a reopened table resolves every
\* name to the same column id as before.
NameMapExact == colId = NameMap(columns)

\* Every index holds exactly one key for each row with a full, well-typed value
\* tuple, and none for any other row, after any mix of inserts, updates, batch
\* updates, deletes, renames and drops (index_update_row, create_index_ex), as
\* long as no insert_many has failed in the middle of its rows and no name has
\* been given to columns of two types: index_update_row takes the type of the
\* first slot with the name, a dropped one too, and a renamed column then leaves
\* entries behind that it no longer finds.
IndexExact ==
    \A m \in DOMAIN indexes :
        /\ Resolved(indexes[m])
        /\ ~retyped /\ ~halfDone => indexes[m].keys = KeysOf(indexes[m], rows)

\* row_count, which count() returns without looking at a row, is the number of
\* rows, and the next automatic id is above every id in use, so insert() never
\* meets DuplicateKey, as long as no insert_many has failed in the middle of its
\* rows (such rows are published under an id that next_rowid still offers, and
\* row_count does not count them).
CountsExact == ~halfDone => count = Cardinality(DOMAIN rows) /\ \A id \in DOMAIN rows : id < next

\* No two rows share the value tuple of a unique index, however inserts,
\* deletes, index builds and schema changes follow each other, as long as no
\* insert_many, update or update_where has touched the table (those three do
\* not call enforce_unique_indexes) and the indexes are exact.
UniqueHolds ==
    ~bypassed /\ ~retyped /\ ~halfDone => \A m \in DOMAIN indexes : indexes[m].unique =>
        \A j, k \in indexes[m].keys : j.prefix = k.prefix => j = k

\* The answer the predicate documented at FindOptions asks for: the rows that
\* pass all filters and one of the groups, by the value a caller reads with
\* Row::get, in sort order, from offset on, at most limit of them.
Answer(q) ==
    LET holds(id, f) == Matches(f, IF f.col = AutoIdCol THEN <<"Integer", id>> ELSE Get(rows[id], f.col))
        all(id, fs) == \A f \in ToSet(fs) : holds(id, f)
        ids == {id \in DOMAIN rows : all(id, q.filters) /\ (q.groups = <<>> \/ \E g \in ToSet(q.groups) : all(id, g))}
    IN  [rows |-> Slice(q, InOrder(q, ids)),
         total |-> IF q.total THEN <<Cardinality(ids)>> ELSE <<>>,
         count |-> Cardinality(ids)]

\* find() with an equality filter returns the rows that read that value, with
\* or without an index on the column.
FindExact == \A q \in Work.queries : ToSet(Find(q).rows) = ToSet(Answer(q).rows)

\* The columns whose index, if any, holds a key for every row with a value: no
\* index over several columns leads with it and it has no default at read.
Plain(c) == /\ c \in Live
            /\ \A n \in IndexesOn(c) : Len(indexes[n].columns) = 1
            /\ columns[colId[c]].default = NoDefault

\* find looks for values in an index by their encoding under the column's type.
Encodable(f) == f.op \in {"Eq", "In"} /\ IndexesOn(f.col) # {} =>
                    \A v \in ToSet(f.list) \cup (IF f.op = "Eq" THEN {f.value} ELSE {}) : TypeOf(v) = ColType(f.col)

\* A limit is applied to the index entries before the other filters.
CutTooEarly(q) == /\ IndexFilter(q) # 0 /\ q.filters[IndexFilter(q)].op = "Eq" /\ Len(q.filters) > 1
                  /\ q.sort = <<>> /\ ~q.total /\ q.limit # NoLimit

\* On plain columns, find() and count() with any filters, groups, sort, limit
\* and offset give what the documented predicate asks for, through the index as
\* by the scan, after any history of row and schema changes.  Left out: a value
\* of another type, or Null, looked for in an index, which finds nothing; a limit
\* with an indexed equality and a second filter, where find returns too few; and a
\* table on which an insert_many has failed in the middle of its rows.
QueriesExact ==
    ~retyped /\ ~halfDone => \A q \in Work.queries :
        LET used == ToSet(q.filters) \cup UNION {ToSet(g) : g \in ToSet(q.groups)}
            a == Answer(q)
        IN  (\A f \in used : f.col = AutoIdCol \/ (Plain(f.col) /\ Encodable(f)))
              /\ (\A s \in ToSet(q.sort) : s.col \in Live \cup {AutoIdCol}) /\ ~CutTooEarly(q)
                => /\ Find(q) = [rows |-> a.rows, total |-> a.total]
                   /\ Count(q.filters, q.groups) = a.count

\* A step that leaves the rows leaves what they read: a column that keeps its
\* name reads as before, a renamed one as it did under its old name, and a new
\* one reads its default.
ReadsKept ==
    rows' = rows =>
        \A n \in Live' :
           \/ n \in Live /\ \A id \in DOMAIN rows : Get(rows[id], n)' = Get(rows[id], n)
           \/ \E o \in Live \ Live' : \A id \in DOMAIN rows : Get(rows[id], n)' = Get(rows[id], o)
           \/ /\ n \notin Live
              /\ \A id \in DOMAIN rows :
                    Get(rows[id], n)' = LET d == columns'[colId'[n]].default
                                        IN  IF d = NoDefault THEN Null ELSE d

\* A schema change (add_column, rename_column, drop_column) or a reopening never
\* changes what an existing row reads, even where a name was used before.
ReadsStable == [][ReadsKept]_vars
==============================================================================
