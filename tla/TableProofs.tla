------------------------------ MODULE TableProofs ------------------------------
(***************************************************************************)
(* Proofs about one table and the ACID transaction on it (TableOps and     *)
(* TableTx), for every schema, workload, number of rows and of operations: *)
(* schema and name map, indexes and counts, the answers of find and        *)
(* count_with, and the batches of a transaction's scan_batch.              *)
(***************************************************************************)
EXTENDS TableTx, FiniteSetTheorems, SequenceTheorems, TLAPS

\* A function on 1 .. n is a sequence.
LEMMA FunctionIsSeq ==
    ASSUME NEW S, NEW n \in Nat, NEW f \in [1 .. n -> S]
    PROVE  f \in Seq(S)
BY SeqDef, Zenon

\* A sequence is one of its own elements.
LEMMA OwnRange ==
    ASSUME NEW S, NEW s \in Seq(S)
    PROVE  s \in Seq({s[k] : k \in DOMAIN s})
<1>1. Len(s) \in Nat /\ DOMAIN s = 1 .. Len(s) /\ s = [k \in 1 .. Len(s) |-> s[k]]
  OBVIOUS
<1>2. s \in [1 .. Len(s) -> {s[k] : k \in DOMAIN s}]
  BY <1>1
<1> QED BY <1>1, <1>2, FunctionIsSeq

-----------------------------------------------------------------------------
(* The schema: columns and name map. *)

\* cm gives every live column its slot, and nothing else.
MapsNames(cs, cm) ==
    /\ cs \in Seq(ColumnDef)
    /\ cm = [n \in DOMAIN cm |-> cm[n]]
    /\ DOMAIN cm = {cs[i].name : i \in {j \in DOMAIN cs : ~cs[j].dropped}}
    /\ \A i \in DOMAIN cs : ~cs[i].dropped => cm[cs[i].name] = i

LEMMA LiveSlot ==
    ASSUME NEW cs, NEW cm, MapsNames(cs, cm), NEW n \in DOMAIN cm
    PROVE  /\ n \in Names
           /\ cm[n] \in DOMAIN cs /\ ~cs[cm[n]].dropped /\ cs[cm[n]].name = n
<1>1. PICK i \in DOMAIN cs : ~cs[i].dropped /\ n = cs[i].name
  BY DEF MapsNames
<1>2. cs[i] \in ColumnDef
  BY DEF MapsNames
<1> QED BY <1>1, <1>2 DEF MapsNames, ColumnDef

\* Two live columns have two names, so the map TableMeta::new builds is cm.
LEMMA NameMapIs ==
    ASSUME NEW cs, NEW cm, MapsNames(cs, cm)
    PROVE  cm = NameMap(cs)
<1> DEFINE live == {i \in DOMAIN cs : ~cs[i].dropped}
<1>1. \A n \in DOMAIN cm : cm[n] = CHOOSE i \in live : cs[i].name = n
  <2> TAKE n \in DOMAIN cm
  <2>1. cm[n] \in live /\ cs[cm[n]].name = n
    BY LiveSlot
  <2>2. \A i \in live : cs[i].name = n => i = cm[n]
    BY DEF MapsNames
  <2> QED BY <2>1, <2>2
<1>2. DOMAIN cm = {cs[i].name : i \in live}
  BY DEF MapsNames
<1>3. cm = [n \in DOMAIN cm |-> cm[n]]
  BY DEF MapsNames
<1> HIDE DEF live
<1>4. cm = [n \in {cs[i].name : i \in live} |-> CHOOSE i \in live : cs[i].name = n]
  BY <1>1, <1>2, <1>3
<1> QED BY <1>4 DEF NameMap, live

LEMMA MapsAdded ==
    ASSUME NEW cs, NEW cm, MapsNames(cs, cm), NEW c \in ColumnDef, ~c.dropped, c.name \notin DOMAIN cm
    PROVE  MapsNames(Append(cs, c), With(cm, [m \in {c.name} |-> Len(cs) + 1]))
<1> DEFINE ds == Append(cs, c)
           dm == With(cm, [m \in {c.name} |-> Len(cs) + 1])
<1>1. /\ ds \in Seq(ColumnDef) /\ DOMAIN ds = 1 .. Len(cs) + 1 /\ DOMAIN cs = 1 .. Len(cs)
      /\ \A i \in DOMAIN cs : ds[i] = cs[i]
      /\ ds[Len(cs) + 1] = c /\ Len(cs) \in Nat
  BY DEF MapsNames
<1>2. /\ DOMAIN dm = DOMAIN cm \cup {c.name}
      /\ \A n \in DOMAIN cm : dm[n] = cm[n]
      /\ dm[c.name] = Len(cs) + 1
      /\ dm = [n \in DOMAIN dm |-> dm[n]]
  BY DEF With
<1>3. \A i \in DOMAIN ds : i \in DOMAIN cs \/ i = Len(cs) + 1
  BY <1>1
<1>4. \A i \in DOMAIN cs : ~cs[i].dropped => cs[i].name \in DOMAIN cm
  BY DEF MapsNames
<1> HIDE DEF ds, dm
<1>5. \A i \in DOMAIN ds : ~ds[i].dropped => dm[ds[i].name] = i
  BY ZenonT(30), <1>1, <1>2, <1>3, <1>4 DEF MapsNames
<1>6. DOMAIN dm = {ds[i].name : i \in {j \in DOMAIN ds : ~ds[j].dropped}}
  <2>1. \A n \in DOMAIN dm : \E i \in DOMAIN ds : ~ds[i].dropped /\ n = ds[i].name
    <3> SUFFICES ASSUME NEW n \in DOMAIN dm PROVE \E i \in DOMAIN ds : ~ds[i].dropped /\ n = ds[i].name
      OBVIOUS
    <3>1. CASE n \in DOMAIN cm
      BY <3>1, <1>1, LiveSlot
    <3>2. CASE n = c.name
      BY <3>2, <1>1
    <3> QED BY <3>1, <3>2, <1>2
  <2>2. \A i \in DOMAIN ds : ~ds[i].dropped => ds[i].name \in DOMAIN dm
    BY <1>1, <1>2, <1>3, <1>4
  <2> QED BY <2>1, <2>2
<1> QED BY <1>1, <1>2, <1>5, <1>6 DEF MapsNames, ds, dm

LEMMA MapsRenamed ==
    ASSUME MapsNames(columns, colId), NEW old \in Names, NEW new \in Names, RenameColumn(old, new)
    PROVE  MapsNames(columns', colId')
<1> DEFINE i0 == colId[old]
           c == [columns[i0] EXCEPT !.name = new]
<1>0. /\ old \in DOMAIN colId /\ new \notin DOMAIN colId
      /\ i0 \in DOMAIN columns /\ ~columns[i0].dropped /\ columns[i0].name = old
      /\ DOMAIN columns = 1 .. Len(columns) /\ Len(columns) \in Nat
      /\ \A i \in DOMAIN columns : columns[i] \in ColumnDef
  BY LiveSlot DEF MapsNames, RenameColumn, Live
<1>1. c \in ColumnDef /\ c.name = new /\ ~c.dropped
  BY <1>0 DEF ColumnDef
<1>2. columns' = [columns EXCEPT ![i0] = c]
  BY DEF RenameColumn
<1> HIDE DEF c
<1>3. /\ columns' \in Seq(ColumnDef) /\ DOMAIN columns' = DOMAIN columns /\ columns'[i0] = c
      /\ \A i \in DOMAIN columns : i # i0 => columns'[i] = columns[i]
  BY <1>0, <1>1, <1>2 DEF MapsNames
<1>4. /\ DOMAIN colId' = (DOMAIN colId \ {old}) \cup {new}
      /\ \A n \in DOMAIN colId \ {old} : colId'[n] = colId[n]
      /\ colId'[new] = i0
      /\ colId' = [n \in DOMAIN colId' |-> colId'[n]]
  BY <1>0 DEF RenameColumn, With, Without
<1>5. \A i \in DOMAIN columns : ~columns[i].dropped /\ i # i0 => columns[i].name \in DOMAIN colId \ {old}
  BY <1>0 DEF MapsNames
<1> HIDE DEF i0
<1>6. \A i \in DOMAIN columns' : ~columns'[i].dropped => colId'[columns'[i].name] = i
  BY <1>1, <1>3, <1>4, <1>5 DEF MapsNames
<1>7. DOMAIN colId' = {columns'[i].name : i \in {j \in DOMAIN columns' : ~columns'[j].dropped}}
  <2>1. ASSUME NEW n \in DOMAIN colId' PROVE \E i \in DOMAIN columns' : ~columns'[i].dropped /\ n = columns'[i].name
    <3>1. CASE n \in DOMAIN colId \ {old}
      <4>1. colId[n] \in DOMAIN columns /\ ~columns[colId[n]].dropped /\ columns[colId[n]].name = n
        BY <3>1, LiveSlot
      <4>2. colId[n] # i0
        BY <4>1, <3>1, <1>0
      <4> QED BY <4>1, <4>2, <1>3
    <3>2. CASE n = new
      BY <3>2, <1>0, <1>1, <1>3
    <3> QED BY <3>1, <3>2, <1>4
  <2>2. \A i \in DOMAIN columns' : ~columns'[i].dropped => columns'[i].name \in DOMAIN colId'
    BY <1>1, <1>3, <1>4, <1>5
  <2> QED BY <2>1, <2>2
<1> QED BY <1>3, <1>4, <1>6, <1>7 DEF MapsNames

LEMMA MapsDropped ==
    ASSUME NEW cs, NEW cm, MapsNames(cs, cm), NEW n \in DOMAIN cm
    PROVE  MapsNames([cs EXCEPT ![cm[n]].dropped = TRUE], Without(cm, {n}))
<1> DEFINE ds == [cs EXCEPT ![cm[n]].dropped = TRUE]
           dm == Without(cm, {n})
<1>0. /\ cm[n] \in DOMAIN cs /\ ~cs[cm[n]].dropped /\ cs[cm[n]].name = n
      /\ DOMAIN cs = 1 .. Len(cs) /\ Len(cs) \in Nat
      /\ \A i \in DOMAIN cs : cs[i] \in ColumnDef
  BY LiveSlot DEF MapsNames
<1>1. /\ DOMAIN ds = DOMAIN cs
      /\ \A i \in DOMAIN cs : i # cm[n] => ds[i] = cs[i]
      /\ ds[cm[n]] = [cs[cm[n]] EXCEPT !.dropped = TRUE]
  BY <1>0
<1>2. ds[cm[n]] \in ColumnDef /\ ds[cm[n]].dropped
  BY ZenonT(30), <1>0, <1>1 DEF ColumnDef
<1>3. ds \in Seq(ColumnDef)
  <2>1. \A i \in DOMAIN cs : ds[i] \in ColumnDef
    BY <1>0, <1>1, <1>2
  <2>2. ds \in [1 .. Len(cs) -> ColumnDef]
    BY <2>1, <1>0, <1>1
  <2> QED BY <2>2, <1>0, FunctionIsSeq
<1>4. /\ DOMAIN dm = DOMAIN cm \ {n}
      /\ \A m \in DOMAIN cm \ {n} : dm[m] = cm[m]
      /\ dm = [m \in DOMAIN dm |-> dm[m]]
  BY DEF Without
<1>5. \A i \in DOMAIN cs : ~cs[i].dropped /\ i # cm[n] => cs[i].name \in DOMAIN cm \ {n}
  BY <1>0 DEF MapsNames
<1> HIDE DEF ds, dm
<1>6. \A i \in DOMAIN ds : ~ds[i].dropped => dm[ds[i].name] = i
  BY <1>1, <1>2, <1>4, <1>5 DEF MapsNames
<1>7. DOMAIN dm = {ds[i].name : i \in {j \in DOMAIN ds : ~ds[j].dropped}}
  <2>1. \A m \in DOMAIN dm : \E i \in DOMAIN ds : ~ds[i].dropped /\ m = ds[i].name
    <3> SUFFICES ASSUME NEW m \in DOMAIN cm \ {n} PROVE \E i \in DOMAIN ds : ~ds[i].dropped /\ m = ds[i].name
      BY <1>4
    <3>1. cm[m] \in DOMAIN cs /\ ~cs[cm[m]].dropped /\ cs[cm[m]].name = m
      BY LiveSlot
    <3>2. cm[m] # cm[n]
      BY <3>1, <1>0
    <3> QED BY <3>1, <3>2, <1>1
  <2>2. \A i \in DOMAIN ds : ~ds[i].dropped => ds[i].name \in DOMAIN dm
    BY <1>1, <1>2, <1>4, <1>5
  <2> QED BY <2>1, <2>2
<1> QED BY <1>3, <1>4, <1>6, <1>7 DEF MapsNames, ds, dm

-----------------------------------------------------------------------------
(* Index keys. *)

\* The value tuple of a row under an index over cols, every type taken from the
\* column's own slot, and the keys of one row and of a set of rows.
TupleIn(cs, cm, cols, r) ==
    IF \A k \in DOMAIN cols : TypeOf(Stored(r, cm[cols[k]])) = cs[cm[cols[k]]].type
    THEN [k \in DOMAIN cols |-> Stored(r, cm[cols[k]])]
    ELSE <<>>
KeysIn(cs, cm, cols, id, r) ==
    IF TupleIn(cs, cm, cols, r) = <<>> THEN {} ELSE {[prefix |-> TupleIn(cs, cm, cols, r), id |-> id]}
AllKeys(cs, cm, cols, rs) == UNION {KeysIn(cs, cm, cols, id, rs[id]) : id \in DOMAIN rs}

\* Without a name of two types, the first slot of a live name has the type of
\* the live one.
LEMMA ColTypeIs ==
    ASSUME MapsNames(columns, colId), ~Retyped(columns), NEW n \in Live
    PROVE  ColType(n) = columns[colId[n]].type
<1> DEFINE slots == {i \in DOMAIN columns : columns[i].name = n}
<1>1. colId[n] \in slots
  BY LiveSlot DEF Live
<1>2. slots \subseteq Nat
  BY DEF MapsNames
<1>3. \E i \in slots : \A j \in slots : i <= j
  <2> DEFINE R == OpToRel(<, Nat)
  <2>1. \E i \in slots : \A j \in slots : ~(<<j, i>> \in R)
    <3> HIDE DEF slots
    <3> QED BY <1>1, <1>2, NatLessThanWellFounded, WFMin
  <2>2. \A i, j \in Nat : i < j => <<i, j>> \in R
    BY DEF OpToRel
  <2>3. PICK i \in slots : \A j \in slots : ~(<<j, i>> \in R)
    BY <2>1
  <2> HIDE DEF R, slots
  <2>4. \A j \in slots : ~(j < i)
    BY <1>2, <2>2, <2>3
  <2> QED BY <1>2, <2>4
<1> DEFINE first == CHOOSE i \in slots : \A j \in slots : i <= j
<1>4. first \in slots
  BY <1>3
<1>5. columns[first].type = columns[colId[n]].type
  BY <1>1, <1>4 DEF Retyped
<1> QED BY <1>5 DEF ColType

LEMMA KeysAre ==
    ASSUME MapsNames(columns, colId), ~Retyped(columns), NEW ix, Resolved(ix), NEW id, NEW r
    PROVE  Keys(ix, id, r) = KeysIn(columns, colId, ix.columns, id, r)
<1>1. \A k \in DOMAIN ix.columns : ColType(ix.columns[k]) = columns[colId[ix.columns[k]]].type
  BY ColTypeIs DEF Resolved
<1>2. Prefix(ix, r) = TupleIn(columns, colId, ix.columns, r)
  BY <1>1 DEF Prefix, TupleIn
<1> QED BY <1>2 DEF Keys, KeysIn

LEMMA KeyId == \A ix, id, r : \A k \in Keys(ix, id, r) : k.id = id
BY DEF Keys

LEMMA KeyInId == \A cs, cm, cols, id, r : \A k \in KeysIn(cs, cm, cols, id, r) : k.id = id
BY DEF KeysIn

\* Taking out the keys of the rows that go and putting in those of the rows that
\* come gives the keys of the rows that are there.
LEMMA AllKeysStored ==
    ASSUME NEW cs, NEW cm, NEW cols, NEW rs, NEW old, NEW new,
           DOMAIN old \subseteq DOMAIN rs, \A id \in DOMAIN old : old[id] = rs[id],
           DOMAIN new \cap (DOMAIN rs \ DOMAIN old) = {}
    PROVE  (AllKeys(cs, cm, cols, rs) \ AllKeys(cs, cm, cols, old)) \cup AllKeys(cs, cm, cols, new)
             = AllKeys(cs, cm, cols, With(Without(rs, DOMAIN old), new))
<1> DEFINE K(id, r) == KeysIn(cs, cm, cols, id, r)
           res == With(Without(rs, DOMAIN old), new)
<1>1. \A id, r : \A k \in K(id, r) : k.id = id
  BY KeyInId
<1>2. /\ DOMAIN res = (DOMAIN rs \ DOMAIN old) \cup DOMAIN new
      /\ \A id \in DOMAIN new : res[id] = new[id]
      /\ \A id \in DOMAIN rs \ DOMAIN old : res[id] = rs[id]
  BY DEF With, Without
<1>3. \A f : AllKeys(cs, cm, cols, f) = UNION {K(id, f[id]) : id \in DOMAIN f}
  BY DEF AllKeys
<1> HIDE DEF K, res
<1>4. \A f, k : k \in UNION {K(id, f[id]) : id \in DOMAIN f} <=> k.id \in DOMAIN f /\ k \in K(k.id, f[k.id])
  BY <1>1
<1>5. \A f, k : k \in AllKeys(cs, cm, cols, f) <=> k.id \in DOMAIN f /\ k \in K(k.id, f[k.id])
  BY <1>3, <1>4
<1> SUFFICES ASSUME NEW k
             PROVE  k \in (AllKeys(cs, cm, cols, rs) \ AllKeys(cs, cm, cols, old)) \cup AllKeys(cs, cm, cols, new)
                      <=> k \in AllKeys(cs, cm, cols, res)
  BY DEF res
<1> QED BY <1>2, <1>5

-----------------------------------------------------------------------------
(* The inductive invariant. *)

IsIndex(ix) == ix = [name |-> ix.name, columns |-> ix.columns, unique |-> ix.unique, keys |-> ix.keys]

SchemaInv == /\ MapsNames(columns, colId)
             /\ retyped \in BOOLEAN /\ (~retyped => ~Retyped(columns))

\* The indexes but for their exactness.
IndexesTyped ==
    /\ indexes \in Seq({indexes[m] : m \in DOMAIN indexes})
    /\ \A m \in DOMAIN indexes :
          /\ IsIndex(indexes[m])
          /\ indexes[m].name \in Work.names /\ indexes[m].unique \in BOOLEAN
          /\ indexes[m].columns \in Seq(Names) /\ indexes[m].columns # <<>>
          /\ \A k \in DOMAIN indexes[m].columns : indexes[m].columns[k] \in Live
          /\ \A k \in indexes[m].keys : k.id \in RowIds

IndexesHold(rs) ==
    ~retyped => \A m \in DOMAIN indexes : indexes[m].keys = AllKeys(columns, colId, indexes[m].columns, rs)

\* A set of rows, the next id and their number.
RowsInv(rs, nx, n) ==
    /\ DOMAIN rs \subseteq RowIds
    /\ \A id \in DOMAIN rs : DOMAIN rs[id] \subseteq DOMAIN columns /\ id < nx
    /\ nx \in 1 .. MaxRow + 1
    /\ n = Cardinality(DOMAIN rs)

UniqueKeys ==
    ~bypassed /\ ~retyped => \A m \in DOMAIN indexes : indexes[m].unique =>
        \A j, k \in indexes[m].keys : j.prefix = k.prefix => j = k

TableInv ==
    /\ load \in DOMAIN Workloads
    /\ SchemaInv
    /\ IndexesTyped
    /\ IndexesHold(rows)
    /\ RowsInv(rows, next, count)
    /\ bypassed \in BOOLEAN
    /\ UniqueKeys

LEMMA BoundIsNat == ASSUME load \in DOMAIN Workloads PROVE MaxRow \in Nat
BY BoundsAssumption DEF MaxRow, Work

LEMMA RowsFinite ==
    ASSUME load \in DOMAIN Workloads, NEW S, S \subseteq RowIds
    PROVE  IsFiniteSet(S) /\ Cardinality(S) \in 0 .. MaxRow
<1>1. MaxRow \in Nat
  BY BoundIsNat
<1>2. IsFiniteSet(RowIds) /\ Cardinality(RowIds) = MaxRow
  BY <1>1, FS_Interval DEF RowIds
<1>3. IsFiniteSet(S) /\ Cardinality(S) <= MaxRow
  BY <1>2, FS_Subset
<1>4. Cardinality(S) \in Nat
  BY <1>3, FS_CardinalityType
<1> QED BY <1>1, <1>3, <1>4

\* Resolved, in the form the invariant has it.
LEMMA IndexResolved ==
    ASSUME IndexesTyped, NEW m \in DOMAIN indexes
    PROVE  Resolved(indexes[m])
BY DEF IndexesTyped, Resolved

LEMMA EncodeDomain ==
    ASSUME SchemaInv, NEW d
    PROVE  DOMAIN Encode(d) \subseteq DOMAIN columns
BY LiveSlot DEF Encode, SchemaInv, Live

LEMMA KeysOfIds == \A ix, rs : \A k \in KeysOf(ix, rs) : k.id \in DOMAIN rs
BY KeyId DEF KeysOf

\* What the keys of an exact index become when rows old give way to rows new.
LEMMA KeysStored ==
    ASSUME SchemaInv, IndexesTyped, ~retyped, NEW m \in DOMAIN indexes, NEW rs, NEW old, NEW new,
           DOMAIN old \subseteq DOMAIN rs, \A id \in DOMAIN old : old[id] = rs[id],
           DOMAIN new \cap (DOMAIN rs \ DOMAIN old) = {}
    PROVE  (AllKeys(columns, colId, indexes[m].columns, rs) \ KeysOf(indexes[m], old)) \cup KeysOf(indexes[m], new)
             = AllKeys(columns, colId, indexes[m].columns, With(Without(rs, DOMAIN old), new))
<1>1. \A id, r : Keys(indexes[m], id, r) = KeysIn(columns, colId, indexes[m].columns, id, r)
  BY IndexResolved, KeysAre DEF SchemaInv
<1>2. /\ KeysOf(indexes[m], old) = AllKeys(columns, colId, indexes[m].columns, old)
      /\ KeysOf(indexes[m], new) = AllKeys(columns, colId, indexes[m].columns, new)
  BY <1>1 DEF AllKeys, KeysOf
<1> QED BY <1>2, AllKeysStored

\* Store keeps the schema and the indexes, and gives the rows their place.
LEMMA StoreKeeps ==
    ASSUME TableInv, NEW old, NEW new, Store(old, new), UNCHANGED <<retyped, load>>,
           DOMAIN old \subseteq DOMAIN rows, \A id \in DOMAIN old : old[id] = rows[id],
           DOMAIN new \cap (DOMAIN rows \ DOMAIN old) = {}, DOMAIN new \subseteq RowIds,
           \A id \in DOMAIN new : DOMAIN new[id] \subseteq DOMAIN columns
    PROVE  /\ (load \in DOMAIN Workloads)' /\ SchemaInv' /\ IndexesTyped' /\ IndexesHold(rows)'
           /\ DOMAIN rows' = (DOMAIN rows \ DOMAIN old) \cup DOMAIN new
           /\ DOMAIN rows' \subseteq RowIds
           /\ \A id \in DOMAIN rows' : DOMAIN rows'[id] \subseteq DOMAIN columns'
           /\ \A m \in DOMAIN indexes :
                 /\ m \in DOMAIN indexes' /\ indexes'[m].unique = indexes[m].unique
                 /\ indexes'[m].keys = (indexes[m].keys \ KeysOf(indexes[m], old)) \cup KeysOf(indexes[m], new)
           /\ DOMAIN indexes' = DOMAIN indexes
<1> DEFINE U(m) == (indexes[m].keys \ KeysOf(indexes[m], old)) \cup KeysOf(indexes[m], new)
<1>1. /\ DOMAIN rows' = (DOMAIN rows \ DOMAIN old) \cup DOMAIN new
      /\ \A id \in DOMAIN new : rows'[id] = new[id]
      /\ \A id \in DOMAIN rows \ DOMAIN old : rows'[id] = rows[id]
      /\ rows' = With(Without(rows, DOMAIN old), new)
      /\ UNCHANGED <<columns, colId, retyped, load>>
  BY DEF Store, With, Without
<1>2. /\ DOMAIN indexes' = DOMAIN indexes
      /\ \A m \in DOMAIN indexes : indexes'[m] = [indexes[m] EXCEPT !.keys = U(m)]
      /\ indexes' = [m \in DOMAIN indexes |-> indexes'[m]]
  BY DEF Store, Reindexed
<1> HIDE DEF U
<1>3. \A m \in DOMAIN indexes :
         /\ indexes'[m].name = indexes[m].name /\ indexes'[m].columns = indexes[m].columns
         /\ indexes'[m].unique = indexes[m].unique /\ indexes'[m].keys = U(m)
         /\ IsIndex(indexes'[m])
  BY <1>2 DEF TableInv, IndexesTyped, IsIndex
<1>4. \A m \in DOMAIN indexes :
         /\ \A k \in U(m) : k.id \in RowIds
         /\ ~retyped => U(m) = AllKeys(columns, colId, indexes[m].columns, With(Without(rows, DOMAIN old), new))
  <2> TAKE m \in DOMAIN indexes
  <2>1. SchemaInv /\ IndexesTyped /\ \A k \in indexes[m].keys : k.id \in RowIds
    BY DEF TableInv, IndexesTyped
  <2>2. ~retyped => indexes[m].keys = AllKeys(columns, colId, indexes[m].columns, rows)
    BY DEF TableInv, IndexesHold
  <2>3. U(m) = (indexes[m].keys \ KeysOf(indexes[m], old)) \cup KeysOf(indexes[m], new)
    BY DEF U
  <2>4. \A k \in U(m) : k.id \in RowIds
    BY <2>1, <2>3, KeysOfIds
  <2>5. ASSUME ~retyped
        PROVE  U(m) = AllKeys(columns, colId, indexes[m].columns, With(Without(rows, DOMAIN old), new))
    BY <2>1, <2>2, <2>3, <2>5, KeysStored
  <2> QED BY <2>4, <2>5
<1>5. IndexesTyped'
  <2>1. /\ Len(indexes) \in Nat /\ DOMAIN indexes = 1 .. Len(indexes)
    BY DEF TableInv, IndexesTyped
  <2>2. indexes' \in [1 .. Len(indexes) -> {indexes'[m] : m \in DOMAIN indexes'}]
    BY <2>1, <1>2
  <2>3. indexes' \in Seq({indexes'[m] : m \in DOMAIN indexes'})
    BY <2>1, <2>2, FunctionIsSeq
  <2>4. ASSUME NEW m \in DOMAIN indexes'
        PROVE  /\ IsIndex(indexes'[m])
               /\ indexes'[m].name \in Work'.names /\ indexes'[m].unique \in BOOLEAN
               /\ indexes'[m].columns \in Seq(Names) /\ indexes'[m].columns # <<>>
               /\ \A k \in DOMAIN indexes'[m].columns : indexes'[m].columns[k] \in Live'
               /\ \A k \in indexes'[m].keys : k.id \in RowIds'
    BY <1>1, <1>2, <1>3, <1>4 DEF TableInv, IndexesTyped, Work, Live, RowIds, MaxRow
  <2> QED BY <2>3, <2>4 DEF IndexesTyped
<1>6. IndexesHold(rows)'
  BY <1>1, <1>2, <1>3, <1>4 DEF IndexesHold
<1>7. SchemaInv' /\ (load \in DOMAIN Workloads)'
  BY <1>1 DEF TableInv, SchemaInv
<1>8. DOMAIN rows' \subseteq RowIds /\ \A id \in DOMAIN rows' : DOMAIN rows'[id] \subseteq DOMAIN columns'
  BY <1>1 DEF TableInv, RowsInv
<1> QED BY <1>1, <1>2, <1>3, <1>5, <1>6, <1>7, <1>8 DEF U

-----------------------------------------------------------------------------
(* The operations on rows. *)

\* What Whole says beside the operation.
Frame == /\ retyped' = (retyped \/ (columns' # columns /\ Retyped(columns')))
         /\ UNCHANGED <<staged, halfDone, load>>

LEMMA SameSchema ==
    ASSUME TableInv, Frame, UNCHANGED columns
    PROVE  UNCHANGED <<retyped, load>>
BY DEF TableInv, SchemaInv, Frame

LEMMA NoRows ==
    /\ DOMAIN <<>> = {}
    /\ \A ix : KeysOf(ix, <<>>) = {}
<1>1. DOMAIN <<>> = {}
  OBVIOUS
<1> QED BY <1>1 DEF KeysOf

LEMMA OneRow ==
    ASSUME NEW ix, NEW id, NEW r
    PROVE  KeysOf(ix, [i \in {id} |-> r]) = Keys(ix, id, r)
BY DEF KeysOf

\* An accepted row of an id that is not in use.
LEMMA InsertKeeps ==
    ASSUME TableInv, NEW id \in RowIds, id \notin DOMAIN rows, NEW d, UniqueAccepted(Encode(d)),
           Store(<<>>, [i \in {id} |-> Encode(d)]), UNCHANGED <<retyped, load, bypassed>>,
           count' = count + 1, next' \in 1 .. MaxRow + 1, next <= next', id < next'
    PROVE  TableInv'
<1> DEFINE new == [i \in {id} |-> Encode(d)]
<1>1. /\ DOMAIN new = {id} /\ new[id] = Encode(d)
      /\ DOMAIN <<>> = {}
  BY NoRows
<1>2. \A i \in DOMAIN new : DOMAIN new[i] \subseteq DOMAIN columns
  BY <1>1, EncodeDomain DEF TableInv
<1> HIDE DEF new
<1>3. /\ (load \in DOMAIN Workloads)' /\ SchemaInv' /\ IndexesTyped' /\ IndexesHold(rows)'
      /\ DOMAIN rows' = (DOMAIN rows \ DOMAIN <<>>) \cup DOMAIN new
      /\ DOMAIN rows' \subseteq RowIds
      /\ \A i \in DOMAIN rows' : DOMAIN rows'[i] \subseteq DOMAIN columns'
      /\ \A m \in DOMAIN indexes :
            /\ m \in DOMAIN indexes' /\ indexes'[m].unique = indexes[m].unique
            /\ indexes'[m].keys = (indexes[m].keys \ KeysOf(indexes[m], <<>>)) \cup KeysOf(indexes[m], new)
      /\ DOMAIN indexes' = DOMAIN indexes
  <2>1. Store(<<>>, new)
    BY DEF new
  <2>2. DOMAIN <<>> \subseteq DOMAIN rows /\ \A i \in DOMAIN <<>> : <<>>[i] = rows[i]
    BY <1>1
  <2>3. DOMAIN new \cap (DOMAIN rows \ DOMAIN <<>>) = {} /\ DOMAIN new \subseteq RowIds
    BY <1>1
  <2> QED BY <2>1, <2>2, <2>3, <1>2, StoreKeeps
<1>4. DOMAIN rows' = DOMAIN rows \cup {id}
  BY <1>1, <1>3
<1>5. RowsInv(rows, next, count)'
  <2>1. IsFiniteSet(DOMAIN rows) /\ count = Cardinality(DOMAIN rows)
    BY RowsFinite DEF TableInv, RowsInv
  <2>2. count' = Cardinality(DOMAIN rows')
    BY <2>1, <1>4, FS_AddElement
  <2>3. \A i \in DOMAIN rows' : i < next'
    <3>1. MaxRow \in Nat /\ next \in Int /\ RowIds \subseteq Int
      BY BoundIsNat DEF TableInv, RowsInv, RowIds
    <3>2. \A i \in DOMAIN rows : i < next /\ i \in Int
      BY <3>1 DEF TableInv, RowsInv
    <3> QED BY <3>1, <3>2, <1>4
  <2> QED BY <1>3, <2>2, <2>3 DEF RowsInv, RowIds, MaxRow, Work
<1>6. UniqueKeys'
  <2> SUFFICES ASSUME ~bypassed, ~retyped, NEW m \in DOMAIN indexes, indexes[m].unique,
                      NEW j \in indexes'[m].keys, NEW k \in indexes'[m].keys, j.prefix = k.prefix
               PROVE  j = k
    BY <1>3 DEF UniqueKeys
  <2>1. indexes'[m].keys = indexes[m].keys \cup Keys(indexes[m], id, Encode(d))
    BY ZenonT(30), <1>3, NoRows, OneRow DEF new
  <2>2. \A a, b \in indexes[m].keys : a.prefix = b.prefix => a = b
    BY DEF TableInv, UniqueKeys
  <2>3. \A a \in Keys(indexes[m], id, Encode(d)) :
           /\ a = [prefix |-> Prefix(indexes[m], Encode(d)), id |-> id]
           /\ \A b \in indexes[m].keys : b.prefix # a.prefix
    BY DEF Keys, UniqueAccepted
  <2> QED BY <2>1, <2>2, <2>3
<1> QED BY <1>3, <1>5, <1>6 DEF TableInv

\* An operation that does not look at uniqueness tells by the history variable.
LEMMA NotEnforcedKeeps ==
    ASSUME NotEnforced, DOMAIN indexes' = DOMAIN indexes,
           \A m \in DOMAIN indexes : indexes'[m].unique = indexes[m].unique
    PROVE  UniqueKeys' /\ bypassed' \in BOOLEAN
BY DEF NotEnforced, UniqueKeys, HasUnique

LEMMA CardinalityMinus ==
    ASSUME NEW D, IsFiniteSet(D), NEW W, W \subseteq D
    PROVE  Cardinality(D \ W) = Cardinality(D) - Cardinality(W)
<1>1. IsFiniteSet(W) /\ IsFiniteSet(D \ W)
  BY FS_Subset
<1>2. (D \ W) \cup W = D /\ (D \ W) \cap W = {}
  OBVIOUS
<1>3. Cardinality((D \ W) \cup W) = Cardinality(D \ W) + Cardinality(W) - Cardinality((D \ W) \cap W)
  BY <1>1, FS_Union
<1>4. Cardinality({}) = 0
  BY FS_EmptySet
<1>5. Cardinality(D \ W) \in Nat /\ Cardinality(W) \in Nat
  BY <1>1, FS_CardinalityType
<1>6. Cardinality((D \ W) \cup W) = Cardinality(D) /\ Cardinality((D \ W) \cap W) = 0
  BY <1>2, <1>4, Zenon
<1> QED BY <1>3, <1>5, <1>6

\* Rows taken out.
LEMMA DeleteKeeps ==
    ASSUME TableInv, NEW S, S \subseteq DOMAIN rows, Store(Only(rows, S), <<>>),
           UNCHANGED <<retyped, load, bypassed, next>>, count' = count - Cardinality(S)
    PROVE  TableInv'
<1> DEFINE old == Only(rows, S)
<1>1. /\ DOMAIN old = S /\ \A i \in S : old[i] = rows[i]
      /\ DOMAIN <<>> = {}
  BY NoRows DEF Only
<1> HIDE DEF old
<1>2. /\ (load \in DOMAIN Workloads)' /\ SchemaInv' /\ IndexesTyped' /\ IndexesHold(rows)'
      /\ DOMAIN rows' = (DOMAIN rows \ DOMAIN old) \cup DOMAIN <<>>
      /\ DOMAIN rows' \subseteq RowIds
      /\ \A i \in DOMAIN rows' : DOMAIN rows'[i] \subseteq DOMAIN columns'
      /\ \A m \in DOMAIN indexes :
            /\ m \in DOMAIN indexes' /\ indexes'[m].unique = indexes[m].unique
            /\ indexes'[m].keys = (indexes[m].keys \ KeysOf(indexes[m], old)) \cup KeysOf(indexes[m], <<>>)
      /\ DOMAIN indexes' = DOMAIN indexes
  <2>1. Store(old, <<>>)
    BY DEF old
  <2>2. DOMAIN old \subseteq DOMAIN rows /\ \A i \in DOMAIN old : old[i] = rows[i]
    BY <1>1
  <2>3. /\ DOMAIN <<>> \cap (DOMAIN rows \ DOMAIN old) = {} /\ DOMAIN <<>> \subseteq RowIds
        /\ \A i \in DOMAIN <<>> : DOMAIN <<>>[i] \subseteq DOMAIN columns
    BY <1>1
  <2> QED BY <2>1, <2>2, <2>3, StoreKeeps
<1>3. DOMAIN rows' = DOMAIN rows \ S
  BY <1>1, <1>2
<1>4. RowsInv(rows, next, count)'
  <2>1. IsFiniteSet(DOMAIN rows) /\ count = Cardinality(DOMAIN rows)
    BY RowsFinite DEF TableInv, RowsInv
  <2>2. count' = Cardinality(DOMAIN rows')
    BY <2>1, <1>3, CardinalityMinus
  <2> QED BY <1>2, <1>3, <2>2 DEF TableInv, RowsInv, RowIds, MaxRow, Work
<1>5. UniqueKeys'
  BY <1>2, NoRows DEF TableInv, UniqueKeys
<1> QED BY <1>2, <1>4, <1>5 DEF TableInv

\* Rows put in place of themselves.
LEMMA UpdateKeeps ==
    ASSUME TableInv, NEW S, S \subseteq DOMAIN rows, NEW new, DOMAIN new = S,
           \A i \in S : DOMAIN new[i] \subseteq DOMAIN columns,
           Store(Only(rows, S), new), UNCHANGED <<retyped, load, next, count>>, NotEnforced
    PROVE  TableInv'
<1> DEFINE old == Only(rows, S)
<1>1. DOMAIN old = S /\ \A i \in S : old[i] = rows[i]
  BY DEF Only
<1> HIDE DEF old
<1>2. /\ (load \in DOMAIN Workloads)' /\ SchemaInv' /\ IndexesTyped' /\ IndexesHold(rows)'
      /\ DOMAIN rows' = (DOMAIN rows \ DOMAIN old) \cup DOMAIN new
      /\ DOMAIN rows' \subseteq RowIds
      /\ \A i \in DOMAIN rows' : DOMAIN rows'[i] \subseteq DOMAIN columns'
      /\ \A m \in DOMAIN indexes : indexes'[m].unique = indexes[m].unique
      /\ DOMAIN indexes' = DOMAIN indexes
  <2>1. Store(old, new)
    BY DEF old
  <2>2. DOMAIN old \subseteq DOMAIN rows /\ \A i \in DOMAIN old : old[i] = rows[i]
    BY <1>1
  <2>3. /\ DOMAIN new \cap (DOMAIN rows \ DOMAIN old) = {} /\ DOMAIN new \subseteq RowIds
        /\ \A i \in DOMAIN new : DOMAIN new[i] \subseteq DOMAIN columns
    BY <1>1 DEF TableInv, RowsInv
  <2> QED BY <2>1, <2>2, <2>3, StoreKeeps
<1>3. DOMAIN rows' = DOMAIN rows
  BY <1>1, <1>2
<1>4. RowsInv(rows, next, count)'
  BY <1>2, <1>3 DEF TableInv, RowsInv, RowIds, MaxRow, Work
<1>5. UniqueKeys' /\ bypassed' \in BOOLEAN
  BY <1>2, NotEnforcedKeeps
<1> QED BY <1>2, <1>4, <1>5 DEF TableInv

-----------------------------------------------------------------------------
(* Schema changes. *)

LEMMA FrameSchema ==
    ASSUME TableInv, Frame, MapsNames(columns, colId)'
    PROVE  SchemaInv' /\ (~retyped' => ~retyped) /\ (load \in DOMAIN Workloads)'
BY DEF TableInv, SchemaInv, Frame

\* The keys of an index depend on the slots of its columns and their types only.
LEMMA SameSlots ==
    ASSUME NEW cs, NEW cm, NEW cols, NEW ds, NEW dm, NEW dols, NEW rs,
           DOMAIN dols = DOMAIN cols,
           \A k \in DOMAIN cols : dm[dols[k]] = cm[cols[k]] /\ ds[cm[cols[k]]].type = cs[cm[cols[k]]].type
    PROVE  AllKeys(ds, dm, dols, rs) = AllKeys(cs, cm, cols, rs)
<1>1. \A r : TupleIn(ds, dm, dols, r) = TupleIn(cs, cm, cols, r)
  BY DEF TupleIn
<1>2. ASSUME NEW id, NEW r PROVE KeysIn(ds, dm, dols, id, r) = KeysIn(cs, cm, cols, id, r)
  <2>1. TupleIn(ds, dm, dols, r) = TupleIn(cs, cm, cols, r)
    BY <1>1
  <2> QED BY <2>1, Zenon DEF KeysIn
<1> QED BY <1>2 DEF AllKeys

LEMMA CreateIndexKeeps ==
    ASSUME TableInv, Frame, NEW n \in Work.names, NEW def \in Work.defs, CreateIndex(n, def)
    PROVE  TableInv'
<1> DEFINE ix == [name |-> n, columns |-> def.columns, unique |-> def.unique, keys |-> {}]
           new == [ix EXCEPT !.keys = KeysOf(ix, rows)]
<1>1. /\ def.columns # <<>> /\ \A k \in DOMAIN def.columns : def.columns[k] \in Live
      /\ def.unique => \A j, k \in KeysOf(ix, rows) : j.prefix = k.prefix => j = k
      /\ indexes' = Append(indexes, new)
      /\ UNCHANGED <<columns, colId, rows, next, count, bypassed, retyped, load>>
  BY SameSchema DEF CreateIndex
<1>2. /\ new.name = n /\ new.columns = def.columns /\ new.unique = def.unique
      /\ new.keys = KeysOf(ix, rows) /\ IsIndex(new) /\ ix.columns = def.columns
  BY DEF IsIndex
<1> HIDE DEF ix, new
<1>3. /\ Len(indexes) \in Nat /\ DOMAIN indexes = 1 .. Len(indexes)
      /\ DOMAIN indexes' = 1 .. Len(indexes) + 1
      /\ \A m \in DOMAIN indexes : indexes'[m] = indexes[m]
      /\ indexes'[Len(indexes) + 1] = new
      /\ indexes' \in Seq({indexes'[m] : m \in DOMAIN indexes'})
  <2> DEFINE S == {indexes[m] : m \in DOMAIN indexes} \cup {new}
  <2>1. indexes \in Seq({indexes[m] : m \in DOMAIN indexes})
    BY DEF TableInv, IndexesTyped
  <2>2. Len(indexes) \in Nat /\ DOMAIN indexes = 1 .. Len(indexes) /\ indexes \in [1 .. Len(indexes) -> S]
    BY <2>1
  <2>3. indexes \in Seq(S) /\ new \in S
    BY <2>2, FunctionIsSeq
  <2> HIDE DEF S
  <2>4. /\ Append(indexes, new) \in Seq(S)
        /\ DOMAIN Append(indexes, new) = 1 .. Len(indexes) + 1
        /\ \A m \in DOMAIN indexes : Append(indexes, new)[m] = indexes[m]
        /\ Append(indexes, new)[Len(indexes) + 1] = new
    BY <2>3
  <2> QED BY <1>1, <2>2, <2>4, OwnRange
<1>4. \A m \in DOMAIN indexes' : m \in DOMAIN indexes \/ m = Len(indexes) + 1
  BY <1>3
<1>5. def.columns \in Seq(Names) /\ def.unique \in BOOLEAN
  BY CallsAssumption DEF TableInv, Work
<1>6. IndexesTyped'
  <2>2. indexes' \in Seq({indexes'[m] : m \in DOMAIN indexes'})
    BY <1>3
  <2>3. \A k \in new.keys : k.id \in RowIds
    BY <1>2, KeysOfIds DEF TableInv, RowsInv
  <2>4. ASSUME NEW m \in DOMAIN indexes'
        PROVE  /\ IsIndex(indexes'[m])
               /\ indexes'[m].name \in Work'.names /\ indexes'[m].unique \in BOOLEAN
               /\ indexes'[m].columns \in Seq(Names) /\ indexes'[m].columns # <<>>
               /\ \A k \in DOMAIN indexes'[m].columns : indexes'[m].columns[k] \in Live'
               /\ \A k \in indexes'[m].keys : k.id \in RowIds'
    <3>1. CASE m \in DOMAIN indexes
      BY <3>1, <1>1, <1>3 DEF TableInv, IndexesTyped, Work, Live, RowIds, MaxRow
    <3>2. CASE m = Len(indexes) + 1
      BY <3>2, <1>1, <1>2, <1>3, <1>5, <2>3 DEF Work, Live, RowIds, MaxRow
    <3> QED BY <3>1, <3>2, <1>4
  <2> QED BY <2>2, <2>4 DEF IndexesTyped
<1>7. IndexesHold(rows)'
  <2> SUFFICES ASSUME ~retyped, NEW m \in DOMAIN indexes'
               PROVE  indexes'[m].keys = AllKeys(columns, colId, indexes'[m].columns, rows)
    BY <1>1 DEF IndexesHold
  <2>1. CASE m \in DOMAIN indexes
    BY <2>1, <1>3 DEF TableInv, IndexesHold
  <2>2. CASE m = Len(indexes) + 1
    <3>1. Resolved(ix)
      BY <1>1, <1>2 DEF Resolved
    <3>2. \A id, r : Keys(ix, id, r) = KeysIn(columns, colId, def.columns, id, r)
      BY <3>1, <1>2, KeysAre DEF TableInv, SchemaInv
    <3>3. KeysOf(ix, rows) = AllKeys(columns, colId, def.columns, rows)
      BY <3>2 DEF KeysOf, AllKeys
    <3> QED BY <2>2, <1>2, <1>3, <3>3
  <2> QED BY <2>1, <2>2, <1>4
<1>8. UniqueKeys'
  <2> SUFFICES ASSUME ~bypassed, ~retyped, NEW m \in DOMAIN indexes', indexes'[m].unique
               PROVE  \A j, k \in indexes'[m].keys : j.prefix = k.prefix => j = k
    BY <1>1 DEF UniqueKeys
  <2>1. CASE m \in DOMAIN indexes
    BY <2>1, <1>3 DEF TableInv, UniqueKeys
  <2>2. CASE m = Len(indexes) + 1
    BY <2>2, <1>1, <1>2, <1>3
  <2> QED BY <2>1, <2>2, <1>4
<1>9. SchemaInv' /\ RowsInv(rows, next, count)' /\ (load \in DOMAIN Workloads)' /\ bypassed' \in BOOLEAN
  BY <1>1 DEF TableInv, SchemaInv, RowsInv, RowIds, MaxRow, Work
<1> QED BY <1>6, <1>7, <1>8, <1>9 DEF TableInv

\* The sequence without its m-th element has elements of the sequence only.
LEMMA Removed ==
    ASSUME NEW S, NEW s \in Seq(S), NEW m \in DOMAIN s
    PROVE  SubSeq(s, 1, m - 1) \o SubSeq(s, m + 1, Len(s)) \in Seq(S)
<1>1. Len(s) \in Nat /\ m \in 1 .. Len(s) /\ \A i \in 1 .. Len(s) : s[i] \in S
  OBVIOUS
<1>2. SubSeq(s, 1, m - 1) \in Seq(S)
  <2>1. 1 \in Int /\ m - 1 \in Int /\ \A i \in 1 .. m - 1 : s[i] \in S
    BY <1>1
  <2> QED BY <2>1, SubSeqProperties
<1>3. SubSeq(s, m + 1, Len(s)) \in Seq(S)
  <2>1. m + 1 \in Int /\ Len(s) \in Int /\ \A i \in m + 1 .. Len(s) : s[i] \in S
    BY <1>1
  <2> QED BY <2>1, SubSeqProperties
<1> QED BY <1>2, <1>3, ConcatProperties

LEMMA DropIndexKeeps ==
    ASSUME TableInv, Frame, NEW n, DropIndex(n)
    PROVE  TableInv'
<1>1. UNCHANGED <<columns, colId, rows, next, count, retyped, load>>
  BY SameSchema DEF DropIndex
<1>2. PICK m \in DOMAIN indexes : indexes' = SubSeq(indexes, 1, m - 1) \o SubSeq(indexes, m + 1, Len(indexes))
  BY DEF DropIndex
<1>3. /\ indexes' \in Seq({indexes'[k] : k \in DOMAIN indexes'})
      /\ \A k \in DOMAIN indexes' : \E j \in DOMAIN indexes : indexes'[k] = indexes[j]
  <2> DEFINE S == {indexes[k] : k \in DOMAIN indexes}
  <2>1. indexes \in Seq(S)
    BY DEF TableInv, IndexesTyped
  <2>2. indexes' \in Seq(S)
    <3> HIDE DEF S
    <3> QED BY <2>1, <1>2, Removed
  <2>3. \A k \in DOMAIN indexes' : indexes'[k] \in S
    <3> HIDE DEF S
    <3> QED BY <2>2
  <2>4. \A k \in DOMAIN indexes' : \E j \in DOMAIN indexes : indexes'[k] = indexes[j]
    BY <2>3
  <2> QED BY <2>2, <2>4, OwnRange
<1>4. IndexesTyped'
  <2> SUFFICES ASSUME NEW k \in DOMAIN indexes'
               PROVE  /\ IsIndex(indexes'[k])
                      /\ indexes'[k].name \in Work'.names /\ indexes'[k].unique \in BOOLEAN
                      /\ indexes'[k].columns \in Seq(Names) /\ indexes'[k].columns # <<>>
                      /\ \A c \in DOMAIN indexes'[k].columns : indexes'[k].columns[c] \in Live'
                      /\ \A c \in indexes'[k].keys : c.id \in RowIds'
    BY <1>3 DEF IndexesTyped
  <2> QED BY <1>1, <1>3 DEF TableInv, IndexesTyped, Work, Live, RowIds, MaxRow
<1>5. IndexesHold(rows)'
  BY <1>1, <1>3 DEF TableInv, IndexesHold
<1>6. UniqueKeys' /\ bypassed' \in BOOLEAN
  <2>1. bypassed' = (bypassed /\ HasUnique(indexes'))
    BY DEF DropIndex
  <2> QED BY <1>1, <1>3, <2>1 DEF TableInv, UniqueKeys, HasUnique
<1>7. SchemaInv' /\ RowsInv(rows, next, count)' /\ (load \in DOMAIN Workloads)'
  BY <1>1 DEF TableInv, SchemaInv, RowsInv, RowIds, MaxRow, Work
<1> QED BY <1>4, <1>5, <1>6, <1>7 DEF TableInv

LEMMA AddColumnKeeps ==
    ASSUME TableInv, Frame, NEW n \in Names, NEW ty \in Work.types, NEW d \in Defaults, NEW b,
           AddColumn(n, ty, d, b)
    PROVE  TableInv'
<1> DEFINE c == [name |-> n, type |-> ty, default |-> d, dropped |-> FALSE]
<1>1. /\ n \notin Live /\ columns' = Append(columns, c)
      /\ colId' = With(colId, [m \in {n} |-> Len(columns) + 1])
      /\ UNCHANGED <<indexes, rows, next, count, bypassed, load>>
  BY DEF AddColumn, Frame
<1>2. c \in ColumnDef /\ c.name = n /\ ~c.dropped
  BY CallsAssumption DEF TableInv, Work, ColumnDef
<1> HIDE DEF c
<1>3. MapsNames(columns', colId')
  BY <1>1, <1>2, MapsAdded DEF TableInv, SchemaInv, Live
<1>4. SchemaInv' /\ (~retyped' => ~retyped) /\ (load \in DOMAIN Workloads)'
  BY <1>3, FrameSchema
<1>5. DOMAIN columns \subseteq DOMAIN columns' /\ \A i \in DOMAIN columns : columns'[i] = columns[i]
  BY <1>1, <1>2 DEF TableInv, SchemaInv, MapsNames
<1>6. Live \subseteq Live' /\ \A m \in Live : colId'[m] = colId[m] /\ colId[m] \in DOMAIN columns
  BY <1>1, LiveSlot DEF Live, With, TableInv, SchemaInv
<1>7. IndexesTyped'
  BY <1>1, <1>6 DEF TableInv, IndexesTyped, Work, RowIds, MaxRow
<1>8. IndexesHold(rows)'
  <2> SUFFICES ASSUME ~retyped, NEW m \in DOMAIN indexes
               PROVE  indexes[m].keys = AllKeys(columns', colId', indexes[m].columns, rows)
    BY <1>1, <1>4 DEF IndexesHold
  <2>1. \A k \in DOMAIN indexes[m].columns :
           /\ colId'[indexes[m].columns[k]] = colId[indexes[m].columns[k]]
           /\ columns'[colId[indexes[m].columns[k]]].type = columns[colId[indexes[m].columns[k]]].type
    BY <1>5, <1>6 DEF TableInv, IndexesTyped
  <2>2. AllKeys(columns', colId', indexes[m].columns, rows) = AllKeys(columns, colId, indexes[m].columns, rows)
    BY <2>1, SameSlots
  <2> QED BY <2>2 DEF TableInv, IndexesHold
<1>9. RowsInv(rows, next, count)' /\ bypassed' \in BOOLEAN /\ UniqueKeys'
  BY <1>1, <1>4, <1>5 DEF TableInv, RowsInv, RowIds, MaxRow, Work, UniqueKeys
<1> QED BY <1>4, <1>7, <1>8, <1>9 DEF TableInv

LEMMA RenameColumnKeeps ==
    ASSUME TableInv, Frame, NEW old \in Names, NEW new \in Names, RenameColumn(old, new)
    PROVE  TableInv'
<1> DEFINE cols(m) == RenameIn(indexes[m].columns, old, new)
<1>1. /\ old \in Live /\ new \notin Live
      /\ columns' = [columns EXCEPT ![colId[old]].name = new]
      /\ colId' = With(Without(colId, {old}), [m \in {new} |-> colId[old]])
      /\ indexes' = [m \in DOMAIN indexes |-> [indexes[m] EXCEPT !.columns = cols(m)]]
      /\ UNCHANGED <<rows, next, count, bypassed, load>>
  BY DEF RenameColumn, Frame
<1>2. MapsNames(columns, colId)
  BY DEF TableInv, SchemaInv
<1>3. MapsNames(columns', colId')
  BY <1>2, MapsRenamed
<1>4. SchemaInv' /\ (~retyped' => ~retyped) /\ (load \in DOMAIN Workloads)'
  BY <1>3, FrameSchema
<1>5. \A m \in Live : colId[m] \in DOMAIN columns
  BY <1>2, LiveSlot DEF Live
<1>6. DOMAIN columns' = DOMAIN columns /\ \A i \in DOMAIN columns : columns'[i].type = columns[i].type
  <2>1. \A i \in DOMAIN columns : columns[i] \in ColumnDef
    BY <1>2 DEF MapsNames
  <2>2. columns' = [columns EXCEPT ![colId[old]] = [columns[colId[old]] EXCEPT !.name = new]]
    BY <1>1
  <2> QED BY <2>1, <2>2 DEF ColumnDef
<1>7. /\ Live' = (Live \ {old}) \cup {new}
      /\ colId'[new] = colId[old] /\ \A m \in Live \ {old} : colId'[m] = colId[m]
  BY <1>1 DEF Live, With, Without
<1>8. \A m \in DOMAIN indexes :
         /\ DOMAIN cols(m) = DOMAIN indexes[m].columns
         /\ \A k \in DOMAIN cols(m) : cols(m)[k] \in Live' /\ colId'[cols(m)[k]] = colId[indexes[m].columns[k]]
  BY <1>1, <1>7 DEF RenameIn, TableInv, IndexesTyped
<1>9. \A m \in DOMAIN indexes : cols(m) \in Seq(Names)
  <2> TAKE m \in DOMAIN indexes
  <2>1. indexes[m].columns \in Seq(Names)
    BY DEF TableInv, IndexesTyped
  <2>2. Len(indexes[m].columns) \in Nat /\ cols(m) \in [1 .. Len(indexes[m].columns) -> Names]
    BY <2>1 DEF RenameIn
  <2> QED BY <2>2, FunctionIsSeq
<1> HIDE DEF cols
<1>10. /\ DOMAIN indexes' = DOMAIN indexes
       /\ \A m \in DOMAIN indexes :
             /\ indexes'[m].columns = cols(m) /\ indexes'[m].keys = indexes[m].keys
             /\ indexes'[m].name = indexes[m].name /\ indexes'[m].unique = indexes[m].unique
             /\ IsIndex(indexes'[m])
  <2>1. \A m \in DOMAIN indexes : IsIndex(indexes[m]) /\ indexes'[m] = [indexes[m] EXCEPT !.columns = cols(m)]
    BY <1>1 DEF TableInv, IndexesTyped
  <2> QED BY <1>1, <2>1 DEF IsIndex
<1>11. IndexesTyped'
  <2>1. Len(indexes) \in Nat /\ DOMAIN indexes = 1 .. Len(indexes)
    BY DEF TableInv, IndexesTyped
  <2>2. indexes' \in [1 .. Len(indexes) -> {indexes'[m] : m \in DOMAIN indexes'}]
    BY <2>1, <1>1, <1>10
  <2>3. indexes' \in Seq({indexes'[m] : m \in DOMAIN indexes'})
    BY <2>1, <2>2, FunctionIsSeq
  <2> QED BY SMTT(30), <1>1, <1>8, <1>9, <1>10, <2>3 DEF TableInv, IndexesTyped, Work, RowIds, MaxRow
<1>12. IndexesHold(rows)'
  <2> SUFFICES ASSUME ~retyped, NEW m \in DOMAIN indexes
               PROVE  indexes[m].keys = AllKeys(columns', colId', cols(m), rows)
    BY ZenonT(30), <1>1, <1>4, <1>10 DEF IndexesHold
  <2>1. \A k \in DOMAIN indexes[m].columns :
           /\ colId'[cols(m)[k]] = colId[indexes[m].columns[k]]
           /\ columns'[colId[indexes[m].columns[k]]].type = columns[colId[indexes[m].columns[k]]].type
    BY <1>5, <1>6, <1>8 DEF TableInv, IndexesTyped
  <2>2. AllKeys(columns', colId', cols(m), rows) = AllKeys(columns, colId, indexes[m].columns, rows)
    BY <2>1, <1>8, SameSlots
  <2> QED BY <2>2 DEF TableInv, IndexesHold
<1>13. RowsInv(rows, next, count)' /\ bypassed' \in BOOLEAN
  BY <1>1, <1>6 DEF TableInv, RowsInv, RowIds, MaxRow, Work
<1>14. UniqueKeys'
  BY ZenonT(30), <1>1, <1>4, <1>10 DEF TableInv, UniqueKeys
<1> QED BY <1>4, <1>11, <1>12, <1>13, <1>14 DEF TableInv

LEMMA DropColumnKeeps ==
    ASSUME TableInv, Frame, NEW n \in Names, DropColumn(n)
    PROVE  TableInv'
<1>1. /\ n \in Live
      /\ \A m \in DOMAIN indexes : \A k \in DOMAIN indexes[m].columns : indexes[m].columns[k] # n
      /\ columns' = [columns EXCEPT ![colId[n]].dropped = TRUE]
      /\ colId' = Without(colId, {n})
      /\ UNCHANGED <<indexes, rows, next, count, bypassed, load>>
  BY DEF DropColumn, Tombstoned, Frame
<1>2. MapsNames(columns, colId)
  BY DEF TableInv, SchemaInv
<1>3. MapsNames(columns', colId')
  BY <1>1, <1>2, MapsDropped DEF Live
<1>4. SchemaInv' /\ (~retyped' => ~retyped) /\ (load \in DOMAIN Workloads)'
  BY <1>3, FrameSchema
<1>5. \A m \in Live : colId[m] \in DOMAIN columns
  BY <1>2, LiveSlot DEF Live
<1>6. DOMAIN columns' = DOMAIN columns /\ \A i \in DOMAIN columns : columns'[i].type = columns[i].type
  <2>1. \A i \in DOMAIN columns : columns[i] \in ColumnDef
    BY <1>2 DEF MapsNames
  <2>2. columns' = [columns EXCEPT ![colId[n]] = [columns[colId[n]] EXCEPT !.dropped = TRUE]]
    BY <1>1
  <2> QED BY <2>1, <2>2 DEF ColumnDef
<1>7. Live' = Live \ {n} /\ \A m \in Live \ {n} : colId'[m] = colId[m]
  BY <1>1 DEF Live, Without
<1>8. IndexesTyped'
  BY <1>1, <1>7 DEF TableInv, IndexesTyped, Work, RowIds, MaxRow
<1>9. IndexesHold(rows)'
  <2> SUFFICES ASSUME ~retyped, NEW m \in DOMAIN indexes
               PROVE  indexes[m].keys = AllKeys(columns', colId', indexes[m].columns, rows)
    BY <1>1, <1>4 DEF IndexesHold
  <2>1. \A k \in DOMAIN indexes[m].columns :
           /\ colId'[indexes[m].columns[k]] = colId[indexes[m].columns[k]]
           /\ columns'[colId[indexes[m].columns[k]]].type = columns[colId[indexes[m].columns[k]]].type
    BY <1>1, <1>5, <1>6, <1>7 DEF TableInv, IndexesTyped
  <2>2. AllKeys(columns', colId', indexes[m].columns, rows) = AllKeys(columns, colId, indexes[m].columns, rows)
    BY <2>1, SameSlots
  <2> QED BY <2>2 DEF TableInv, IndexesHold
<1>10. RowsInv(rows, next, count)' /\ bypassed' \in BOOLEAN /\ UniqueKeys'
  BY <1>1, <1>4, <1>6 DEF TableInv, RowsInv, RowIds, MaxRow, Work, UniqueKeys
<1> QED BY <1>4, <1>8, <1>9, <1>10 DEF TableInv

\* A step that leaves the table as it is.
LEMMA SameTable ==
    ASSUME TableInv, UNCHANGED table
    PROVE  TableInv'
<1>1. UNCHANGED <<columns, colId, indexes, rows, next, count, bypassed, retyped, load>>
  BY DEF table
<1>2. SchemaInv' /\ IndexesTyped' /\ IndexesHold(rows)'
  BY <1>1 DEF TableInv, SchemaInv, IndexesTyped, IndexesHold, Live, Work, RowIds, MaxRow
<1>3. RowsInv(rows, next, count)' /\ UniqueKeys'
  BY <1>1 DEF TableInv, RowsInv, RowIds, MaxRow, Work, UniqueKeys
<1> QED BY <1>1, <1>2, <1>3 DEF TableInv

\* Every operation outside a transaction that runs to its end keeps the invariant.
LEMMA WholeKeeps ==
    ASSUME TableInv, Whole
    PROVE  TableInv'
<1>1. Frame /\ Step
  BY DEF Whole, Frame
<1>2. MaxRow \in Nat /\ next \in 1 .. MaxRow + 1
  BY BoundIsNat DEF TableInv, RowsInv
<1>3. ASSUME NEW d, Insert(d) PROVE TableInv'
  <2>1. UNCHANGED <<retyped, load>>
    BY <1>1, <1>3, SameSchema DEF Insert, Store
  <2>2. next \in RowIds /\ next + 1 \in 1 .. MaxRow + 1 /\ next <= next + 1 /\ next < next + 1
    BY <1>2, <1>3 DEF Insert, RowIds
  <2> QED BY <2>1, <2>2, <1>3, InsertKeeps DEF Insert, Enforced
<1>4. ASSUME NEW d, InsertTooLarge(d) PROVE TableInv'
  <2>1. UNCHANGED <<columns, colId, indexes, rows, count, bypassed, retyped, load>> /\ next' = next + 1
    BY <1>1, <1>4, SameSchema DEF InsertTooLarge
  <2>2. SchemaInv' /\ IndexesTyped' /\ IndexesHold(rows)' /\ UniqueKeys'
    BY <2>1 DEF TableInv, SchemaInv, IndexesTyped, IndexesHold, Live, Work, RowIds, MaxRow, UniqueKeys
  <2>3. RowsInv(rows, next, count)'
    <3>1. next <= MaxRow /\ RowIds \subseteq Int
      BY <1>4, <1>2 DEF InsertTooLarge, RowIds
    <3>2. \A id \in DOMAIN rows : id \in Int /\ id < next
      BY <3>1 DEF TableInv, RowsInv
    <3>3. next + 1 \in 1 .. MaxRow + 1 /\ \A id \in DOMAIN rows : id < next + 1
      BY <3>1, <3>2, <1>2
    <3> QED BY <2>1, <3>3 DEF TableInv, RowsInv, RowIds, MaxRow, Work
  <2> QED BY <2>1, <2>2, <2>3 DEF TableInv
<1>5. ASSUME NEW id \in RowIds, NEW d, InsertWithId(id, d) PROVE TableInv'
  <2>1. UNCHANGED <<retyped, load>>
    BY <1>1, <1>5, SameSchema DEF InsertWithId, Store
  <2>2. next' \in 1 .. MaxRow + 1 /\ next <= next' /\ id < next'
    BY <1>2, <1>5 DEF InsertWithId, RowIds
  <2> QED BY <2>1, <2>2, <1>5, InsertKeeps DEF InsertWithId, Enforced
<1>6. ASSUME NEW d, NEW e, InsertMany(d, e) PROVE TableInv'
  <2> DEFINE new == [id \in {next, next + 1} |-> IF id = next THEN Encode(d) ELSE Encode(e)]
  <2>1. UNCHANGED <<retyped, load>>
    BY <1>1, <1>6, SameSchema DEF InsertMany, Store
  <2>2. /\ DOMAIN new = {next, next + 1} /\ DOMAIN new \subseteq RowIds /\ DOMAIN new \cap DOMAIN rows = {}
        /\ \A i \in DOMAIN new : DOMAIN new[i] \subseteq DOMAIN columns
        /\ Store(<<>>, new) /\ next' = next + 2 /\ count' = count + 2 /\ NotEnforced
        /\ next + 1 <= MaxRow
    BY <1>2, <1>6, EncodeDomain DEF InsertMany, RowIds, TableInv
  <2> HIDE DEF new
  <2>3. /\ (load \in DOMAIN Workloads)' /\ SchemaInv' /\ IndexesTyped' /\ IndexesHold(rows)'
        /\ DOMAIN rows' = (DOMAIN rows \ DOMAIN <<>>) \cup DOMAIN new
        /\ DOMAIN rows' \subseteq RowIds
        /\ \A i \in DOMAIN rows' : DOMAIN rows'[i] \subseteq DOMAIN columns'
        /\ \A m \in DOMAIN indexes : indexes'[m].unique = indexes[m].unique
        /\ DOMAIN indexes' = DOMAIN indexes
    <3>1. DOMAIN <<>> \subseteq DOMAIN rows /\ \A i \in DOMAIN <<>> : <<>>[i] = rows[i]
      BY NoRows
    <3>2. DOMAIN new \cap (DOMAIN rows \ DOMAIN <<>>) = {} /\ DOMAIN new \subseteq RowIds
      BY <2>2
    <3> QED BY <2>1, <2>2, <3>1, <3>2, StoreKeeps
  <2>4. RowsInv(rows, next, count)'
    <3>1. DOMAIN rows' = (DOMAIN rows \cup {next}) \cup {next + 1}
      BY <2>2, <2>3, NoRows
    <3>2. IsFiniteSet(DOMAIN rows) /\ count = Cardinality(DOMAIN rows) /\ next \notin DOMAIN rows
      BY <2>2, RowsFinite DEF TableInv, RowsInv
    <3>3. IsFiniteSet(DOMAIN rows \cup {next}) /\ Cardinality(DOMAIN rows \cup {next}) = count + 1
      BY <3>2, FS_AddElement
    <3>4. next + 1 \notin DOMAIN rows \cup {next}
      BY <1>2, <2>2
    <3>5. Cardinality(DOMAIN rows') = (count + 1) + 1
      BY <3>1, <3>3, <3>4, FS_AddElement
    <3>6. count \in Int
      BY <3>2, FS_CardinalityType
    <3>7. \A i \in DOMAIN rows : i \in Int /\ i < next
      BY <1>2 DEF RowIds, TableInv, RowsInv
    <3>8. \A i \in DOMAIN rows' : i < next'
      BY <3>1, <3>7, <1>2, <2>2
    <3>9. next' \in 1 .. MaxRow + 1
      BY <1>2, <2>2
    <3> QED BY <2>1, <2>2, <2>3, <3>5, <3>6, <3>8, <3>9 DEF RowsInv, RowIds, MaxRow, Work
  <2>5. UniqueKeys' /\ bypassed' \in BOOLEAN
    BY <2>2, <2>3, NotEnforcedKeeps
  <2> QED BY <2>3, <2>4, <2>5 DEF TableInv
<1>7. ASSUME NEW id \in RowIds, NEW d, Update(id, d) PROVE TableInv'
  <2> DEFINE new == [i \in {id} |-> Merged(rows[id], d)]
  <2>1. UNCHANGED <<retyped, load>>
    BY <1>1, <1>7, SameSchema DEF Update, Store
  <2>2. DOMAIN new = {id} /\ {id} \subseteq DOMAIN rows
    BY <1>7 DEF Update
  <2>3. DOMAIN Merged(rows[id], d) \subseteq DOMAIN columns
    BY <2>2, EncodeDomain DEF Merged, TableInv, RowsInv
  <2>4. \A i \in {id} : DOMAIN new[i] \subseteq DOMAIN columns
    BY <2>3
  <2>5. Store(Only(rows, {id}), new) /\ UNCHANGED <<next, count>> /\ NotEnforced
    BY <1>7 DEF Update
  <2> HIDE DEF new
  <2> QED BY <2>1, <2>2, <2>4, <2>5, UpdateKeeps
<1>8. ASSUME NEW fs, NEW d, UpdateWhere(fs, d) PROVE TableInv'
  <2> DEFINE new == [i \in Where(fs) |-> Patched(rows[i], d)]
  <2>1. UNCHANGED <<retyped, load>>
    BY <1>1, <1>8, SameSchema DEF UpdateWhere, Store
  <2>2. DOMAIN new = Where(fs) /\ Where(fs) \subseteq DOMAIN rows
    BY DEF Where
  <2>3. \A i \in Where(fs) : DOMAIN new[i] \subseteq DOMAIN columns
    BY <2>2 DEF Patched, TableInv, RowsInv
  <2>4. Store(Only(rows, Where(fs)), new) /\ UNCHANGED <<next, count>> /\ NotEnforced
    BY <1>8 DEF UpdateWhere
  <2> HIDE DEF new
  <2> QED BY <2>1, <2>2, <2>3, <2>4, UpdateKeeps
<1>9. ASSUME NEW id \in RowIds, Delete(id) PROVE TableInv'
  <2>1. UNCHANGED <<retyped, load>>
    BY <1>1, <1>9, SameSchema DEF Delete, Store
  <2>2. Cardinality({id}) = 1
    BY FS_Singleton
  <2> QED BY <2>1, <2>2, <1>9, DeleteKeeps DEF Delete, Enforced
<1>10. ASSUME NEW fs, DeleteWhere(fs) PROVE TableInv'
  <2>1. UNCHANGED <<retyped, load>>
    BY <1>1, <1>10, SameSchema DEF DeleteWhere, Store
  <2>2. Where(fs) \subseteq DOMAIN rows
    BY DEF Where
  <2> QED BY <2>1, <2>2, <1>10, DeleteKeeps DEF DeleteWhere, Enforced
<1>11. ASSUME Reopen PROVE TableInv'
  <2>1. colId' = colId
    BY <1>11, NameMapIs DEF Reopen, TableInv, SchemaInv
  <2> QED BY <2>1, <1>1, <1>11, SameSchema, SameTable DEF Reopen, Frame, table
<1> QED BY <1>1, <1>3, <1>4, <1>5, <1>6, <1>7, <1>8, <1>9, <1>10, <1>11,
           CreateIndexKeeps, DropIndexKeeps, AddColumnKeeps, RenameColumnKeeps, DropColumnKeeps DEF Step

-----------------------------------------------------------------------------
(* An insert_many that fails in the middle of its rows. *)

RowsTyped(rs) == /\ DOMAIN rs \subseteq RowIds
                 /\ \A id \in DOMAIN rs : DOMAIN rs[id] \subseteq DOMAIN columns

\* What holds of the table even then.
TableTyped ==
    /\ load \in DOMAIN Workloads
    /\ SchemaInv
    /\ IndexesTyped
    /\ RowsTyped(rows)
    /\ next \in 1 .. MaxRow + 1 /\ count \in 0 .. MaxRow
    /\ bypassed \in BOOLEAN

\* The rows left in the overlay.
LeftTyped == RowsTyped(staged) /\ halfDone \in BOOLEAN /\ (staged # <<>> => halfDone)

LEMMA WholeIsTyped ==
    ASSUME TableInv
    PROVE  TableTyped
<1>1. count \in 0 .. MaxRow
  BY RowsFinite DEF TableInv, RowsInv
<1> QED BY <1>1 DEF TableInv, RowsInv, TableTyped, RowsTyped

LEMMA ReindexedTyped ==
    ASSUME IndexesTyped, NEW new, DOMAIN new \subseteq RowIds, indexes' = Reindexed(<<>>, new),
           UNCHANGED <<columns, colId, load>>
    PROVE  IndexesTyped'
<1> DEFINE U(m) == (indexes[m].keys \ KeysOf(indexes[m], <<>>)) \cup KeysOf(indexes[m], new)
<1>1. /\ DOMAIN indexes' = DOMAIN indexes
      /\ \A m \in DOMAIN indexes : indexes'[m] = [indexes[m] EXCEPT !.keys = U(m)]
      /\ indexes' = [m \in DOMAIN indexes |-> indexes'[m]]
  BY DEF Reindexed
<1>2. \A m \in DOMAIN indexes : \A k \in U(m) : k.id \in RowIds
  BY KeysOfIds DEF IndexesTyped
<1> HIDE DEF U
<1>3. \A m \in DOMAIN indexes :
         /\ indexes'[m].name = indexes[m].name /\ indexes'[m].columns = indexes[m].columns
         /\ indexes'[m].unique = indexes[m].unique /\ indexes'[m].keys = U(m)
         /\ IsIndex(indexes'[m])
  BY <1>1 DEF IndexesTyped, IsIndex
<1>4. Len(indexes) \in Nat /\ DOMAIN indexes = 1 .. Len(indexes)
  BY DEF IndexesTyped
<1>5. indexes' \in [1 .. Len(indexes) -> {indexes'[m] : m \in DOMAIN indexes'}]
  BY <1>1, <1>4
<1>6. indexes' \in Seq({indexes'[m] : m \in DOMAIN indexes'})
  BY <1>4, <1>5, FunctionIsSeq
<1>7. ASSUME NEW m \in DOMAIN indexes'
      PROVE  /\ IsIndex(indexes'[m])
             /\ indexes'[m].name \in Work'.names /\ indexes'[m].unique \in BOOLEAN
             /\ indexes'[m].columns \in Seq(Names) /\ indexes'[m].columns # <<>>
             /\ \A k \in DOMAIN indexes'[m].columns : indexes'[m].columns[k] \in Live'
             /\ \A k \in indexes'[m].keys : k.id \in RowIds'
  BY <1>1, <1>2, <1>3 DEF IndexesTyped, Work, Live, RowIds, MaxRow
<1> QED BY <1>6, <1>7 DEF IndexesTyped

\* The failing call and the commit that publishes its rows.
LEMMA HalfKeeps ==
    ASSUME TableTyped, LeftTyped, Half
    PROVE  TableTyped' /\ LeftTyped' /\ halfDone'
<1>1. UNCHANGED <<columns, colId, next, count, retyped, load>>
  BY DEF Half, InsertManyTooLarge, PublishLeft
<1>2. SchemaInv' /\ RowIds' = RowIds /\ MaxRow' = MaxRow
  BY <1>1 DEF TableTyped, SchemaInv, RowIds, MaxRow, Work
<1>3. ASSUME NEW d, NEW e, InsertManyTooLarge(d, e)
      PROVE  TableTyped' /\ LeftTyped' /\ halfDone'
  <2>1. UNCHANGED <<indexes, rows>> /\ bypassed' \in BOOLEAN /\ halfDone'
    BY <1>3 DEF InsertManyTooLarge, NotEnforced, HasUnique
  <2>2. IndexesTyped'
    BY <1>1, <2>1 DEF TableTyped, IndexesTyped, Live, Work, RowIds, MaxRow
  <2>3. RowsTyped(rows)'
    BY <1>1, <1>2, <2>1 DEF TableTyped, RowsTyped
  <2>4. RowsTyped(staged)'
    <3>1. MaxRow \in Nat /\ next \in RowIds
      BY <1>3, BoundIsNat DEF TableTyped, InsertManyTooLarge, RowIds
    <3>2. DOMAIN staged' = {next} /\ staged'[next] = Encode(d)
      BY <1>3 DEF InsertManyTooLarge
    <3>3. DOMAIN Encode(d) \subseteq DOMAIN columns
      BY EncodeDomain DEF TableTyped
    <3> QED BY <1>1, <1>2, <3>1, <3>2, <3>3 DEF RowsTyped
  <2> QED BY <1>1, <1>2, <1>3, <2>1, <2>2, <2>3, <2>4 DEF TableTyped, LeftTyped, InsertManyTooLarge
<1>4. ASSUME PublishLeft PROVE TableTyped' /\ LeftTyped' /\ halfDone'
  <2>1. staged # <<>> /\ indexes' = Reindexed(<<>>, staged) /\ staged' = <<>> /\ UNCHANGED <<bypassed, halfDone>>
    BY <1>4 DEF PublishLeft
  <2>2. IndexesTyped'
    BY <1>1, <2>1, ReindexedTyped DEF TableTyped, LeftTyped, RowsTyped
  <2>3. RowsTyped(rows)'
    <3>1. PICK separator \in 2 .. MaxRow + 1 :
             rows' = [id \in {i \in DOMAIN rows \cup DOMAIN staged : i < separator} |->
                        IF id \in DOMAIN staged THEN staged[id] ELSE rows[id]]
      BY <1>4 DEF PublishLeft
    <3> QED BY <1>1, <1>2, <3>1 DEF TableTyped, LeftTyped, RowsTyped
  <2>4. RowsTyped(staged)'
    BY <2>1, NoRows DEF RowsTyped
  <2> QED BY <1>1, <1>2, <2>1, <2>2, <2>3, <2>4 DEF TableTyped, LeftTyped
<1> QED BY <1>3, <1>4 DEF Half

-----------------------------------------------------------------------------
(* The transaction. *)

IsTx(t) == t = [rows |-> t.rows, keys |-> t.keys, next |-> t.next, added |-> t.added,
                seen |-> t.seen, loose |-> t.loose, steps |-> t.steps]

\* What enforce_unique_indexes_acid rests on: a tuple the private pages hold is in
\* the committed tree or among those the transaction has recorded.
TxUnique(t) ==
    ~bypassed /\ ~retyped /\ ~t.loose => \A m \in DOMAIN indexes : indexes[m].unique =>
        /\ \A j, k \in t.keys[m] : j.prefix = k.prefix => j = k
        /\ \A k \in t.keys[m] : \/ \E j \in indexes[m].keys : j.prefix = k.prefix
                                \/ <<indexes[m].name, k.prefix>> \in t.seen

TxHolds(t) == ~retyped => \A m \in DOMAIN indexes : t.keys[m] = AllKeys(columns, colId, indexes[m].columns, t.rows)

TxOK(t) ==
    /\ IsTx(t)
    /\ t.added \in Int /\ t.loose \in BOOLEAN
    /\ RowsInv(t.rows, t.next, count + t.added)
    /\ DOMAIN t.keys = DOMAIN indexes
    /\ \A m \in DOMAIN indexes : \A k \in t.keys[m] : k.id \in RowIds
    /\ TxHolds(t)
    /\ TxUnique(t)

TxInv == Open => tx = <<T>> /\ TxOK(T)

LEMMA CountIsInt == ASSUME TableInv PROVE count \in Nat
BY RowsFinite DEF TableInv, RowsInv

\* A transaction starts with the table's own rows and keys.
LEMMA BegunOK ==
    ASSUME TableInv
    PROVE  TxOK(Begun)
<1>1. /\ IsTx(Begun) /\ Begun.added = 0 /\ Begun.loose = FALSE /\ Begun.rows = rows /\ Begun.next = next
      /\ DOMAIN Begun.keys = DOMAIN indexes /\ \A m \in DOMAIN indexes : Begun.keys[m] = indexes[m].keys
  BY DEF Begun, IsTx
<1>2. count + 0 = count
  BY CountIsInt
<1>3. RowsInv(Begun.rows, Begun.next, count + Begun.added)
  BY <1>1, <1>2 DEF TableInv
<1>4. \A m \in DOMAIN indexes : \A k \in Begun.keys[m] : k.id \in RowIds
  BY <1>1 DEF TableInv, IndexesTyped
<1>5. TxHolds(Begun)
  BY <1>1 DEF TxHolds, TableInv, IndexesHold
<1>6. TxUnique(Begun)
  BY <1>1 DEF TxUnique, TableInv, UniqueKeys
<1>7. Begun.added \in Int /\ Begun.loose \in BOOLEAN
  BY DEF Begun
<1> QED BY <1>1, <1>3, <1>4, <1>5, <1>6, <1>7, Zenon DEF TxOK

LEMMA StagedOK ==
    ASSUME TableInv, NEW t, TxOK(t), NEW old, NEW new,
           DOMAIN old \subseteq DOMAIN t.rows, \A id \in DOMAIN old : old[id] = t.rows[id],
           DOMAIN new \cap (DOMAIN t.rows \ DOMAIN old) = {}, DOMAIN new \subseteq RowIds,
           \A id \in DOMAIN new : DOMAIN new[id] \subseteq DOMAIN columns
    PROVE  /\ IsTx(Staged(t, old, new))
           /\ DOMAIN Staged(t, old, new).rows = (DOMAIN t.rows \ DOMAIN old) \cup DOMAIN new
           /\ DOMAIN Staged(t, old, new).rows \subseteq RowIds
           /\ \A id \in DOMAIN Staged(t, old, new).rows : DOMAIN Staged(t, old, new).rows[id] \subseteq DOMAIN columns
           /\ Staged(t, old, new).added = t.added /\ Staged(t, old, new).loose = t.loose
           /\ Staged(t, old, new).next = t.next /\ Staged(t, old, new).seen = t.seen
           /\ DOMAIN Staged(t, old, new).keys = DOMAIN indexes
           /\ \A m \in DOMAIN indexes :
                 /\ Staged(t, old, new).keys[m] = (t.keys[m] \ KeysOf(indexes[m], old)) \cup KeysOf(indexes[m], new)
                 /\ \A k \in Staged(t, old, new).keys[m] : k.id \in RowIds
           /\ TxHolds(Staged(t, old, new))
<1> DEFINE s == Staged(t, old, new)
           U == [m \in DOMAIN indexes |-> (t.keys[m] \ KeysOf(indexes[m], old)) \cup KeysOf(indexes[m], new)]
           R == With(Without(t.rows, DOMAIN old), new)
<1>1. IsTx(t)
  BY DEF TxOK
<1>2. s = [t EXCEPT !.rows = R, !.keys = U]
  BY DEF Staged
<1>3. /\ DOMAIN R = (DOMAIN t.rows \ DOMAIN old) \cup DOMAIN new
      /\ \A id \in DOMAIN new : R[id] = new[id]
      /\ \A id \in DOMAIN t.rows \ DOMAIN old : R[id] = t.rows[id]
  BY DEF With, Without
<1>4. DOMAIN U = DOMAIN indexes
      /\ \A m \in DOMAIN indexes : U[m] = (t.keys[m] \ KeysOf(indexes[m], old)) \cup KeysOf(indexes[m], new)
  OBVIOUS
<1>5. \A m \in DOMAIN indexes : \A k \in U[m] : k.id \in RowIds
  <2> TAKE m \in DOMAIN indexes
  <2>1. \A k \in t.keys[m] : k.id \in RowIds
    BY DEF TxOK
  <2> HIDE DEF U
  <2> QED BY <2>1, <1>4, KeysOfIds
<1>6. ASSUME ~retyped, NEW m \in DOMAIN indexes
      PROVE  U[m] = AllKeys(columns, colId, indexes[m].columns, R)
  <2>1. t.keys[m] = AllKeys(columns, colId, indexes[m].columns, t.rows)
    BY <1>6 DEF TxOK, TxHolds
  <2>2. SchemaInv /\ IndexesTyped
    BY DEF TableInv
  <2>3. (AllKeys(columns, colId, indexes[m].columns, t.rows) \ KeysOf(indexes[m], old)) \cup KeysOf(indexes[m], new)
          = AllKeys(columns, colId, indexes[m].columns, R)
    BY <2>2, <1>6, KeysStored
  <2> HIDE DEF U, R
  <2> QED BY <2>1, <2>3, <1>4
<1> HIDE DEF R, U, s
<1>7. /\ IsTx(s) /\ s.rows = R /\ s.keys = U /\ s.next = t.next /\ s.added = t.added
      /\ s.seen = t.seen /\ s.loose = t.loose
  BY <1>1, <1>2 DEF IsTx
<1>8. DOMAIN R \subseteq RowIds /\ \A id \in DOMAIN R : DOMAIN R[id] \subseteq DOMAIN columns
  BY <1>3 DEF TxOK, RowsInv
<1>9. TxHolds(s)
  BY <1>6, <1>7 DEF TxHolds
<1> QED BY <1>3, <1>4, <1>5, <1>7, <1>8, <1>9 DEF s

LEMMA InsertedOK ==
    ASSUME TableInv, NEW t, TxOK(t), NEW id \in RowIds, id \notin DOMAIN t.rows, NEW d, UniqueInTx(t, Encode(d)),
           NEW nx \in 1 .. MaxRow + 1, t.next <= nx, id < nx
    PROVE  TxOK(Inserted(t, id, d, nx)) /\ Inserted(t, id, d, nx).next = nx
<1> DEFINE r == Encode(d)
           new == [i \in {id} |-> r]
           s == Staged(t, <<>>, new)
           u == Inserted(t, id, d, nx)
<1>1. /\ DOMAIN new = {id} /\ new[id] = r /\ DOMAIN <<>> = {}
      /\ \A i \in DOMAIN new : DOMAIN new[i] \subseteq DOMAIN columns
      /\ \A ix : KeysOf(ix, new) = Keys(ix, id, r) /\ KeysOf(ix, <<>>) = {}
  BY NoRows, OneRow, EncodeDomain DEF TableInv
<1>2. u = [s EXCEPT !.added = s.added + 1, !.next = nx, !.seen = s.seen \cup UniqueTuples(r)]
  BY DEF Inserted
<1> HIDE DEF new, r, u, s
<1>3. /\ DOMAIN <<>> \subseteq DOMAIN t.rows /\ \A i \in DOMAIN <<>> : <<>>[i] = t.rows[i]
      /\ DOMAIN new \cap (DOMAIN t.rows \ DOMAIN <<>>) = {} /\ DOMAIN new \subseteq RowIds
  BY <1>1
<1>4. /\ IsTx(s)
      /\ DOMAIN s.rows = (DOMAIN t.rows \ DOMAIN <<>>) \cup DOMAIN new
      /\ DOMAIN s.rows \subseteq RowIds
      /\ \A i \in DOMAIN s.rows : DOMAIN s.rows[i] \subseteq DOMAIN columns
      /\ s.added = t.added /\ s.loose = t.loose /\ s.next = t.next /\ s.seen = t.seen
      /\ DOMAIN s.keys = DOMAIN indexes
      /\ \A m \in DOMAIN indexes :
            /\ s.keys[m] = (t.keys[m] \ KeysOf(indexes[m], <<>>)) \cup KeysOf(indexes[m], new)
            /\ \A k \in s.keys[m] : k.id \in RowIds
      /\ TxHolds(s)
  BY <1>1, <1>3, StagedOK DEF s
<1>5. /\ IsTx(u) /\ u.rows = s.rows /\ u.keys = s.keys /\ u.next = nx /\ u.added = t.added + 1
      /\ u.loose = t.loose /\ u.seen = t.seen \cup UniqueTuples(r)
  BY <1>2, <1>4 DEF IsTx
<1>6. RowsInv(u.rows, u.next, count + u.added)
  <2>1. DOMAIN u.rows = DOMAIN t.rows \cup {id}
    BY <1>1, <1>4, <1>5
  <2>2. IsFiniteSet(DOMAIN t.rows) /\ Cardinality(DOMAIN t.rows) = count + t.added
    BY RowsFinite DEF TxOK, RowsInv, TableInv
  <2>3. Cardinality(DOMAIN u.rows) = (count + t.added) + 1
    BY <2>1, <2>2, FS_AddElement
  <2>4. count + u.added = Cardinality(DOMAIN u.rows)
    BY <2>3, <1>5, CountIsInt DEF TxOK
  <2>5. MaxRow \in Nat /\ t.next \in Int /\ RowIds \subseteq Int
    BY BoundIsNat DEF TableInv, TxOK, RowsInv, RowIds
  <2>6. \A i \in DOMAIN t.rows : i < t.next /\ i \in Int
    BY <2>5 DEF TxOK, RowsInv
  <2>7. \A i \in DOMAIN u.rows : i < nx
    BY <2>1, <2>5, <2>6
  <2> QED BY <1>4, <1>5, <2>4, <2>7 DEF RowsInv
<1>7. TxHolds(u)
  BY <1>4, <1>5 DEF TxHolds
<1>8. TxUnique(u)
  <2> SUFFICES ASSUME ~bypassed, ~retyped, ~t.loose, NEW m \in DOMAIN indexes, indexes[m].unique
               PROVE  /\ \A j, k \in u.keys[m] : j.prefix = k.prefix => j = k
                      /\ \A k \in u.keys[m] : \/ \E j \in indexes[m].keys : j.prefix = k.prefix
                                              \/ <<indexes[m].name, k.prefix>> \in u.seen
    BY <1>5 DEF TxUnique
  <2>1. u.keys[m] = t.keys[m] \cup Keys(indexes[m], id, r)
    BY <1>1, <1>4, <1>5
  <2>2. /\ \A j, k \in t.keys[m] : j.prefix = k.prefix => j = k
        /\ \A k \in t.keys[m] : \/ \E j \in indexes[m].keys : j.prefix = k.prefix
                                \/ <<indexes[m].name, k.prefix>> \in t.seen
    BY DEF TxOK, TxUnique
  <2>3. \A a \in Keys(indexes[m], id, r) :
           /\ a = [prefix |-> Prefix(indexes[m], r), id |-> id]
           /\ <<indexes[m].name, a.prefix>> \in UniqueTuples(r)
           /\ \A b \in indexes[m].keys : b.prefix # a.prefix
           /\ <<indexes[m].name, a.prefix>> \notin t.seen
    <3>1. Prefix(indexes[m], r) # <<>> => <<indexes[m].name, Prefix(indexes[m], r)>> \in UniqueTuples(r)
      BY DEF UniqueTuples
    <3>2. UniqueAccepted(r) /\ UniqueTuples(r) \cap t.seen = {}
      BY DEF UniqueInTx, r
    <3> QED BY <3>1, <3>2 DEF Keys, UniqueAccepted
  <2>4. \A j, k \in u.keys[m] : j.prefix = k.prefix => j = k
    <3>1. \A a \in Keys(indexes[m], id, r), k \in t.keys[m] : a.prefix # k.prefix
      BY <2>2, <2>3
    <3>2. \A a, b \in Keys(indexes[m], id, r) : a = b
      BY <2>3
    <3> QED BY <2>1, <2>2, <3>1, <3>2
  <2>5. \A k \in u.keys[m] : \/ \E j \in indexes[m].keys : j.prefix = k.prefix
                             \/ <<indexes[m].name, k.prefix>> \in u.seen
    <3>1. \A k \in t.keys[m] : \/ \E j \in indexes[m].keys : j.prefix = k.prefix
                               \/ <<indexes[m].name, k.prefix>> \in u.seen
      BY <2>2, <1>5
    <3>2. \A k \in Keys(indexes[m], id, r) : <<indexes[m].name, k.prefix>> \in u.seen
      BY <2>3, <1>5
    <3> QED BY <2>1, <3>1, <3>2
  <2> QED BY <2>4, <2>5
<1> QED BY <1>4, <1>5, <1>6, <1>7, <1>8 DEF TxOK, u

\* A row keeps its value tuple of an index whose columns the update leaves alone:
\* two live columns have two slots.
LEMMA PrefixKept ==
    ASSUME SchemaInv, NEW ix, Resolved(ix), NEW d, \A k \in DOMAIN ix.columns : ix.columns[k] \notin DOMAIN d, NEW r
    PROVE  Prefix(ix, Merged(r, d)) = Prefix(ix, r)
<1>1. \A n \in Live : columns[colId[n]].name = n
  BY LiveSlot DEF SchemaInv, Live
<1>2. \A k \in DOMAIN ix.columns : colId[ix.columns[k]] \notin DOMAIN Encode(d)
  BY <1>1 DEF Encode, Resolved
<1>3. \A i : i \notin DOMAIN Encode(d) => Stored(Merged(r, d), i) = Stored(r, i)
  BY DEF Stored, Merged
<1>4. \A k \in DOMAIN ix.columns : Stored(Merged(r, d), colId[ix.columns[k]]) = Stored(r, colId[ix.columns[k]])
  BY <1>2, <1>3
<1> QED BY <1>4 DEF Prefix

LEMMA UpdatedOK ==
    ASSUME TableInv, NEW t, TxOK(t), NEW S, S \subseteq DOMAIN t.rows, NEW d
    PROVE  TxOK(Updated(t, S, d))
<1> DEFINE old == Only(t.rows, S)
           new == [i \in S |-> Merged(t.rows[i], d)]
           s == Staged(t, old, new)
           u == Updated(t, S, d)
           w == S # {} /\ Touched(d)
<1>1. /\ DOMAIN old = S /\ \A i \in S : old[i] = t.rows[i]
      /\ DOMAIN new = S /\ \A i \in S : new[i] = Merged(t.rows[i], d)
  BY DEF Only
<1>2. \A i \in S : DOMAIN new[i] \subseteq DOMAIN columns
  <2>1. \A i \in S : DOMAIN t.rows[i] \subseteq DOMAIN columns
    BY DEF TxOK, RowsInv
  <2>2. DOMAIN Encode(d) \subseteq DOMAIN columns
    BY EncodeDomain DEF TableInv
  <2> QED BY <1>1, <2>1, <2>2 DEF Merged
<1>3. u = [s EXCEPT !.loose = s.loose \/ w]
  BY DEF Updated
<1> HIDE DEF old, new, s, u, w
<1>4. /\ DOMAIN old \subseteq DOMAIN t.rows /\ \A i \in DOMAIN old : old[i] = t.rows[i]
      /\ DOMAIN new \cap (DOMAIN t.rows \ DOMAIN old) = {} /\ DOMAIN new \subseteq RowIds
      /\ \A i \in DOMAIN new : DOMAIN new[i] \subseteq DOMAIN columns
  BY <1>1, <1>2 DEF TxOK, RowsInv
<1>5. /\ IsTx(s)
      /\ DOMAIN s.rows = (DOMAIN t.rows \ DOMAIN old) \cup DOMAIN new
      /\ DOMAIN s.rows \subseteq RowIds
      /\ \A i \in DOMAIN s.rows : DOMAIN s.rows[i] \subseteq DOMAIN columns
      /\ s.added = t.added /\ s.loose = t.loose /\ s.next = t.next /\ s.seen = t.seen
      /\ DOMAIN s.keys = DOMAIN indexes
      /\ \A m \in DOMAIN indexes :
            /\ s.keys[m] = (t.keys[m] \ KeysOf(indexes[m], old)) \cup KeysOf(indexes[m], new)
            /\ \A k \in s.keys[m] : k.id \in RowIds
      /\ TxHolds(s)
  BY <1>4, StagedOK DEF s
<1>6. /\ IsTx(u) /\ u.rows = s.rows /\ u.keys = s.keys /\ u.next = t.next /\ u.added = t.added
      /\ u.loose = (t.loose \/ w) /\ u.seen = t.seen
  BY <1>3, <1>5 DEF IsTx
<1>7. RowsInv(u.rows, u.next, count + u.added)
  <2>1. DOMAIN u.rows = DOMAIN t.rows
    BY <1>1, <1>5, <1>6
  <2> QED BY <1>5, <1>6, <2>1 DEF TxOK, RowsInv
<1>8. TxHolds(u)
  BY <1>5, <1>6 DEF TxHolds
<1>9. TxUnique(u)
  <2> SUFFICES ASSUME ~bypassed, ~retyped, ~t.loose, ~w, NEW m \in DOMAIN indexes, indexes[m].unique
               PROVE  u.keys[m] = t.keys[m]
    BY <1>6 DEF TxUnique, TxOK
  <2>1. KeysOf(indexes[m], new) = KeysOf(indexes[m], old)
    <3>1. CASE S = {}
      BY <3>1, <1>1 DEF KeysOf
    <3>2. CASE ~Touched(d)
      <4>1. \A k \in DOMAIN indexes[m].columns : indexes[m].columns[k] \notin DOMAIN d
        BY <3>2 DEF Touched, ToSet
      <4>2. \A i \in S : Prefix(indexes[m], new[i]) = Prefix(indexes[m], old[i])
        BY <4>1, <1>1, IndexResolved, PrefixKept DEF TableInv
      <4>3. \A i \in S : Keys(indexes[m], i, new[i]) = Keys(indexes[m], i, old[i])
        BY <4>2 DEF Keys
      <4> QED BY <4>3, <1>1 DEF KeysOf
    <3> QED BY <3>1, <3>2 DEF w
  <2>2. KeysOf(indexes[m], old) \subseteq t.keys[m]
    <3>1. t.keys[m] = AllKeys(columns, colId, indexes[m].columns, t.rows)
      BY DEF TxOK, TxHolds
    <3>2. \A id, r : Keys(indexes[m], id, r) = KeysIn(columns, colId, indexes[m].columns, id, r)
      BY IndexResolved, KeysAre DEF TableInv, SchemaInv
    <3>3. \A i \in DOMAIN old : i \in DOMAIN t.rows /\ old[i] = t.rows[i]
      BY <1>1
    <3> QED BY <3>1, <3>2, <3>3 DEF AllKeys, KeysOf
  <2> QED BY <2>1, <2>2, <1>5, <1>6
<1>10. u.loose \in BOOLEAN /\ u.added \in Int /\ DOMAIN u.keys = DOMAIN indexes
  BY <1>5, <1>6 DEF TxOK
<1>11. \A m \in DOMAIN indexes : \A k \in u.keys[m] : k.id \in RowIds
  BY <1>5, <1>6
<1> QED BY <1>6, <1>7, <1>8, <1>9, <1>10, <1>11, Zenon DEF TxOK, u

LEMMA DeletedOK ==
    ASSUME TableInv, NEW t, TxOK(t), NEW S, S \subseteq DOMAIN t.rows
    PROVE  TxOK(Deleted(t, S))
<1> DEFINE old == Only(t.rows, S)
           s == Staged(t, old, <<>>)
           u == Deleted(t, S)
<1>1. DOMAIN old = S /\ (\A i \in S : old[i] = t.rows[i]) /\ DOMAIN <<>> = {}
  BY NoRows DEF Only
<1>2. u = [s EXCEPT !.added = s.added - Cardinality(S)]
  BY DEF Deleted
<1> HIDE DEF old, s, u
<1>3. /\ DOMAIN old \subseteq DOMAIN t.rows /\ \A i \in DOMAIN old : old[i] = t.rows[i]
      /\ DOMAIN <<>> \cap (DOMAIN t.rows \ DOMAIN old) = {} /\ DOMAIN <<>> \subseteq RowIds
      /\ \A i \in DOMAIN <<>> : DOMAIN <<>>[i] \subseteq DOMAIN columns
  BY <1>1
<1>4. /\ IsTx(s)
      /\ DOMAIN s.rows = (DOMAIN t.rows \ DOMAIN old) \cup DOMAIN <<>>
      /\ DOMAIN s.rows \subseteq RowIds
      /\ \A i \in DOMAIN s.rows : DOMAIN s.rows[i] \subseteq DOMAIN columns
      /\ s.added = t.added /\ s.loose = t.loose /\ s.next = t.next /\ s.seen = t.seen
      /\ DOMAIN s.keys = DOMAIN indexes
      /\ \A m \in DOMAIN indexes :
            /\ s.keys[m] = (t.keys[m] \ KeysOf(indexes[m], old)) \cup KeysOf(indexes[m], <<>>)
            /\ \A k \in s.keys[m] : k.id \in RowIds
      /\ TxHolds(s)
  BY <1>3, StagedOK DEF s
<1>5. /\ IsTx(u) /\ u.rows = s.rows /\ u.keys = s.keys /\ u.next = t.next /\ u.added = t.added - Cardinality(S)
      /\ u.loose = t.loose /\ u.seen = t.seen
  BY <1>2, <1>4 DEF IsTx
<1>6. RowsInv(u.rows, u.next, count + u.added) /\ u.added \in Int
  <2>1. DOMAIN u.rows = DOMAIN t.rows \ S /\ DOMAIN u.rows \subseteq DOMAIN t.rows
    BY <1>1, <1>4, <1>5
  <2>2. IsFiniteSet(DOMAIN t.rows) /\ Cardinality(DOMAIN t.rows) = count + t.added
    BY RowsFinite DEF TxOK, RowsInv, TableInv
  <2>3. Cardinality(DOMAIN u.rows) = (count + t.added) - Cardinality(S)
    BY <2>1, <2>2, CardinalityMinus
  <2>4. Cardinality(S) \in Nat
    BY <2>2, FS_Subset, FS_CardinalityType
  <2>5. count + u.added = Cardinality(DOMAIN u.rows) /\ u.added \in Int
    BY <2>3, <2>4, <1>5, CountIsInt DEF TxOK
  <2> QED BY <1>4, <1>5, <2>1, <2>5 DEF TxOK, RowsInv
<1>7. TxHolds(u)
  BY <1>4, <1>5 DEF TxHolds
<1>8. TxUnique(u)
  <2>1. \A m \in DOMAIN indexes : u.keys[m] \subseteq t.keys[m]
    BY <1>4, <1>5, NoRows
  <2> QED BY <2>1, <1>5 DEF TxUnique, TxOK
<1>9. \A m \in DOMAIN indexes : \A k \in u.keys[m] : k.id \in RowIds
  BY <1>4, <1>5
<1>10. u.loose \in BOOLEAN /\ DOMAIN u.keys = DOMAIN indexes
  BY <1>4, <1>5 DEF TxOK
<1> QED BY <1>5, <1>6, <1>7, <1>8, <1>9, <1>10, Zenon DEF TxOK, u

\* A step of the transaction leaves the table alone.
LEMMA TxMoves ==
    ASSUME TableInv, NEW v, TxOK(v), tx' = <<v>>, UNCHANGED table
    PROVE  TableInv' /\ TxInv'
<1>1. TableInv' /\ UNCHANGED <<columns, colId, indexes, rows, next, count, bypassed, retyped, load>>
  BY SameTable DEF table
<1>2. T' = v
  BY DEF T
<1>3. TxOK(T)'
  <2>1. IsTx(T)' /\ TxHolds(T)' /\ TxUnique(T)'
    BY <1>1, <1>2 DEF TxOK, IsTx, TxHolds, TxUnique
  <2>2. RowsInv(T.rows, T.next, count + T.added)'
    BY <1>1, <1>2 DEF TxOK, RowsInv, RowIds, MaxRow, Work
  <2> QED BY <2>1, <2>2, <1>1, <1>2 DEF TxOK, RowIds, MaxRow, Work
<1> QED BY <1>1, <1>2, <1>3 DEF TxInv

LEMMA StageKeeps ==
    ASSUME TableInv, NEW u, TxOK(u), Stage(u)
    PROVE  TableInv' /\ TxInv'
<1> DEFINE v == [u EXCEPT !.steps = u.steps + 1]
<1>1. tx' = <<v>> /\ UNCHANGED table
  BY DEF Stage
<1>2. /\ IsTx(v) /\ v.rows = u.rows /\ v.keys = u.keys /\ v.next = u.next /\ v.added = u.added
      /\ v.seen = u.seen /\ v.loose = u.loose
  BY DEF TxOK, IsTx
<1> HIDE DEF v
<1>3. TxOK(v)
  BY <1>2 DEF TxOK, TxHolds, TxUnique
<1> QED BY <1>1, <1>3, TxMoves

\* commit puts the rows and the keys of the transaction into the table.
LEMMA CommitKeeps ==
    ASSUME TableInv, TxInv, Commit
    PROVE  TableInv' /\ TxInv'
<1> DEFINE t == T
           K(m) == t.keys[m]
<1>1. TxOK(t)
  BY DEF TxInv, Commit
<1> HIDE DEF t
<1>2. /\ rows' = t.rows /\ count' = count + t.added /\ next' = (IF t.next > next THEN t.next ELSE next)
      /\ bypassed' = (bypassed \/ t.loose) /\ UNCHANGED <<columns, colId, retyped, load>>
      /\ tx' = <<>>
  BY DEF Commit, t
<1>3. /\ DOMAIN indexes' = DOMAIN indexes
      /\ \A m \in DOMAIN indexes : indexes'[m] = [indexes[m] EXCEPT !.keys = K(m)]
      /\ indexes' = [m \in DOMAIN indexes |-> indexes'[m]]
  BY DEF Commit, t
<1> HIDE DEF K
<1>4. \A m \in DOMAIN indexes :
         /\ indexes'[m].name = indexes[m].name /\ indexes'[m].columns = indexes[m].columns
         /\ indexes'[m].unique = indexes[m].unique /\ indexes'[m].keys = K(m)
         /\ IsIndex(indexes'[m])
  BY <1>3 DEF TableInv, IndexesTyped, IsIndex
<1>5. \A m \in DOMAIN indexes : \A k \in K(m) : k.id \in RowIds
  BY <1>1 DEF TxOK, K
<1>6. IndexesTyped'
  <2>1. /\ Len(indexes) \in Nat /\ DOMAIN indexes = 1 .. Len(indexes)
    BY DEF TableInv, IndexesTyped
  <2>2. indexes' \in [1 .. Len(indexes) -> {indexes'[m] : m \in DOMAIN indexes'}]
    BY <2>1, <1>3
  <2>3. indexes' \in Seq({indexes'[m] : m \in DOMAIN indexes'})
    BY <2>1, <2>2, FunctionIsSeq
  <2>4. ASSUME NEW m \in DOMAIN indexes'
        PROVE  /\ IsIndex(indexes'[m])
               /\ indexes'[m].name \in Work'.names /\ indexes'[m].unique \in BOOLEAN
               /\ indexes'[m].columns \in Seq(Names) /\ indexes'[m].columns # <<>>
               /\ \A k \in DOMAIN indexes'[m].columns : indexes'[m].columns[k] \in Live'
               /\ \A k \in indexes'[m].keys : k.id \in RowIds'
    BY <1>2, <1>3, <1>4, <1>5 DEF TableInv, IndexesTyped, Work, Live, RowIds, MaxRow
  <2> QED BY <2>3, <2>4 DEF IndexesTyped
<1>7. IndexesHold(rows)'
  BY <1>1, <1>2, <1>3, <1>4 DEF IndexesHold, TxOK, TxHolds, K
<1>8. RowsInv(rows, next, count)'
  <2>1. MaxRow \in Nat /\ next \in 1 .. MaxRow + 1 /\ t.next \in 1 .. MaxRow + 1 /\ RowIds \subseteq Int
    BY <1>1, BoundIsNat DEF TableInv, TxOK, RowsInv, RowIds
  <2>2. \A id \in DOMAIN t.rows : id \in Int /\ id < t.next
    BY <1>1, <2>1 DEF TxOK, RowsInv
  <2>3. next' \in 1 .. MaxRow + 1 /\ \A id \in DOMAIN t.rows : id < next'
    BY <1>2, <2>1, <2>2
  <2> QED BY <1>1, <1>2, <2>3 DEF TxOK, RowsInv, RowIds, MaxRow, Work
<1>9. UniqueKeys' /\ bypassed' \in BOOLEAN
  <2>1. bypassed' \in BOOLEAN /\ (~bypassed' /\ ~retyped' => ~bypassed /\ ~retyped /\ ~t.loose)
    BY <1>1, <1>2 DEF TableInv, TxOK
  <2> QED BY <1>1, <1>3, <1>4, <2>1 DEF TxOK, TxUnique, UniqueKeys, K
<1>10. SchemaInv' /\ (load \in DOMAIN Workloads)'
  BY <1>2 DEF TableInv, SchemaInv
<1>11. TxInv'
  BY <1>2 DEF TxInv, Open
<1> QED BY <1>6, <1>7, <1>8, <1>9, <1>10, <1>11 DEF TableInv

\* The row upsert finds is one of the rows.
LEMMA FoundRow ==
    ASSUME TableInv, TxOK(T), NEW key, WithKey(key) # 0
    PROVE  WithKey(key) \in DOMAIN T.rows
<1> DEFINE hits == {id \in DOMAIN T.rows : \A c \in DOMAIN key :
                       FilterMatchesRow([col |-> c, op |-> "Eq", value |-> key[c], list |-> <<>>], id, T.rows[id])}
<1>1. hits \subseteq DOMAIN T.rows /\ hits # {} /\ WithKey(key) = Min(hits)
  BY DEF WithKey
<1>2. hits \subseteq Nat
  BY <1>1, BoundIsNat DEF TableInv, TxOK, RowsInv, RowIds
<1> HIDE DEF hits
<1>3. \E i \in hits : \A j \in hits : i <= j
  <2> DEFINE R == OpToRel(<, Nat)
  <2>1. \E i \in hits : \A j \in hits : ~(<<j, i>> \in R)
    BY <1>1, <1>2, NatLessThanWellFounded, WFMin
  <2>2. \A i, j \in Nat : i < j => <<i, j>> \in R
    BY DEF OpToRel
  <2>3. PICK i \in hits : \A j \in hits : ~(<<j, i>> \in R)
    BY <2>1
  <2> HIDE DEF R
  <2>4. \A j \in hits : ~(j < i)
    BY <1>2, <2>2, <2>3
  <2> QED BY <1>2, <2>4
<1>4. Min(hits) \in hits
  BY <1>3 DEF Min
<1> QED BY <1>1, <1>4

\* insert and the inserting half of upsert.
LEMMA TxInsertKeeps ==
    ASSUME TableInv, NEW t, TxOK(t), NEW d, Acceptable(t, d)
    PROVE  TxOK(Inserted(t, t.next, d, t.next + 1))
<1>1. MaxRow \in Nat /\ t.next \in 1 .. MaxRow + 1 /\ t.next <= MaxRow /\ UniqueInTx(t, Encode(d))
  BY BoundIsNat DEF TableInv, TxOK, RowsInv, Acceptable
<1>2. /\ t.next \in RowIds /\ t.next + 1 \in 1 .. MaxRow + 1 /\ t.next <= t.next + 1 /\ t.next < t.next + 1
      /\ ~(t.next < t.next)
  BY <1>1 DEF RowIds
<1>3. t.next \notin DOMAIN t.rows
  BY <1>2 DEF TxOK, RowsInv
<1> QED BY <1>1, <1>2, <1>3, InsertedOK

LEMMA TxStepKeeps ==
    ASSUME TableInv, TxInv, TxStep
    PROVE  TableInv' /\ TxInv'
<1>1. ASSUME Begin PROVE TableInv' /\ TxInv'
  BY <1>1, BegunOK, TxMoves DEF Begin
<1>2. ASSUME Rollback PROVE TableInv' /\ TxInv'
  BY <1>2, SameTable DEF Rollback, TxInv, Open
<1>3. ASSUME Open PROVE TxOK(T)
  BY <1>3 DEF TxInv
<1>4. ASSUME NEW d, TxInsert(d) PROVE TableInv' /\ TxInv'
  BY <1>3, <1>4, TxInsertKeeps, StageKeeps DEF TxInsert, MayStage
<1>5. ASSUME NEW id \in RowIds, NEW d, TxInsertWithId(id, d) PROVE TableInv' /\ TxInv'
  <2> DEFINE nx == IF id >= T.next THEN id + 1 ELSE T.next
             q == UniqueTuples(Encode(d))
             w == [T EXCEPT !.seen = T.seen \cup q]
  <2>1. TxOK(T) /\ UniqueInTx(T, Encode(d))
    BY <1>3, <1>5 DEF TxInsertWithId, MayStage
  <2>2. CASE id \in DOMAIN T.rows
    <3>1. Stage(w)
      BY <1>5, <2>2 DEF TxInsertWithId
    <3>2. /\ IsTx(w) /\ w.rows = T.rows /\ w.keys = T.keys /\ w.next = T.next /\ w.added = T.added
          /\ w.loose = T.loose /\ w.seen = T.seen \cup q
      <4>1. w = [T EXCEPT !.seen = T.seen \cup q]
        BY DEF q
      <4>2. IsTx(T)
        BY <2>1 DEF TxOK
      <4> HIDE DEF w, q
      <4> QED BY <4>1, <4>2 DEF IsTx
    <3> HIDE DEF w
    <3>3. TxUnique(w)
      BY <2>1, <3>2 DEF TxOK, TxUnique
    <3>4. TxHolds(w)
      BY <2>1, <3>2 DEF TxOK, TxHolds
    <3>5. TxOK(w)
      BY <2>1, <3>2, <3>3, <3>4 DEF TxOK
    <3> QED BY <3>1, <3>5, StageKeeps
  <2>3. CASE id \notin DOMAIN T.rows
    <3>1. MaxRow \in Nat /\ T.next \in 1 .. MaxRow + 1
      BY <2>1, BoundIsNat DEF TableInv, TxOK, RowsInv
    <3>2. nx \in 1 .. MaxRow + 1 /\ T.next <= nx /\ id < nx
      BY <3>1 DEF RowIds
    <3>3. Stage(Inserted(T, id, d, nx))
      BY <1>5, <2>3 DEF TxInsertWithId
    <3> HIDE DEF nx
    <3>4. TxOK(Inserted(T, id, d, nx))
      BY <2>1, <2>3, <3>2, InsertedOK
    <3> QED BY <3>3, <3>4, StageKeeps
  <2> QED BY <2>2, <2>3
<1>6. ASSUME NEW d, NEW e, TxInsertMany(d, e) PROVE TableInv' /\ TxInv'
  <2> DEFINE u == Inserted(T, T.next, d, T.next + 1)
  <2>1. TxOK(u)
    BY <1>3, <1>6, TxInsertKeeps DEF TxInsertMany, MayStage
  <2>2. Stage(IF Acceptable(u, e) THEN Inserted(u, u.next, e, u.next + 1) ELSE u)
    BY <1>6 DEF TxInsertMany
  <2> HIDE DEF u
  <2>3. CASE Acceptable(u, e)
    <3>1. TxOK(Inserted(u, u.next, e, u.next + 1))
      BY <2>1, <2>3, TxInsertKeeps
    <3> QED BY <2>2, <2>3, <3>1, StageKeeps
  <2>4. CASE ~Acceptable(u, e)
    BY <2>1, <2>2, <2>4, StageKeeps
  <2> QED BY <2>3, <2>4
<1>7. ASSUME NEW id, NEW d, TxUpdate(id, d) PROVE TableInv' /\ TxInv'
  <2>1. TxOK(T) /\ {id} \subseteq DOMAIN T.rows /\ Stage(Updated(T, {id}, d))
    BY <1>3, <1>7 DEF TxUpdate, MayStage
  <2> QED BY <2>1, UpdatedOK, StageKeeps
<1>8. ASSUME NEW fs, NEW d, TxUpdateWhere(fs, d) PROVE TableInv' /\ TxInv'
  <2>1. TxOK(T) /\ Matching(T, fs, <<>>) \subseteq DOMAIN T.rows /\ Stage(Updated(T, Matching(T, fs, <<>>), d))
    BY <1>3, <1>8 DEF TxUpdateWhere, MayStage, Matching
  <2> QED BY <2>1, UpdatedOK, StageKeeps
<1>9. ASSUME NEW id, TxDelete(id) PROVE TableInv' /\ TxInv'
  <2>1. TxOK(T) /\ {id} \subseteq DOMAIN T.rows /\ Stage(Deleted(T, {id}))
    BY <1>3, <1>9 DEF TxDelete, MayStage
  <2> QED BY <2>1, DeletedOK, StageKeeps
<1>10. ASSUME NEW fs, TxDeleteWhere(fs) PROVE TableInv' /\ TxInv'
  <2>1. TxOK(T) /\ Matching(T, fs, <<>>) \subseteq DOMAIN T.rows /\ Stage(Deleted(T, Matching(T, fs, <<>>)))
    BY <1>3, <1>10 DEF TxDeleteWhere, MayStage, Matching
  <2> QED BY <2>1, DeletedOK, StageKeeps
<1>11. ASSUME NEW key, NEW set, TxOK(T),
              IF WithKey(key) # 0 THEN TypesAccepted(set) /\ Stage(Updated(T, {WithKey(key)}, set))
              ELSE /\ Acceptable(T, With(key, set))
                   /\ Stage(Inserted(T, T.next, With(key, set), T.next + 1))
       PROVE  TableInv' /\ TxInv'
  <2>1. CASE WithKey(key) # 0
    <3>1. {WithKey(key)} \subseteq DOMAIN T.rows
      BY <1>11, <2>1, FoundRow
    <3> QED BY <1>11, <2>1, <3>1, UpdatedOK, StageKeeps
  <2>2. CASE WithKey(key) = 0
    <3>1. TxOK(Inserted(T, T.next, With(key, set), T.next + 1))
      BY <1>11, <2>2, TxInsertKeeps
    <3> QED BY <1>11, <2>2, <3>1, StageKeeps
  <2> QED BY <2>1, <2>2
<1>12. ASSUME NEW key, NEW set, Upsert(key, set) PROVE TableInv' /\ TxInv'
  BY <1>3, <1>11, <1>12 DEF Upsert, MayStage
<1>13. ASSUME NEW key, NEW c, NEW also, UpsertIncrement(key, c, 1, also) PROVE TableInv' /\ TxInv'
  BY <1>3, <1>11, <1>13 DEF UpsertIncrement, MayStage
<1> QED BY <1>1, <1>2, <1>4, <1>5, <1>6, <1>7, <1>8, <1>9, <1>10, <1>12, <1>13, CommitKeeps DEF TxStep

-----------------------------------------------------------------------------
(* What a row reads. *)

\* Row::get finds the slot the name map gives.
LEMMA FirstLive ==
    ASSUME NEW cs, NEW cm, MapsNames(cs, cm), NEW n \in DOMAIN cm
    PROVE  cm[n] = CHOOSE i \in DOMAIN cs : cs[i].name = n /\ ~cs[i].dropped
<1>1. cm[n] \in DOMAIN cs /\ ~cs[cm[n]].dropped /\ cs[cm[n]].name = n
  BY LiveSlot
<1>2. \A i \in DOMAIN cs : cs[i].name = n /\ ~cs[i].dropped => i = cm[n]
  BY DEF MapsNames
<1> QED BY <1>1, <1>2

ReadAt(cs, i, r) == IF i \in DOMAIN r \/ cs[i].default = NoDefault THEN Stored(r, i) ELSE cs[i].default

LEMMA GetIs ==
    ASSUME MapsNames(columns, colId), NEW n \in Live, NEW r
    PROVE  Get(r, n) = ReadAt(columns, colId[n], r)
<1>1. colId[n] = CHOOSE i \in DOMAIN columns : columns[i].name = n /\ ~columns[i].dropped
  BY FirstLive DEF Live
<1> QED BY <1>1 DEF Get, ReadAt

LEMMA GetIsNext ==
    ASSUME MapsNames(columns, colId)', NEW n \in Live', NEW id
    PROVE  Get(rows[id], n)' = ReadAt(columns', colId'[n], rows'[id])
<1>1. colId'[n] = CHOOSE i \in DOMAIN columns' : columns'[i].name = n /\ ~columns'[i].dropped
  BY FirstLive DEF Live
<1> QED BY <1>1 DEF Get, ReadAt, Stored

\* Only three operations change the schema.
LEMMA SchemaSteps ==
    ASSUME TableTyped, [TxNext]_allVars
    PROVE  \/ UNCHANGED <<columns, colId>>
           \/ \E n \in Names, ty \in Work.types, d \in Defaults, b \in BOOLEAN : AddColumn(n, ty, d, b)
           \/ \E old, new \in Names : RenameColumn(old, new)
           \/ \E n \in Names : DropColumn(n)
<1>1. ASSUME Step
      PROVE  \/ UNCHANGED <<columns, colId>>
             \/ \E n \in Names, ty \in Work.types, d \in Defaults, b \in BOOLEAN : AddColumn(n, ty, d, b)
             \/ \E old, new \in Names : RenameColumn(old, new)
             \/ \E n \in Names : DropColumn(n)
  <2>1. Reopen => UNCHANGED <<columns, colId>>
    BY NameMapIs DEF Reopen, TableTyped, SchemaInv
  <2> QED BY <1>1, <2>1 DEF Step, Insert, InsertTooLarge, InsertWithId, InsertMany, Update, UpdateWhere,
             Delete, DeleteWhere, Store, CreateIndex, DropIndex
<1>2. TxStep => UNCHANGED <<columns, colId>>
  BY DEF TxStep, Begin, Commit, Rollback, TxInsert, TxInsertWithId, TxInsertMany, TxUpdate, TxUpdateWhere,
         TxDelete, TxDeleteWhere, Upsert, UpsertIncrement, Stage, table
<1>3. Half => UNCHANGED <<columns, colId>>
  BY DEF Half, InsertManyTooLarge, PublishLeft
<1> QED BY <1>1, <1>2, <1>3 DEF TxNext, Next, Whole, allVars

LEMMA ReadsStep ==
    ASSUME TableTyped, TableTyped', [TxNext]_allVars
    PROVE  ReadsKept
<1> SUFFICES ASSUME rows' = rows, NEW n \in Live'
             PROVE  \/ n \in Live /\ \A id \in DOMAIN rows : Get(rows[id], n)' = Get(rows[id], n)
                    \/ \E o \in Live \ Live' : \A id \in DOMAIN rows : Get(rows[id], n)' = Get(rows[id], o)
                    \/ /\ n \notin Live
                       /\ \A id \in DOMAIN rows :
                             Get(rows[id], n)' = LET d == columns'[colId'[n]].default
                                                 IN  IF d = NoDefault THEN Null ELSE d
  BY DEF ReadsKept
<1>1. MapsNames(columns, colId) /\ MapsNames(columns', colId')
  BY DEF TableTyped, SchemaInv
<1>2. \A id : Get(rows[id], n)' = ReadAt(columns', colId'[n], rows[id])
  BY <1>1, GetIsNext
<1>3. \A m \in Live : \A id : Get(rows[id], m) = ReadAt(columns, colId[m], rows[id])
  BY <1>1, GetIs
<1>4. \A m \in Live : colId[m] \in DOMAIN columns
  BY <1>1, LiveSlot DEF Live
<1>5. \A i \in DOMAIN columns : columns[i] \in ColumnDef
  BY <1>1 DEF MapsNames
<1>6. CASE UNCHANGED <<columns, colId>>
  BY <1>2, <1>3, <1>6 DEF Live
<1>7. ASSUME NEW o \in Names, NEW ty \in Work.types, NEW d \in Defaults, NEW b, AddColumn(o, ty, d, b)
      PROVE  \/ n \in Live /\ \A id \in DOMAIN rows : Get(rows[id], n)' = Get(rows[id], n)
             \/ /\ n \notin Live
                /\ \A id \in DOMAIN rows :
                      Get(rows[id], n)' = LET e == columns'[colId'[n]].default
                                          IN  IF e = NoDefault THEN Null ELSE e
  <2>1. /\ o \notin Live
        /\ columns' = Append(columns, [name |-> o, type |-> ty, default |-> d, dropped |-> FALSE])
        /\ colId' = With(colId, [m \in {o} |-> Len(columns) + 1])
    BY <1>7 DEF AddColumn
  <2>2. /\ \A i \in DOMAIN columns : columns'[i] = columns[i]
        /\ Len(columns) + 1 \notin DOMAIN columns
    BY <1>1, <2>1 DEF MapsNames
  <2>3. (\A m \in Live : colId'[m] = colId[m]) /\ colId'[o] = Len(columns) + 1 /\ Live' = Live \cup {o}
    BY <2>1 DEF Live, With
  <2>4. CASE n \in Live
    BY <1>2, <1>3, <1>4, <2>2, <2>3, <2>4 DEF ReadAt
  <2>5. CASE n = o
    <3>1. \A id \in DOMAIN rows : colId'[n] \notin DOMAIN rows[id]
      BY <2>2, <2>3, <2>5 DEF TableTyped, RowsTyped
    <3> QED BY <1>2, <2>1, <2>5, <3>1 DEF ReadAt, Stored
  <2> QED BY <2>3, <2>4, <2>5
<1>8. ASSUME NEW old \in Names, NEW new \in Names, RenameColumn(old, new)
      PROVE  \/ n \in Live /\ \A id \in DOMAIN rows : Get(rows[id], n)' = Get(rows[id], n)
             \/ \E o \in Live \ Live' : \A id \in DOMAIN rows : Get(rows[id], n)' = Get(rows[id], o)
  <2>1. /\ old \in Live /\ new \notin Live
        /\ columns' = [columns EXCEPT ![colId[old]] = [columns[colId[old]] EXCEPT !.name = new]]
        /\ colId' = With(Without(colId, {old}), [m \in {new} |-> colId[old]])
    BY <1>8 DEF RenameColumn
  <2>2. \A i \in DOMAIN columns : columns'[i].default = columns[i].default
    BY <1>5, <2>1 DEF ColumnDef
  <2>3. /\ Live' = (Live \ {old}) \cup {new}
        /\ colId'[new] = colId[old] /\ \A m \in Live \ {old} : colId'[m] = colId[m]
    BY <2>1 DEF Live, With, Without
  <2>4. CASE n = new
    <3>1. \A id \in DOMAIN rows : Get(rows[id], n)' = Get(rows[id], old)
      BY <1>2, <1>3, <1>4, <2>1, <2>2, <2>3, <2>4 DEF ReadAt
    <3>2. old \in Live \ Live'
      BY <2>1, <2>3
    <3> QED BY <3>1, <3>2
  <2>5. CASE n \in Live \ {old}
    BY <1>2, <1>3, <1>4, <2>2, <2>3, <2>5 DEF ReadAt
  <2> QED BY <2>3, <2>4, <2>5
<1>9. ASSUME NEW o \in Names, DropColumn(o)
      PROVE  n \in Live /\ \A id \in DOMAIN rows : Get(rows[id], n)' = Get(rows[id], n)
  <2>1. /\ o \in Live
        /\ columns' = [columns EXCEPT ![colId[o]] = [columns[colId[o]] EXCEPT !.dropped = TRUE]]
        /\ colId' = Without(colId, {o})
    BY <1>9 DEF DropColumn, Tombstoned
  <2>2. \A i \in DOMAIN columns : columns'[i].default = columns[i].default
    BY <1>5, <2>1 DEF ColumnDef
  <2>3. Live' = Live \ {o} /\ \A m \in Live \ {o} : colId'[m] = colId[m]
    BY <2>1 DEF Live, Without
  <2> QED BY <1>2, <1>3, <1>4, <2>2, <2>3 DEF ReadAt
<1> QED BY <1>6, <1>7, <1>8, <1>9, SchemaSteps

-----------------------------------------------------------------------------
(* The theorems. *)

\* The inductive invariant: once an insert_many has failed in the middle of its
\* rows, only the types are left.
HistoryInv == LeftTyped /\ IF halfDone THEN TableTyped /\ ~Open ELSE TableInv /\ TxInv

LEMMA InitHolds ==
    ASSUME TxInit
    PROVE  HistoryInv
<1>1. /\ columns = InitColumns /\ colId = NameMap(InitColumns) /\ indexes = <<>> /\ rows = <<>> /\ next = 1
      /\ count = 0 /\ bypassed = FALSE /\ retyped = Retyped(InitColumns) /\ load \in DOMAIN Workloads /\ tx = <<>>
      /\ staged = <<>> /\ halfDone = FALSE
  BY DEF TxInit, Init
<1>2. MapsNames(columns, colId)
  <2> DEFINE live == {i \in DOMAIN columns : ~columns[i].dropped}
             pos == [n \in {columns[i].name : i \in live} |-> CHOOSE i \in live : columns[i].name = n]
  <2>1. colId = pos
    BY <1>1 DEF NameMap
  <2>2. /\ columns \in Seq(ColumnDef)
        /\ \A i, j \in DOMAIN columns : columns[i].name = columns[j].name => i = j
    BY <1>1, ColumnsAssumption
  <2>3. \A i \in live : pos[columns[i].name] = i
    <3> TAKE i \in live
    <3> DEFINE j == CHOOSE j \in live : columns[j].name = columns[i].name
    <3>1. j \in live /\ columns[j].name = columns[i].name
      OBVIOUS
    <3>2. pos[columns[i].name] = j
      OBVIOUS
    <3> HIDE DEF j
    <3> QED BY <2>2, <3>1, <3>2
  <2>4. DOMAIN pos = {columns[i].name : i \in live} /\ pos = [n \in DOMAIN pos |-> pos[n]]
    OBVIOUS
  <2> HIDE DEF pos
  <2> QED BY <2>1, <2>2, <2>3, <2>4 DEF MapsNames
<1>3. SchemaInv
  BY <1>1, <1>2 DEF SchemaInv, Retyped
<1>4. DOMAIN indexes = {} /\ DOMAIN rows = {}
  BY <1>1, NoRows
<1>5. IndexesTyped
  <2>1. indexes \in Seq({indexes[m] : m \in DOMAIN indexes})
    BY <1>1
  <2> QED BY <2>1, <1>4 DEF IndexesTyped
<1>6. IndexesHold(rows) /\ UniqueKeys
  BY <1>4 DEF IndexesHold, UniqueKeys
<1>7. RowsInv(rows, next, count)
  <2>1. Cardinality(DOMAIN rows) = 0
    BY <1>4, FS_EmptySet, Zenon
  <2> QED BY <1>1, <1>4, <2>1, BoundIsNat DEF RowsInv
<1>8. LeftTyped
  BY <1>1, <1>4, NoRows DEF LeftTyped, RowsTyped
<1> QED BY <1>1, <1>3, <1>5, <1>6, <1>7, <1>8 DEF HistoryInv, TableInv, TxInv, Open

\* A step outside a failed insert_many.
LEMMA StepHolds ==
    ASSUME TableInv, TxInv, (~Open /\ Whole /\ UNCHANGED tx) \/ TxStep \/ UNCHANGED allVars
    PROVE  TableInv' /\ TxInv'
<1>1. ASSUME ~Open, Whole, UNCHANGED tx PROVE TableInv' /\ TxInv'
  BY <1>1, WholeKeeps DEF TxInv, Open
<1>2. ASSUME UNCHANGED allVars PROVE TableInv' /\ TxInv'
  <2>1. UNCHANGED table /\ UNCHANGED tx
    BY <1>2 DEF allVars, table
  <2>2. CASE Open
    BY <2>1, <2>2, TxMoves DEF TxInv
  <2>3. CASE ~Open
    BY <2>1, <2>3, SameTable DEF TxInv, Open
  <2> QED BY <2>2, <2>3
<1> QED BY <1>1, <1>2, TxStepKeeps

\* The steps of a transaction leave what a failed insert_many left, and need an
\* open transaction or a table without it.
LEMMA TxAside ==
    ASSUME TxStep
    PROVE  (Open \/ ~halfDone) /\ UNCHANGED <<staged, halfDone>>
BY DEF TxStep, Begin, Commit, Rollback, TxInsert, TxInsertWithId, TxInsertMany, TxUpdate, TxUpdateWhere,
       TxDelete, TxDeleteWhere, Upsert, UpsertIncrement, Stage, MayStage, table

LEMMA HistoryStep ==
    ASSUME HistoryInv, [TxNext]_allVars
    PROVE  HistoryInv'
<1>1. LeftTyped /\ TableTyped /\ halfDone \in BOOLEAN
  BY WholeIsTyped DEF HistoryInv, LeftTyped
<1>2. CASE ~Open /\ Half /\ UNCHANGED tx
  <2>1. TableTyped' /\ LeftTyped' /\ halfDone'
    BY <1>1, <1>2, HalfKeeps
  <2> QED BY <1>2, <2>1 DEF HistoryInv, Open
<1>3. CASE ~halfDone /\ ((~Open /\ Whole /\ UNCHANGED tx) \/ TxStep \/ UNCHANGED allVars)
  <2>1. TableInv' /\ TxInv'
    BY <1>3, StepHolds DEF HistoryInv
  <2>2. UNCHANGED <<staged, halfDone>>
    BY <1>3, TxAside DEF Whole, allVars
  <2>3. staged = <<>> /\ staged' = <<>>
    BY <1>1, <1>3, <2>2 DEF LeftTyped
  <2>4. LeftTyped'
    BY <1>1, <2>2, <2>3, NoRows DEF LeftTyped, RowsTyped
  <2> QED BY <1>3, <2>1, <2>2, <2>4 DEF HistoryInv
<1>4. CASE halfDone /\ UNCHANGED allVars
  <2>1. /\ UNCHANGED <<columns, colId, indexes, rows, next, count, bypassed, retyped, load>>
        /\ UNCHANGED <<staged, halfDone, tx>>
    BY <1>4 DEF allVars
  <2>2. SchemaInv' /\ IndexesTyped' /\ RowIds' = RowIds /\ MaxRow' = MaxRow
    BY <1>1, <2>1 DEF TableTyped, SchemaInv, IndexesTyped, Live, Work, RowIds, MaxRow
  <2>3. TableTyped' /\ LeftTyped'
    BY <1>1, <2>1, <2>2 DEF TableTyped, LeftTyped, RowsTyped
  <2> QED BY <1>4, <2>1, <2>3 DEF HistoryInv, Open
<1>5. halfDone => ~Whole /\ (~Open => ~TxStep)
  BY TxAside DEF Whole
<1>6. halfDone => ~Open
  BY DEF HistoryInv
<1> QED BY <1>1, <1>2, <1>3, <1>4, <1>5, <1>6 DEF TxNext, Next

\* The inductive invariant holds of every table and every transaction on it.
THEOREM TableInvariant == TxSpec => []HistoryInv
BY InitHolds, HistoryStep, PTL DEF TxSpec

LEMMA AlwaysTyped == HistoryInv => TableTyped
BY WholeIsTyped DEF HistoryInv

\* Every value of the table's metadata, of its indexes and rows is of its type:
\* rows use existing column slots only, whatever columns were added, renamed or
\* dropped between their writes (add_column, rename_column, drop_column).
THEOREM TableTypes == TxSpec => []TypeOK
<1>1. TableTyped /\ LeftTyped => TypeOK
  <2> SUFFICES ASSUME TableTyped, LeftTyped PROVE TypeOK
    OBVIOUS
  <2>1. columns \in Seq(ColumnDef) /\ Live \subseteq Names /\ \A n \in Live : colId[n] \in DOMAIN columns
    BY LiveSlot DEF TableTyped, SchemaInv, MapsNames, Live
  <2>2. count \in 0 .. MaxRow
    BY DEF TableTyped
  <2>3. \A m \in DOMAIN indexes :
          /\ indexes[m].name \in Work.names /\ indexes[m].unique \in BOOLEAN
          /\ indexes[m].columns \in Seq(Names)
          /\ \A k \in indexes[m].keys : k.id \in RowIds
    BY DEF TableTyped, IndexesTyped
  <2>4. retyped \in BOOLEAN /\ bypassed \in BOOLEAN
    BY DEF TableTyped, SchemaInv
  <2> QED BY <2>1, <2>2, <2>3, <2>4 DEF TypeOK, TableTyped, LeftTyped, RowsTyped
<1>2. HistoryInv => TableTyped /\ LeftTyped
  BY AlwaysTyped DEF HistoryInv
<1> QED BY <1>1, <1>2, TableInvariant, PTL

\* add_column, rename_column and drop_column keep the name map that
\* TableMeta::new would build, so a reopened table resolves every name as before.
THEOREM NamesSurviveReopen == TxSpec => []NameMapExact
<1>1. HistoryInv => NameMapExact
  BY AlwaysTyped, NameMapIs DEF TableTyped, SchemaInv, NameMapExact
<1> QED BY <1>1, TableInvariant, PTL

\* Every index of the table holds exactly the keys of its rows, after any mix of
\* plain and transactional operations and schema changes (index_update_row,
\* create_index_ex and the commit of an AcidTransaction), unless an insert_many
\* has failed in the middle of its rows (the index roots have then moved, the root
\* of the rows has not) or a name has been given to columns of two types.
THEOREM IndexesExact == TxSpec => []IndexExact
<1>1. HistoryInv => IndexExact
  <2> SUFFICES ASSUME HistoryInv, NEW m \in DOMAIN indexes
               PROVE  /\ Resolved(indexes[m])
                      /\ ~retyped /\ ~halfDone => indexes[m].keys = KeysOf(indexes[m], rows)
    BY DEF IndexExact
  <2>1. Resolved(indexes[m])
    BY AlwaysTyped, IndexResolved DEF TableTyped
  <2>2. ASSUME ~retyped, ~halfDone PROVE indexes[m].keys = KeysOf(indexes[m], rows)
    <3> TableInv
      BY <2>2 DEF HistoryInv
    <3>1. \A id, r : Keys(indexes[m], id, r) = KeysIn(columns, colId, indexes[m].columns, id, r)
      BY <2>1, <2>2, KeysAre DEF TableInv, SchemaInv
    <3>2. KeysOf(indexes[m], rows) = AllKeys(columns, colId, indexes[m].columns, rows)
      BY <3>1 DEF KeysOf, AllKeys
    <3> QED BY <2>2, <3>2 DEF TableInv, IndexesHold
  <2> QED BY <2>1, <2>2
<1> QED BY <1>1, TableInvariant, PTL

\* row_count is the number of rows and next_rowid is above every id in use,
\* whatever a transaction adds to them at its commit, as long as no insert_many
\* has failed in the middle of its rows, which sets neither.
THEOREM RowCountExact == TxSpec => []CountsExact
<1>1. HistoryInv => CountsExact
  BY DEF HistoryInv, TableInv, RowsInv, CountsExact
<1> QED BY <1>1, TableInvariant, PTL

\* enforce_unique_indexes and its transactional variant, which looks at the
\* committed tree and at the tuples recorded in unique_seen, keep a unique index
\* free of duplicates until an operation that does not call them runs.
THEOREM UniqueIndexes == TxSpec => []UniqueHolds
<1>1. HistoryInv => UniqueHolds
  BY DEF HistoryInv, TableInv, UniqueKeys, UniqueHolds
<1> QED BY <1>1, TableInvariant, PTL

\* Inside an open transaction, the private index trees, the row count with the
\* delta and the next row id agree with the rows it sees.
THEOREM OverlayAgrees == TxSpec => []OverlayInStep
<1>1. HistoryInv => OverlayInStep
  <2> SUFFICES ASSUME TableInv, TxOK(T)
               PROVE  /\ ~retyped => \A n \in DOMAIN indexes : T.keys[n] = KeysOf(indexes[n], T.rows)
                      /\ TxCount(<<>>, <<>>) = Cardinality(DOMAIN T.rows)
                      /\ \A id \in DOMAIN T.rows : id < T.next
    BY DEF OverlayInStep, HistoryInv, TxInv
  <2>1. ASSUME ~retyped, NEW m \in DOMAIN indexes PROVE T.keys[m] = KeysOf(indexes[m], T.rows)
    <3>1. \A id, r : Keys(indexes[m], id, r) = KeysIn(columns, colId, indexes[m].columns, id, r)
      BY <2>1, IndexResolved, KeysAre DEF TableInv, SchemaInv
    <3>2. KeysOf(indexes[m], T.rows) = AllKeys(columns, colId, indexes[m].columns, T.rows)
      BY <3>1 DEF KeysOf, AllKeys
    <3> QED BY <2>1, <3>2 DEF TxOK, TxHolds
  <2>2. TxCount(<<>>, <<>>) = count + T.added
    BY DEF TxCount
  <2> QED BY <2>1, <2>2 DEF TxOK, RowsInv
<1> QED BY <1>1, TableInvariant, PTL

\* A schema change or a reopening never changes what an existing row reads.
THEOREM ReadsAreStable == TxSpec => ReadsStable
<1>1. TableTyped /\ TableTyped' /\ [TxNext]_allVars => [ReadsKept]_vars
  BY ReadsStep
<1> QED BY <1>1, AlwaysTyped, TableInvariant, PTL DEF TxSpec, ReadsStable

-----------------------------------------------------------------------------
(* Sorted enumerations. *)

LEMMA LeastNat ==
    ASSUME NEW S, S \subseteq Nat, S # {}
    PROVE  \E i \in S : \A j \in S : i <= j
<1> DEFINE R == OpToRel(<, Nat)
<1>1. \E i \in S : \A j \in S : ~(<<j, i>> \in R)
  BY NatLessThanWellFounded, WFMin
<1>2. \A i, j \in Nat : i < j => <<i, j>> \in R
  BY DEF OpToRel
<1>3. PICK i \in S : \A j \in S : ~(<<j, i>> \in R)
  BY <1>1
<1> HIDE DEF R
<1>4. \A j \in S : ~(j < i)
  BY <1>2, <1>3
<1> QED BY <1>4

LEMMA MinIs ==
    ASSUME NEW S, S \subseteq Nat, S # {}
    PROVE  Min(S) \in S /\ \A j \in S : Min(S) <= j
BY LeastNat DEF Min

LEMMA NatSeq ==
    ASSUME NEW S, S \subseteq Nat, NEW s \in Seq(S)
    PROVE  s \in Seq(Nat) /\ \A i \in 1 .. Len(s) : s[i] \in S /\ s[i] \in Nat
<1>1. \A i \in 1 .. Len(s) : s[i] \in S /\ s[i] \in Nat
  BY ElementOfSeq
<1>2. Len(s) \in Nat /\ s \in [1 .. Len(s) -> Nat]
  BY <1>1
<1> QED BY <1>1, <1>2, FunctionIsSeq

\* R is a strict total order of S.
Orders(R, S) ==
    /\ \A a \in S : <<a, a>> \notin R
    /\ \A a, b \in S : a # b => <<a, b>> \in R \/ <<b, a>> \in R
    /\ \A a, b, c \in S : <<a, b>> \in R /\ <<b, c>> \in R => <<a, c>> \in R

Enumerates(s, R, S) ==
    /\ s \in [1 .. Cardinality(S) -> S]
    /\ \A i, j \in DOMAIN s : i < j => <<s[i], s[j]>> \in R

\* Such an order has an enumeration of every finite set: the smallest set
\* without one would get one from that of the set without one of its elements,
\* which goes in before the first element that follows it.
LEMMA EnumerationExists ==
    ASSUME NEW U, NEW R, Orders(R, U)
    PROVE  \A S \in SUBSET U : IsFiniteSet(S) => \E s : Enumerates(s, R, S)
<1> DEFINE Bad(S) == S \in SUBSET U /\ IsFiniteSet(S) /\ \A s : ~Enumerates(s, R, S)
           Sizes == {Cardinality(S) : S \in {X \in SUBSET U : Bad(X)}}
<1>1. SUFFICES ASSUME NEW X, Bad(X)
               PROVE  FALSE
  OBVIOUS
<1>2. Sizes \subseteq Nat /\ Sizes # {}
  BY <1>1, FS_CardinalityType
<1>3. PICK n \in Sizes : \A k \in Sizes : n <= k
  BY <1>2, LeastNat
<1>4. PICK S : Bad(S) /\ Cardinality(S) = n
  BY <1>3
<1>5. S # {}
  <2>1. SUFFICES ASSUME S = {} PROVE FALSE
    OBVIOUS
  <2>2. Cardinality(S) = 0
    BY <2>1, FS_EmptySet
  <2>3. Enumerates([i \in 1 .. 0 |-> i], R, S)
    BY <2>1, <2>2 DEF Enumerates
  <2> QED BY <1>4, <2>3
<1>6. PICK x \in S : TRUE
  BY <1>5
<1> DEFINE Rest == S \ {x}
<1>7. IsFiniteSet(Rest) /\ n \in Nat /\ Cardinality(Rest) = n - 1 /\ Cardinality(Rest) \in Nat
  BY <1>2, <1>4, <1>6, FS_RemoveElement, FS_CardinalityType
<1>8. ~Bad(Rest)
  <2>1. SUFFICES ASSUME Bad(Rest) PROVE FALSE
    OBVIOUS
  <2>2. Cardinality(Rest) \in Sizes
    BY <2>1
  <2> QED BY <1>3, <1>7, <2>2
<1>9. PICK t : Enumerates(t, R, Rest)
  BY <1>4, <1>7, <1>8
<1> HIDE DEF Bad, Sizes
<1>10. S \in SUBSET U
  BY <1>4 DEF Bad
<1>11. t \in [1 .. n - 1 -> Rest] /\ \A i, j \in 1 .. n - 1 : i < j => <<t[i], t[j]>> \in R
  BY <1>7, <1>9 DEF Enumerates
<1> DEFINE Later == {i \in 1 .. n : i = n \/ <<x, t[i]>> \in R}
<1>12. n >= 1
  BY <1>7
<1>13. PICK p \in Later : \A i \in Later : p <= i
  <2>1. n \in Later /\ Later \subseteq Nat
    BY <1>7, <1>12
  <2> HIDE DEF Later
  <2> QED BY <2>1, LeastNat
<1>14. p \in 1 .. n
  BY <1>13
<1>15. \A i \in 1 .. n - 1 : i < p => <<t[i], x>> \in R
  <2> SUFFICES ASSUME NEW i \in 1 .. n - 1, i < p PROVE <<t[i], x>> \in R
    OBVIOUS
  <2>1. i \notin Later
    BY <1>7, <1>13, <1>14
  <2>2. <<x, t[i]>> \notin R
    BY <1>7, <2>1
  <2>3. t[i] \in Rest
    BY <1>11
  <2> QED BY <1>6, <1>10, <2>2, <2>3 DEF Orders
<1>16. \A i \in 1 .. n - 1 : p <= i => <<x, t[i]>> \in R
  <2> SUFFICES ASSUME NEW i \in 1 .. n - 1, p <= i PROVE <<x, t[i]>> \in R
    OBVIOUS
  <2>1. p # n /\ p \in 1 .. n - 1
    BY <1>7, <1>14
  <2>2. <<x, t[p]>> \in R
    BY <1>13, <2>1
  <2>3. CASE p = i
    BY <2>2, <2>3
  <2>4. CASE p < i
    <3>1. <<t[p], t[i]>> \in R
      BY <1>11, <2>1, <2>4
    <3>2. t[p] \in Rest /\ t[i] \in Rest
      BY <1>11, <2>1
    <3> QED BY <1>6, <1>10, <2>2, <3>1, <3>2 DEF Orders
  <2> QED BY <1>7, <1>14, <2>3, <2>4
<1> DEFINE s == [k \in 1 .. n |-> IF k < p THEN t[k] ELSE IF k = p THEN x ELSE t[k - 1]]
<1>17. s \in [1 .. n -> S]
  <2>1. \A k \in 1 .. n : s[k] \in S
    <3> TAKE k \in 1 .. n
    <3>1. CASE k < p
      BY <1>7, <1>11, <1>14, <3>1
    <3>2. CASE k = p
      BY <1>6, <1>14, <3>2
    <3>3. CASE k > p
      <4>1. k - 1 \in 1 .. n - 1
        BY <1>7, <1>14, <3>3
      <4> QED BY <1>7, <1>11, <1>14, <3>3, <4>1
    <3> QED BY <1>7, <1>14, <3>1, <3>2, <3>3
  <2> QED BY <2>1
<1>18. \A i, j \in 1 .. n : i < j => <<s[i], s[j]>> \in R
  <2> SUFFICES ASSUME NEW i \in 1 .. n, NEW j \in 1 .. n, i < j
               PROVE  <<s[i], s[j]>> \in R
    OBVIOUS
  <2>1. CASE j < p
    <3>1. i \in 1 .. n - 1 /\ j \in 1 .. n - 1 /\ s[i] = t[i] /\ s[j] = t[j]
      BY <1>7, <1>14, <2>1
    <3> QED BY <1>11, <3>1
  <2>2. CASE j = p
    <3>1. i \in 1 .. n - 1 /\ i < p /\ s[i] = t[i] /\ s[j] = x
      BY <1>7, <1>14, <2>2
    <3> QED BY <1>15, <3>1
  <2>3. CASE j > p /\ i < p
    <3>1. /\ i \in 1 .. n - 1 /\ j - 1 \in 1 .. n - 1 /\ i < j - 1
          /\ s[i] = t[i] /\ s[j] = t[j - 1]
      BY <1>7, <1>14, <2>3
    <3>2. i \in 1 .. n - 1 /\ j - 1 \in 1 .. n - 1 /\ i < j - 1
      BY <1>7, <1>14, <2>3
    <3> QED BY <1>11, <3>1, <3>2
  <2>4. CASE j > p /\ i = p
    <3>1. j - 1 \in 1 .. n - 1 /\ p <= j - 1 /\ s[i] = x /\ s[j] = t[j - 1]
      BY <1>7, <1>14, <2>4
    <3> QED BY <1>16, <3>1
  <2>5. CASE j > p /\ i > p
    <3>1. i - 1 \in 1 .. n - 1 /\ j - 1 \in 1 .. n - 1 /\ i - 1 < j - 1 /\ s[i] = t[i - 1] /\ s[j] = t[j - 1]
      BY <1>7, <1>14, <2>5
    <3> QED BY <1>11, <3>1
  <2> QED BY <1>7, <1>14, <2>1, <2>2, <2>3, <2>4, <2>5
<1> HIDE DEF s
<1>19. Enumerates(s, R, S)
  BY <1>4, <1>17, <1>18 DEF Enumerates
<1> QED BY <1>4, <1>19 DEF Bad

\* An enumeration has every element once.
LEMMA EnumerationCovers ==
    ASSUME NEW U, NEW R, Orders(R, U), NEW S \in SUBSET U, IsFiniteSet(S), NEW s, Enumerates(s, R, S)
    PROVE  /\ Cardinality(S) \in Nat /\ Len(s) = Cardinality(S) /\ DOMAIN s = 1 .. Len(s)
           /\ s \in Seq(S)
           /\ ToSet(s) = S
<1> DEFINE n == Cardinality(S)
<1>1. n \in Nat
  BY FS_CardinalityType
<1>2. s \in [1 .. n -> S] /\ \A i, j \in 1 .. n : i < j => <<s[i], s[j]>> \in R
  BY DEF Enumerates
<1>3. s \in Seq(S) /\ Len(s) = n /\ DOMAIN s = 1 .. Len(s)
  BY <1>1, <1>2, FunctionIsSeq
<1>4. \A i, j \in 1 .. n : i # j => s[i] # s[j]
  <2> SUFFICES ASSUME NEW i \in 1 .. n, NEW j \in 1 .. n, i < j
               PROVE  s[i] # s[j]
    BY <1>1
  <2> QED BY <1>2 DEF Orders
<1>5. s \in Injection(1 .. n, S)
  BY <1>2, <1>4 DEF Injection, IsInjective
<1>6. IsFiniteSet(1 .. n) /\ Cardinality(1 .. n) = n
  BY <1>1, FS_Interval
<1>7. s \in Surjection(1 .. n, S)
  BY <1>5, <1>6, FS_Injection
<1>8. \A x \in S : \E i \in 1 .. n : s[i] = x
  BY <1>7 DEF Surjection
<1>9. ToSet(s) = S
  BY <1>2, <1>3, <1>8 DEF ToSet
<1> QED BY <1>1, <1>3, <1>9

\* The numbers of a set, in order.
LEMMA AscendingIs ==
    ASSUME NEW S, S \subseteq Nat, IsFiniteSet(S)
    PROVE  /\ Ascending(S) \in Seq(S) /\ Len(Ascending(S)) = Cardinality(S)
           /\ ToSet(Ascending(S)) = S
           /\ \A i, j \in 1 .. Len(Ascending(S)) : i < j => Ascending(S)[i] < Ascending(S)[j]
<1> DEFINE R == {p \in Nat \X Nat : p[1] < p[2]}
<1>1. \A a, b \in Nat : <<a, b>> \in R <=> a < b
  OBVIOUS
<1> HIDE DEF R
<1>2. Orders(R, Nat)
  BY <1>1 DEF Orders
<1>3. PICK t : Enumerates(t, R, S)
  BY <1>2, EnumerationExists
<1> DEFINE ok(s) == \A i, j \in DOMAIN s : i < j => s[i] < s[j]
<1>4. \A s \in [1 .. Cardinality(S) -> S] : ok(s) <=> Enumerates(s, R, S)
  <2> SUFFICES ASSUME NEW s \in [1 .. Cardinality(S) -> S]
               PROVE  ok(s) <=> Enumerates(s, R, S)
    OBVIOUS
  <2>1. \A i \in DOMAIN s : s[i] \in Nat
    OBVIOUS
  <2> QED BY <1>1, <2>1 DEF Enumerates
<1>5. t \in [1 .. Cardinality(S) -> S] /\ ok(t)
  BY <1>3, <1>4 DEF Enumerates
<1>6. Ascending(S) = CHOOSE s \in [1 .. Cardinality(S) -> S] : ok(s)
  BY DEF Ascending, Ordered
<1> HIDE DEF ok
<1>7. Enumerates(Ascending(S), R, S)
  BY <1>4, <1>5, <1>6
<1> DEFINE s == Ascending(S)
<1>8. S \in SUBSET Nat /\ Enumerates(s, R, S)
  BY <1>7
<1> HIDE DEF s
<1>9. /\ Cardinality(S) \in Nat /\ Len(s) = Cardinality(S) /\ DOMAIN s = 1 .. Len(s)
      /\ s \in Seq(S)
      /\ ToSet(s) = S
  BY ONLY IsFiniteSet(S), <1>2, <1>8, EnumerationCovers
<1>10. \A i, j \in 1 .. Len(s) : i < j => s[i] < s[j]
  <2>1. \A i \in 1 .. Len(s) : s[i] \in Nat
    BY <1>9, NatSeq
  <2> QED BY <1>1, <1>8, <1>9, <2>1 DEF Enumerates
<1> QED BY <1>9, <1>10 DEF s

\* Only one sequence has the elements of a set in order.
LEMMA AscendingUnique ==
    ASSUME NEW s \in Seq(Nat), NEW t \in Seq(Nat), ToSet(s) = ToSet(t), Len(s) = Len(t),
           \A i, j \in 1 .. Len(s) : i < j => s[i] < s[j],
           \A i, j \in 1 .. Len(t) : i < j => t[i] < t[j]
    PROVE  s = t
<1> DEFINE n == Len(s)
           D == {i \in 1 .. n : s[i] # t[i]}
<1>1. n \in Nat /\ Len(t) = n /\ DOMAIN s = 1 .. n /\ DOMAIN t = 1 .. n
      /\ \A i \in 1 .. n : s[i] \in Nat /\ t[i] \in Nat
  OBVIOUS
<1>2. SUFFICES ASSUME D # {} PROVE FALSE
  BY <1>1, SeqEqual
<1>3. PICK i \in D : \A k \in D : i <= k
  <2>1. D \subseteq Nat
    BY <1>1
  <2> HIDE DEF D
  <2> QED BY <1>2, <2>1, LeastNat
<1>4. i \in 1 .. n /\ s[i] # t[i] /\ \A k \in 1 .. n : k < i => s[k] = t[k]
  BY <1>1, <1>3
<1> HIDE DEF n, D
<1>5. PICK j \in 1 .. n : t[j] = s[i]
  <2>1. s[i] \in ToSet(s)
    BY <1>1, <1>4 DEF ToSet
  <2>2. s[i] \in ToSet(t)
    BY <2>1
  <2> QED BY <1>1, <2>2 DEF ToSet
<1>6. PICK k \in 1 .. n : s[k] = t[i]
  <2>1. t[i] \in ToSet(t)
    BY <1>1, <1>4 DEF ToSet
  <2>2. t[i] \in ToSet(s)
    BY <2>1
  <2> QED BY <1>1, <2>2 DEF ToSet
<1>7. \A x, y \in 1 .. n : x < y => s[x] < s[y] /\ t[x] < t[y]
  BY <1>1 DEF n
<1>8. CASE s[i] < t[i]
  <2>1. ~(i < j) /\ j # i
    BY <1>1, <1>4, <1>5, <1>7, <1>8
  <2>2. j < i
    BY <1>1, <1>4, <2>1
  <2>3. s[j] = s[i] /\ s[j] < s[i]
    BY <1>4, <1>5, <1>7, <2>2
  <2> QED BY <1>1, <1>4, <2>3
<1>9. CASE t[i] < s[i]
  <2>1. ~(i < k) /\ k # i
    BY <1>1, <1>4, <1>6, <1>7, <1>9
  <2>2. k < i
    BY <1>1, <1>4, <2>1
  <2>3. t[k] = t[i] /\ t[k] < t[i]
    BY <1>4, <1>6, <1>7, <2>2
  <2> QED BY <1>1, <1>4, <2>3
<1> QED BY <1>1, <1>4, <1>8, <1>9

\* So an ascending sequence is that of its elements.
LEMMA AscendingAgain ==
    ASSUME NEW s \in Seq(Nat), \A i, j \in 1 .. Len(s) : i < j => s[i] < s[j]
    PROVE  Ascending(ToSet(s)) = s
<1> DEFINE n == Len(s)
           S == ToSet(s)
<1>1. n \in Nat /\ DOMAIN s = 1 .. n /\ \A i \in 1 .. n : s[i] \in Nat
  OBVIOUS
<1>2. S \subseteq Nat /\ s \in [1 .. n -> S] /\ \A x \in S : \E i \in 1 .. n : s[i] = x
  BY <1>1 DEF ToSet
<1>3. \A i, j \in 1 .. n : s[i] = s[j] => i = j
  BY <1>1
<1>4. s \in Bijection(1 .. n, S)
  <2> HIDE DEF n, S
  <2> QED BY <1>2, <1>3 DEF Bijection, Injection, Surjection, IsInjective
<1>5. IsFiniteSet(1 .. n) /\ Cardinality(1 .. n) = n
  BY <1>1, FS_Interval, SMTT(30)
<1>6. IsFiniteSet(S) /\ Cardinality(S) = n
  BY <1>4, <1>5, FS_Bijection DEF ExistsBijection
<1> DEFINE t == Ascending(S)
<1>7. /\ t \in Seq(S) /\ Len(t) = n /\ ToSet(t) = S
      /\ \A i, j \in 1 .. Len(t) : i < j => t[i] < t[j]
  BY <1>2, <1>6, AscendingIs
<1>8. t \in Seq(Nat)
  <2> HIDE DEF t, S
  <2> QED BY <1>2, <1>7, NatSeq
<1>9. t = s
  <2> HIDE DEF t
  <2> QED BY <1>7, <1>8, AscendingUnique
<1> QED BY <1>9

\* Without sort keys, find's order is that of the row ids.
LEMMA UnsortedOrder ==
    ASSUME NEW q, q.sort = <<>>, NEW S
    PROVE  InOrder(q, S) = Ascending(S)
<1>1. \A a, b : Precedes(q, a, b) <=> a < b
  BY DEF Precedes
<1> QED BY <1>1 DEF InOrder, Ascending, Ordered

-----------------------------------------------------------------------------
(* Filters. *)

LEMMA EqualOnly == \A a, b : Compare(a, b) = Equal <=> a = b
BY DEF Compare, Equal, Less, Greater, Incomparable

\* What the raw evaluation decides is what the full one would say.
LEMMA RawAgrees ==
    ASSUME NEW f \in FilterType, NEW v
    PROVE  Passes(f, v) <=> Matches(f, v)
<1>1. CASE f.op = "In"
  <2> DEFINE stops == {i \in DOMAIN f.list : f.list[i] = v \/ TypeOf(f.list[i]) # TypeOf(v)}
  <2>1. Matches(f, v) <=> \E i \in DOMAIN f.list : f.list[i] = v
    BY <1>1, EqualOnly DEF Matches
  <2>2. EvalRaw(f, v) = EvalRawIn(f.list, v)
    BY <1>1 DEF EvalRaw
  <2>3. CASE f.list = <<>>
    <3>1. EvalRaw(f, v) = {FALSE}
      BY <2>2, <2>3 DEF EvalRawIn
    <3>2. ~Matches(f, v)
      BY <2>1, <2>3
    <3>3. ~Passes(f, v)
      BY <3>1, Zenon DEF Passes
    <3> QED BY <3>2, <3>3
  <2>4. CASE EvalRaw(f, v) = {}
    BY <2>4 DEF Passes
  <2>5. CASE stops = {} /\ EvalRaw(f, v) = {FALSE}
    BY <2>1, <2>5 DEF Passes
  <2>6. CASE stops # {} /\ EvalRaw(f, v) = {TRUE} /\ f.list[Min(stops)] = v
    <3>1. f.list \in Seq(Value)
      BY DEF FilterType
    <3>2. Min(stops) \in stops
      <4>1. stops \subseteq Nat
        BY <3>1
      <4> HIDE DEF stops
      <4> QED BY <2>6, <4>1, MinIs
    <3> QED BY <2>1, <2>6, <3>2 DEF Passes
  <2>7. EvalRaw(f, v) = IF f.list = <<>> THEN {FALSE} ELSE IF v = Null THEN {} ELSE IF stops = {} THEN {FALSE}
                        ELSE IF f.list[Min(stops)] = v THEN {TRUE} ELSE {}
    BY <2>2 DEF EvalRawIn
  <2> HIDE DEF stops
  <2>8. CASE f.list # <<>> /\ v # Null /\ stops = {}
    BY <2>5, <2>7, <2>8
  <2>9. CASE f.list # <<>> /\ v # Null /\ stops # {} /\ f.list[Min(stops)] = v
    BY <2>6, <2>7, <2>9
  <2>10. CASE v = Null \/ (f.list # <<>> /\ stops # {} /\ f.list[Min(stops)] # v)
    BY <2>3, <2>4, <2>7, <2>10
  <2> QED BY <2>3, <2>8, <2>9, <2>10
<1>2. CASE f.op = "IsNull"
  BY <1>2 DEF Passes, EvalRaw, Matches
<1>3. CASE f.op = "IsNotNull"
  BY <1>3 DEF Passes, EvalRaw, Matches
<1>4. CASE f.op \notin {"In", "IsNull", "IsNotNull"}
  <2>1. Matches(f, v) <=> Compare(v, f.value) \in Accepts[f.op]
    BY <1>4 DEF Matches
  <2>2. EvalRaw(f, v) = IF TypeOf(v) = "Integer" /\ TypeOf(f.value) = "Integer" THEN {Compare(v, f.value) \in Accepts[f.op]}
                        ELSE IF TypeOf(v) = "Text" /\ TypeOf(f.value) = "Text" /\ f.op = "Eq" THEN {v = f.value}
                        ELSE {}
    BY <1>4 DEF EvalRaw
  <2>3. f.op = "Eq" => (Compare(v, f.value) \in Accepts[f.op] <=> v = f.value)
    BY EqualOnly DEF Accepts
  <2> QED BY <2>1, <2>2, <2>3 DEF Passes
<1> QED BY <1>1, <1>2, <1>3, <1>4

\* Whether a row passes a filter, by the value a caller reads.
Reads(f, id) == Matches(f, IF f.col = AutoIdCol THEN <<"Integer", id>> ELSE Get(rows[id], f.col))

LEMMA FilterReads ==
    ASSUME TableInv, NEW f \in FilterType, f.col = AutoIdCol \/ Plain(f.col), NEW id
    PROVE  FilterMatchesRow(f, id, rows[id]) <=> Reads(f, id)
<1>1. CASE f.col = AutoIdCol
  BY <1>1 DEF FilterMatchesRow, Reads
<1>2. CASE f.col # AutoIdCol
  <2> DEFINE i == colId[f.col]
  <2>1. f.col \in Live /\ columns[i].default = NoDefault
    BY <1>2 DEF Plain
  <2>2. Get(rows[id], f.col) = Stored(rows[id], i)
    BY <2>1, GetIs DEF TableInv, SchemaInv, ReadAt
  <2>3. CASE i \in DOMAIN rows[id]
    BY <1>2, <2>1, <2>2, <2>3, RawAgrees DEF FilterMatchesRow, Reads, Stored
  <2>4. CASE i \notin DOMAIN rows[id]
    BY <1>2, <2>1, <2>2, <2>4 DEF FilterMatchesRow, Reads, Stored, Column
  <2> QED BY <2>3, <2>4
<1> QED BY <1>1, <1>2

\* The first index on a plain column has the column's value of each row as key.
LEMMA ScannedIs ==
    ASSUME TableInv, ~retyped, NEW c, Plain(c), IndexesOn(c) # {}, NEW v, TypeOf(v) = ColType(c)
    PROVE  Scanned(c, v) = {[prefix |-> <<v>>, id |-> id] : id \in {i \in DOMAIN rows : Stored(rows[i], colId[c]) = v}}
<1> DEFINE n == FirstIndexOn(c)
           cols == indexes[n].columns
           value(id) == Stored(rows[id], colId[c])
           typed(id) == TypeOf(value(id)) = columns[colId[c]].type
<1>1. n \in IndexesOn(c)
  <2>1. IndexesOn(c) \subseteq Nat
    BY DEF TableInv, IndexesTyped, IndexesOn
  <2> QED BY <2>1, LeastNat DEF FirstIndexOn
<1>2. n \in DOMAIN indexes /\ cols[1] = c /\ Len(cols) = 1 /\ cols \in Seq(Names)
  BY <1>1 DEF IndexesOn, Plain, TableInv, IndexesTyped
<1>3. cols = <<c>>
  BY <1>2
<1>4. indexes[n].keys = AllKeys(columns, colId, cols, rows)
  BY <1>2 DEF TableInv, IndexesHold
<1>5. ColType(c) = columns[colId[c]].type
  BY ColTypeIs DEF TableInv, SchemaInv, Plain
<1> HIDE DEF n, cols
<1>6. \A id : TupleIn(columns, colId, cols, rows[id]) = IF typed(id) THEN <<value(id)>> ELSE <<>>
  BY <1>3 DEF TupleIn
<1>10. \A id : value(id) = v => typed(id)
  BY <1>5
<1> HIDE DEF value, typed
<1>7. \A id : KeysIn(columns, colId, cols, id, rows[id])
                = IF typed(id) THEN {[prefix |-> <<value(id)>>, id |-> id]} ELSE {}
  <2>1. \A x : <<x>> # <<>>
    OBVIOUS
  <2> QED BY <1>6, <2>1 DEF KeysIn
<1>8. \A k : k \in indexes[n].keys <=> \E id \in DOMAIN rows : typed(id) /\ k = [prefix |-> <<value(id)>>, id |-> id]
  <2>1. \A k : k \in indexes[n].keys <=> \E id \in DOMAIN rows : k \in KeysIn(columns, colId, cols, id, rows[id])
    BY <1>4 DEF AllKeys
  <2>2. \A k, id : k \in KeysIn(columns, colId, cols, id, rows[id])
                     <=> typed(id) /\ k = [prefix |-> <<value(id)>>, id |-> id]
    <3> TAKE k, id
    <3>1. CASE typed(id)
      <4>1. KeysIn(columns, colId, cols, id, rows[id]) = {[prefix |-> <<value(id)>>, id |-> id]}
        BY <1>7, <3>1
      <4> QED BY <3>1, <4>1
    <3>2. CASE ~typed(id)
      BY <1>7, <3>2
    <3> QED BY <3>1, <3>2
  <2> QED BY <2>1, <2>2, Zenon
<1>9. Scanned(c, v) = {k \in indexes[n].keys : k.prefix[1] = v}
  BY DEF Scanned, n
<1>11. Scanned(c, v) = {[prefix |-> <<v>>, id |-> id] : id \in {i \in DOMAIN rows : value(i) = v}}
  BY <1>8, <1>9, <1>10
<1> QED BY <1>11 DEF value

\* What an equality or In filter finds in the index is what it would by the rows.
LEMMA IndexedRows ==
    ASSUME TableInv, ~retyped, NEW c, Plain(c), IndexesOn(c) # {}, NEW v, TypeOf(v) = ColType(c)
    PROVE  /\ UNION {ExtractRowid(c, k) : k \in Scanned(c, v)} = {id \in DOMAIN rows : Get(rows[id], c) = v}
           /\ Cardinality(Scanned(c, v)) = Cardinality({id \in DOMAIN rows : Get(rows[id], c) = v})
<1> DEFINE ids == {id \in DOMAIN rows : Get(rows[id], c) = v}
           key(id) == [prefix |-> <<v>>, id |-> id]
<1>1. \A id : Get(rows[id], c) = Stored(rows[id], colId[c])
  BY GetIs DEF TableInv, SchemaInv, ReadAt, Plain
<1>2. Scanned(c, v) = {key(id) : id \in ids}
  BY <1>1, ScannedIs
<1>3. \A id : ExtractRowid(c, key(id)) = {id}
  BY DEF ExtractRowid
<1>4. UNION {ExtractRowid(c, k) : k \in Scanned(c, v)} = ids
  <2> HIDE DEF ids, key
  <2> QED BY <1>2, <1>3
<1>5. IsFiniteSet(ids)
  BY RowsFinite DEF TableInv, RowsInv
<1> DEFINE f == [id \in ids |-> key(id)]
<1>6. f \in Bijection(ids, Scanned(c, v))
  <2>1. \A i, j : key(i) = key(j) => i = j
    OBVIOUS
  <2> HIDE DEF ids, key
  <2> QED BY <1>2, <2>1 DEF Bijection, Injection, Surjection, IsInjective
<1>7. Cardinality(Scanned(c, v)) = Cardinality(ids)
  BY <1>5, <1>6, FS_Bijection DEF ExistsBijection
<1> QED BY <1>4, <1>7

-----------------------------------------------------------------------------
(* Queries. *)

LEMMA NotIndexed ==
    ASSUME TableInv
    PROVE  IndexesOn(AutoIdCol) = {}
<1>1. SUFFICES ASSUME NEW n \in DOMAIN indexes, indexes[n].columns[1] = AutoIdCol
               PROVE  FALSE
  BY DEF IndexesOn
<1>2. indexes[n].columns \in Seq(Names) /\ indexes[n].columns # <<>>
  BY DEF TableInv, IndexesTyped
<1> QED BY <1>1, <1>2, NamesAssumption

LEMMA QueryTyped ==
    ASSUME TableInv, NEW q \in Work.queries
    PROVE  /\ q.filters \in Seq(FilterType) /\ q.groups \in Seq(Seq(FilterType))
           /\ q.offset \in Nat /\ (q.limit # NoLimit => q.limit \in Nat)
BY QueriesAssumption DEF TableInv, Work

LEMMA SamePart ==
    ASSUME NEW S, NEW s \in Seq(S), NEW c \in Seq(S), NEW o \in Nat, NEW b \in Nat, b <= Len(s), b <= Len(c),
           \A i \in 1 .. b : c[i] = s[i]
    PROVE  SubSeq(c, o + 1, b) = SubSeq(s, o + 1, b)
<1> DEFINE x == SubSeq(c, o + 1, b)
           y == SubSeq(s, o + 1, b)
<1>1. \A i \in o + 1 .. b : c[i] \in S /\ s[i] \in S
  OBVIOUS
<1>2. /\ x \in Seq(S) /\ Len(x) = IF o + 1 <= b THEN b - (o + 1) + 1 ELSE 0
      /\ \A i \in 1 .. b - (o + 1) + 1 : x[i] = c[o + 1 + i - 1]
  BY <1>1, SubSeqProperties
<1>3. /\ y \in Seq(S) /\ Len(y) = IF o + 1 <= b THEN b - (o + 1) + 1 ELSE 0
      /\ \A i \in 1 .. b - (o + 1) + 1 : y[i] = s[o + 1 + i - 1]
  BY <1>1, SubSeqProperties
<1> HIDE DEF x, y
<1>4. Len(x) = Len(y) /\ \A i \in 1 .. Len(x) : x[i] = y[i]
  BY <1>2, <1>3
<1>5. x = y
  BY <1>2, <1>3, <1>4, SeqEqual
<1> QED BY <1>5 DEF x, y

\* What find's cut leaves out, skip and take leave out anyway.
LEMMA CutThenSliced ==
    ASSUME NEW q, q.offset \in Nat, q.limit # NoLimit => q.limit \in Nat, NEW S, NEW s \in Seq(S)
    PROVE  /\ Slice(q, Stopped(q, s)) = Slice(q, s)
           /\ q.total \/ q.sort # <<>> => Stopped(q, s) = s
           /\ Stopped(q, s) \in Seq(S)
<1>1. CASE q.sort = <<>> /\ ~q.total /\ q.limit # NoLimit
  <2> DEFINE e == q.offset + q.limit
             b == Min({e, Len(s)})
             c == SubSeq(s, 1, b)
  <2>1. e \in Nat /\ Len(s) \in Nat
    BY <1>1
  <2>2. b \in {e, Len(s)} /\ b <= e /\ b <= Len(s)
    <3> HIDE DEF e
    <3> QED BY <2>1, MinIs
  <2>3. c \in Seq(S) /\ Len(c) = b /\ \A i \in 1 .. b : c[i] = s[i]
    <3>1. b \in Nat /\ 1 \in 1 .. Len(s) + 1 /\ b \in 1 - 1 .. Len(s)
      BY <2>1, <2>2
    <3> HIDE DEF b
    <3> QED BY <3>1, SubSeqProperties
  <2>4. Stopped(q, s) = c
    BY <1>1 DEF Stopped, Needed
  <2>5. Min({e, Len(c)}) = b
    <3>1. Min({e, b}) \in {e, b} /\ Min({e, b}) <= e /\ Min({e, b}) <= b
      <4> HIDE DEF e, b
      <4> QED BY <2>1, <2>2, MinIs
    <3> QED BY <2>1, <2>2, <2>3, <3>1
  <2>6. Slice(q, s) = SubSeq(s, q.offset + 1, b) /\ Slice(q, c) = SubSeq(c, q.offset + 1, b)
    BY <1>1, <2>5 DEF Slice
  <2> HIDE DEF b, c, e
  <2>7. SubSeq(c, q.offset + 1, b) = SubSeq(s, q.offset + 1, b)
    <3>1. b \in Nat
      BY <2>1, <2>2
    <3>2. b <= Len(s) /\ b <= Len(c) /\ \A i \in 1 .. b : c[i] = s[i]
      BY <2>2, <2>3, <3>1
    <3>3. \A o \in Nat : SubSeq(c, o + 1, b) = SubSeq(s, o + 1, b)
      BY <2>3, <3>1, <3>2, SamePart
    <3> QED BY <3>3
  <2> QED BY <1>1, <2>3, <2>4, <2>6, <2>7
<1>2. CASE ~(q.sort = <<>> /\ ~q.total /\ q.limit # NoLimit)
  BY <1>2 DEF Stopped
<1> QED BY <1>1, <1>2

\* A cut leaves the sequence ascending.
LEMMA CutOrdered ==
    ASSUME NEW q, q.offset \in Nat, q.limit # NoLimit => q.limit \in Nat, NEW S, S \subseteq Nat, IsFiniteSet(S)
    PROVE  Ascending(ToSet(Stopped(q, Ascending(S)))) = Stopped(q, Ascending(S))
<1> DEFINE s == Ascending(S)
           c == Stopped(q, s)
<1>1. s \in Seq(S) /\ \A i, j \in 1 .. Len(s) : i < j => s[i] < s[j]
  BY AscendingIs
<1>2. c \in Seq(S)
  BY <1>1, CutThenSliced
<1>3. \/ c = s
      \/ \E b \in 0 .. Len(s) : c = SubSeq(s, 1, b)
  <2> DEFINE e == q.offset + q.limit
             b == Min({e, Len(s)})
  <2>1. CASE q.sort = <<>> /\ ~q.total /\ q.limit # NoLimit
    <3>1. e \in Nat /\ Len(s) \in Nat
      BY <1>1, <2>1
    <3>2. b \in {e, Len(s)} /\ b <= Len(s)
      <4> HIDE DEF e, s
      <4> QED BY <3>1, MinIs
    <3>3. c = SubSeq(s, 1, b)
      BY <2>1 DEF Stopped, Needed
    <3>4. b \in 0 .. Len(s)
      <4> HIDE DEF b, e, s
      <4> QED BY <3>1, <3>2
    <3> QED BY <3>3, <3>4
  <2>2. CASE ~(q.sort = <<>> /\ ~q.total /\ q.limit # NoLimit)
    BY <2>2 DEF Stopped
  <2> QED BY <2>1, <2>2
<1> HIDE DEF s, c
<1>4. Len(c) <= Len(s) /\ \A i \in 1 .. Len(c) : c[i] = s[i]
  <2>1. CASE c = s
    BY <1>1, <2>1
  <2>2. ASSUME NEW b \in 0 .. Len(s), c = SubSeq(s, 1, b)
        PROVE  Len(c) <= Len(s) /\ \A i \in 1 .. Len(c) : c[i] = s[i]
    <3>1. \A i \in 1 .. b : s[i] \in S
      BY <1>1
    <3>2. Len(c) = (IF 1 <= b THEN b - 1 + 1 ELSE 0) /\ \A i \in 1 .. b - 1 + 1 : c[i] = s[1 + i - 1]
      BY <2>2, <3>1, SubSeqProperties
    <3> QED BY <1>1, <3>2
  <2> QED BY <1>3, <2>1, <2>2
<1>5. c \in Seq(Nat) /\ \A i, j \in 1 .. Len(c) : i < j => c[i] < c[j]
  <2>1. c \in Seq(Nat) /\ s \in Seq(Nat)
    BY <1>1, <1>2, NatSeq
  <2>2. \A i \in 1 .. Len(c) : i \in 1 .. Len(s) /\ c[i] = s[i]
    BY <1>4, <2>1
  <2> QED BY <1>1, <2>1, <2>2
<1>6. Ascending(ToSet(c)) = c
  BY <1>5, AscendingAgain
<1> QED BY <1>6 DEF c, s

\* The rows Answer has.
Wanted(filters, groups) ==
    {id \in DOMAIN rows : /\ \A f \in ToSet(filters) : Reads(f, id)
                          /\ groups = <<>> \/ \E g \in ToSet(groups) : \A f \in ToSet(g) : Reads(f, id)}

LEMMA AnswerIs ==
    ASSUME NEW q
    PROVE  Answer(q) = [rows |-> Slice(q, InOrder(q, Wanted(q.filters, q.groups))),
                        total |-> IF q.total THEN <<Cardinality(Wanted(q.filters, q.groups))>> ELSE <<>>,
                        count |-> Cardinality(Wanted(q.filters, q.groups))]
BY Zenon DEF Answer, Wanted, Reads

Exact(filters, groups) ==
    /\ filters \in Seq(FilterType) /\ groups \in Seq(Seq(FilterType))
    /\ \A f \in ToSet(filters) \cup UNION {ToSet(g) : g \in ToSet(groups)} :
          f.col = AutoIdCol \/ (Plain(f.col) /\ Encodable(f))

\* A scan finds them.
LEMMA PassingRows ==
    ASSUME TableInv, NEW filters, NEW groups, Exact(filters, groups)
    PROVE  {id \in DOMAIN rows : RowPasses(id, rows[id], filters, groups)} = Wanted(filters, groups)
<1> SUFFICES ASSUME NEW id
             PROVE  RowPasses(id, rows[id], filters, groups) <=>
                      /\ \A f \in ToSet(filters) : Reads(f, id)
                      /\ groups = <<>> \/ \E g \in ToSet(groups) : \A f \in ToSet(g) : Reads(f, id)
  BY DEF Wanted
<1>1. ASSUME NEW fs \in Seq(FilterType), \A f \in ToSet(fs) : f.col = AutoIdCol \/ Plain(f.col)
      PROVE  (\A i \in DOMAIN fs : FilterMatchesRow(fs[i], id, rows[id])) <=> \A f \in ToSet(fs) : Reads(f, id)
  <2>1. \A i \in DOMAIN fs : fs[i] \in FilterType /\ fs[i] \in ToSet(fs)
    BY DEF ToSet
  <2>2. \A i \in DOMAIN fs : FilterMatchesRow(fs[i], id, rows[id]) <=> Reads(fs[i], id)
    BY <1>1, <2>1, FilterReads
  <2> QED BY <2>2 DEF ToSet
<1>2. (\A i \in DOMAIN filters : FilterMatchesRow(filters[i], id, rows[id])) <=> \A f \in ToSet(filters) : Reads(f, id)
  BY <1>1 DEF Exact
<1>3. ASSUME NEW g \in ToSet(groups)
      PROVE  (\A i \in DOMAIN g : FilterMatchesRow(g[i], id, rows[id])) <=> \A f \in ToSet(g) : Reads(f, id)
  <2>1. g \in Seq(FilterType)
    BY DEF ToSet, Exact
  <2>2. \A f \in ToSet(g) : f.col = AutoIdCol \/ Plain(f.col)
    BY DEF Exact
  <2> QED BY <1>1, <2>1, <2>2
<1> QED BY <1>2, <1>3 DEF RowPasses

LEMMA ColumnsKnown ==
    ASSUME NEW filters, NEW groups, Exact(filters, groups)
    PROVE  ~NoColumn(filters, groups)
<1>1. SUFFICES ASSUME NoColumn(filters, groups) PROVE FALSE
  OBVIOUS
<1>2. Len(filters) = 1 /\ filters[1].col \notin Live \cup {AutoIdCol} /\ filters \in Seq(FilterType)
  BY <1>1 DEF NoColumn, Exact
<1>3. filters[1] \in ToSet(filters)
  BY <1>2 DEF ToSet
<1> QED BY <1>2, <1>3 DEF Exact, Plain

\* One equality or In filter on an indexed column.
LEMMA IndexFilterReads ==
    ASSUME TableInv, ~retyped, NEW f \in FilterType, f.op \in {"Eq", "In"}, IndexesOn(f.col) # {},
           Plain(f.col), Encodable(f)
    PROVE  /\ f.op = "Eq" => TypeOf(f.value) = ColType(f.col)
           /\ f.op = "Eq" => UNION {ExtractRowid(f.col, k) : k \in Scanned(f.col, f.value)} = {id \in DOMAIN rows : Reads(f, id)}
           /\ f.op = "Eq" => Cardinality(Scanned(f.col, f.value)) = Cardinality({id \in DOMAIN rows : Reads(f, id)})
           /\ f.op = "In" => UNION {UNION {ExtractRowid(f.col, k) : k \in Scanned(f.col, v)} : v \in ToSet(f.list)}
                               = {id \in DOMAIN rows : Reads(f, id)}
<1> DEFINE ids(v) == {id \in DOMAIN rows : Get(rows[id], f.col) = v}
           hits(v) == UNION {ExtractRowid(f.col, k) : k \in Scanned(f.col, v)}
<1>1. f.col # AutoIdCol
  BY NotIndexed
<1>2. CASE f.op = "Eq"
  <2>1. TypeOf(f.value) = ColType(f.col)
    BY <1>2 DEF Encodable
  <2>2. \A id : Reads(f, id) <=> Get(rows[id], f.col) = f.value
    BY <1>1, <1>2, EqualOnly DEF Reads, Matches, Accepts
  <2>3. {id \in DOMAIN rows : Reads(f, id)} = ids(f.value)
    BY <2>2
  <2> QED BY <1>2, <2>1, <2>3, IndexedRows
<1>3. CASE f.op = "In"
  <2>1. \A v \in ToSet(f.list) : TypeOf(v) = ColType(f.col)
    BY <1>3 DEF Encodable
  <2>2. \A v \in ToSet(f.list) : hits(v) = ids(v)
    BY <2>1, IndexedRows
  <2>3. \A id : Reads(f, id) <=> Get(rows[id], f.col) \in ToSet(f.list)
    BY <1>1, <1>3, EqualOnly DEF Reads, Matches, ToSet
  <2>4. UNION {hits(v) : v \in ToSet(f.list)} = {id \in DOMAIN rows : Reads(f, id)}
    <3>1. {hits(v) : v \in ToSet(f.list)} = {ids(v) : v \in ToSet(f.list)}
      BY <2>2
    <3>2. \A id : id \in UNION {ids(v) : v \in ToSet(f.list)} <=> id \in DOMAIN rows /\ Get(rows[id], f.col) \in ToSet(f.list)
      OBVIOUS
    <3> HIDE DEF hits
    <3> QED BY <2>3, <3>1, <3>2
  <2> QED BY <1>3, <2>4
<1> QED BY <1>2, <1>3

LEMMA SomeFinite == \A S : TableInv /\ S \subseteq DOMAIN rows => IsFiniteSet(S) /\ S \subseteq Nat
<1> SUFFICES ASSUME TableInv, NEW S, S \subseteq DOMAIN rows PROVE IsFiniteSet(S) /\ S \subseteq Nat
  OBVIOUS
<1>1. S \subseteq RowIds
  BY DEF TableInv, RowsInv
<1> QED BY <1>1, RowsFinite DEF TableInv, RowIds

\* The rows find finds, before it sorts and slices them.
LEMMA FoundRows ==
    ASSUME TableInv, ~retyped, NEW q \in Work.queries, Exact(q.filters, q.groups), ~CutTooEarly(q)
    PROVE  \/ Found(q) = Ascending(Wanted(q.filters, q.groups))
           \/ Found(q) = Stopped(q, Ascending(Wanted(q.filters, q.groups)))
<1> DEFINE W == Wanted(q.filters, q.groups)
           i == IndexFilter(q)
           f == q.filters[i]
<1>1. CASE i = 0
  BY <1>1, PassingRows, ColumnsKnown DEF Found
<1>2. CASE i # 0
  <2>1. /\ q.groups = <<>> /\ i \in DOMAIN q.filters /\ f.op \in {"Eq", "In"} /\ IndexesOn(f.col) # {}
    <3> DEFINE usable == {k \in DOMAIN q.filters : q.filters[k].op \in {"Eq", "In"} /\ IndexesOn(q.filters[k].col) # {}}
    <3>1. usable \subseteq Nat
      BY QueryTyped
    <3>2. i = IF q.groups # <<>> \/ usable = {} THEN 0 ELSE Min(usable)
      BY DEF IndexFilter
    <3>3. i \in usable /\ q.groups = <<>>
      <4> HIDE DEF usable, i
      <4> QED BY <1>2, <3>1, <3>2, MinIs
    <3> QED BY <3>3
  <2>2. f \in FilterType /\ f \in ToSet(q.filters)
    BY <2>1, QueryTyped DEF ToSet
  <2>3. f.col # AutoIdCol
    BY <2>1, NotIndexed
  <2>4. Plain(f.col) /\ Encodable(f)
    BY <2>2, <2>3 DEF Exact
  <2> DEFINE R == {id \in DOMAIN rows : Reads(f, id)}
  <2>5. R \subseteq DOMAIN rows /\ W \subseteq R
    BY <2>2 DEF Wanted
  <2>6. ToSet(Ascending(R)) = R /\ Ascending(R) \in Seq(R)
    BY <2>5, SomeFinite, AscendingIs
  <2>7. FromIndex(q, f) = IF f.op = "In" THEN Ascending(R) ELSE Stopped(q, Ascending(R))
    BY <2>1, <2>2, <2>4, IndexFilterReads DEF FromIndex
  <2> DEFINE ids == ToSet(FromIndex(q, f)) \cap DOMAIN rows
  <2>8. Found(q) = Ascending(IF Len(q.filters) > 1 THEN {id \in ids : RowPasses(id, rows[id], q.filters, q.groups)} ELSE ids)
    BY <1>2 DEF Found
  <2>9. CASE Len(q.filters) > 1
    <3>1. FromIndex(q, f) = Ascending(R)
      <4>1. f.op = "Eq" => Stopped(q, Ascending(R)) = Ascending(R)
        BY <1>2, <2>9 DEF CutTooEarly, Stopped
      <4> QED BY <2>1, <2>7, <4>1
    <3>2. ids = R
      BY <2>5, <2>6, <3>1
    <3>3. {id \in R : RowPasses(id, rows[id], q.filters, q.groups)} = W
      BY <2>5, PassingRows
    <3> QED BY <2>8, <2>9, <3>2, <3>3
  <2>10. CASE ~(Len(q.filters) > 1)
    <3>1. Len(q.filters) = 1 /\ i = 1
      <4>1. Len(q.filters) \in Nat /\ i \in 1 .. Len(q.filters)
        BY <2>1, QueryTyped
      <4>2. ASSUME NEW n \in Nat, NEW j \in 1 .. n, ~(n > 1) PROVE n = 1 /\ j = 1
        BY <4>2
      <4> QED BY <2>10, <4>1, <4>2, Zenon
    <3>2. ToSet(q.filters) = {f}
      BY <3>1, QueryTyped DEF ToSet
    <3>3. W = R
      BY <2>1, <3>2 DEF Wanted
    <3>4. CASE f.op = "In"
      <4>1. ids = R
        BY <2>5, <2>6, <2>7, <3>4
      <4> QED BY <2>8, <2>10, <3>3, <4>1
    <3>5. CASE f.op = "Eq"
      <4> DEFINE s == Stopped(q, Ascending(R))
      <4>1. ids = ToSet(s)
        <5>1. ToSet(s) \subseteq R
          BY <2>6, QueryTyped, CutThenSliced DEF ToSet
        <5> QED BY <2>5, <2>7, <3>5, <5>1
      <4>2. Ascending(ToSet(s)) = s
        BY <2>5, SomeFinite, CutOrdered, QueryTyped
      <4> QED BY <2>8, <2>10, <3>3, <4>1, <4>2
    <3> QED BY <2>1, <3>4, <3>5
  <2> QED BY <2>9, <2>10
<1> QED BY <1>1, <1>2

LEMMA CountIs ==
    ASSUME TableInv, ~retyped, NEW filters, NEW groups, Exact(filters, groups)
    PROVE  Count(filters, groups) = Cardinality(Wanted(filters, groups))
<1> DEFINE f == filters[1]
<1>1. CASE filters = <<>> /\ groups = <<>>
  <2>1. Wanted(filters, groups) = DOMAIN rows
    <3>1. ToSet(filters) = {}
      BY <1>1 DEF ToSet
    <3> QED BY <1>1, <3>1 DEF Wanted
  <2> QED BY <1>1, <2>1 DEF Count, TableInv, RowsInv
<1>2. CASE /\ ~(filters = <<>> /\ groups = <<>>)
           /\ groups = <<>> /\ Len(filters) = 1 /\ f.op = "Eq"
           /\ IndexesOn(f.col) # {} /\ TypeOf(f.value) = ColType(f.col)
  <2>1. Count(filters, groups) = Cardinality(Scanned(f.col, f.value))
    BY <1>2, Zenon DEF Count
  <2>2. f \in FilterType /\ ToSet(filters) = {f}
    BY <1>2 DEF Exact, ToSet
  <2>3. Plain(f.col) /\ Encodable(f)
    BY <1>2, <2>2, NotIndexed DEF Exact
  <2>4. Count(filters, groups) = Cardinality({id \in DOMAIN rows : Reads(f, id)})
    BY <1>2, <2>1, <2>2, <2>3, IndexFilterReads
  <2>5. Wanted(filters, groups) = {id \in DOMAIN rows : Reads(f, id)}
    BY <1>2, <2>2 DEF Wanted
  <2> QED BY <2>4, <2>5
<1>3. CASE /\ ~(filters = <<>> /\ groups = <<>>)
           /\ ~(/\ groups = <<>> /\ Len(filters) = 1 /\ f.op = "Eq"
                /\ IndexesOn(f.col) # {} /\ TypeOf(f.value) = ColType(f.col))
  <2>1. Count(filters, groups) = Cardinality({id \in DOMAIN rows : RowPasses(id, rows[id], filters, groups)})
    BY <1>3, ColumnsKnown, Zenon DEF Count
  <2> QED BY <2>1, PassingRows
<1> QED BY <1>1, <1>2, <1>3

LEMMA QueryExact ==
    ASSUME TableInv, ~retyped, NEW q \in Work.queries, Exact(q.filters, q.groups), ~CutTooEarly(q)
    PROVE  /\ Find(q) = [rows |-> Answer(q).rows, total |-> Answer(q).total]
           /\ Count(q.filters, q.groups) = Answer(q).count
<1> DEFINE W == Wanted(q.filters, q.groups)
           s == Ascending(W)
           c == Stopped(q, s)
<1>1. W \subseteq Nat /\ IsFiniteSet(W)
  BY SomeFinite DEF Wanted
<1> HIDE DEF W
<1>2. s \in Seq(W) /\ Len(s) = Cardinality(W) /\ ToSet(s) = W
  BY <1>1, AscendingIs
<1>3. /\ Slice(q, c) = Slice(q, s)
      /\ q.total \/ q.sort # <<>> => c = s
  BY <1>2, QueryTyped, CutThenSliced
<1>4. Found(q) \in {s, c}
  BY FoundRows DEF W
<1>5. Find(q) = [rows |-> Slice(q, IF q.sort = <<>> THEN Found(q) ELSE InOrder(q, ToSet(Found(q)))),
                 total |-> IF q.total THEN <<Len(Found(q))>> ELSE <<>>]
  BY DEF Find
<1>6. Answer(q) = [rows |-> Slice(q, InOrder(q, W)), total |-> IF q.total THEN <<Cardinality(W)>> ELSE <<>>,
                   count |-> Cardinality(W)]
  BY AnswerIs DEF W
<1>7. Slice(q, IF q.sort = <<>> THEN Found(q) ELSE InOrder(q, ToSet(Found(q)))) = Slice(q, InOrder(q, W))
  <2>1. CASE q.sort = <<>>
    <3>1. InOrder(q, W) = s
      BY <2>1, UnsortedOrder
    <3> HIDE DEF s, c
    <3> QED BY <1>3, <1>4, <2>1, <3>1
  <2>2. CASE q.sort # <<>>
    <3> HIDE DEF s, c
    <3> QED BY <1>2, <1>3, <1>4, <2>2
  <2> QED BY <2>1, <2>2
<1>8. (IF q.total THEN <<Len(Found(q))>> ELSE <<>>) = IF q.total THEN <<Cardinality(W)>> ELSE <<>>
  <2> HIDE DEF s, c
  <2> QED BY <1>2, <1>3, <1>4
<1>9. Count(q.filters, q.groups) = Cardinality(W)
  BY CountIs DEF W
<1> QED BY <1>5, <1>6, <1>7, <1>8, <1>9

LEMMA QueriesExactHere == TableInv => QueriesExact
<1> SUFFICES ASSUME TableInv, ~retyped, NEW q \in Work.queries,
                    \A f \in ToSet(q.filters) \cup UNION {ToSet(g) : g \in ToSet(q.groups)} :
                        f.col = AutoIdCol \/ (Plain(f.col) /\ Encodable(f)),
                    ~CutTooEarly(q)
             PROVE  /\ Find(q) = [rows |-> Answer(q).rows, total |-> Answer(q).total]
                    /\ Count(q.filters, q.groups) = Answer(q).count
  BY DEF QueriesExact
<1>1. Exact(q.filters, q.groups)
  BY QueryTyped DEF Exact
<1> QED BY <1>1, QueryExact

\* On plain columns find and count give what the documented predicate asks for,
\* through an index as by a scan, after any history of row and schema changes in
\* which no insert_many fails in the middle of its rows.
THEOREM QueriesAnswered == TxSpec => []QueriesExact
<1>1. HistoryInv => QueriesExact
  <2>1. CASE halfDone
    BY <2>1 DEF QueriesExact
  <2>2. CASE ~halfDone
    BY <2>2, QueriesExactHere DEF HistoryInv
  <2> QED BY <2>1, <2>2
<1> QED BY <1>1, TableInvariant, PTL

-----------------------------------------------------------------------------
(* What rows hold. *)

Typed(rs) == \A id \in DOMAIN rs : \A i \in DOMAIN rs[id] : rs[id][i] \in Value

ArgTyped(d) == \A n \in DOMAIN d \cap Live : d[n] \in Value

ValuesInv == Typed(rows) /\ (Open => Typed(T.rows))

LEMMA DataTyped ==
    ASSUME TableInv, NEW d \in Work.data
    PROVE  ArgTyped(d)
BY ValuesAssumption DEF TableInv, Work, ArgTyped

LEMMA EncodeTyped ==
    ASSUME NEW d, ArgTyped(d)
    PROVE  \A i \in DOMAIN Encode(d) : Encode(d)[i] \in Value
<1> SUFFICES ASSUME NEW i \in DOMAIN Encode(d) PROVE Encode(d)[i] \in Value
  OBVIOUS
<1>1. \E n \in DOMAIN d \cap Live : colId[n] = i
  BY DEF Encode
<1>2. Encode(d)[i] = d[CHOOSE n \in DOMAIN d \cap Live : colId[n] = i]
  BY DEF Encode
<1> DEFINE n == CHOOSE n \in DOMAIN d \cap Live : colId[n] = i
<1>3. n \in DOMAIN d \cap Live
  BY <1>1
<1> QED BY <1>2, <1>3 DEF ArgTyped

LEMMA MergedTyped ==
    ASSUME NEW d, ArgTyped(d), NEW r, \A i \in DOMAIN r : r[i] \in Value
    PROVE  /\ \A i \in DOMAIN Merged(r, d) : Merged(r, d)[i] \in Value
           /\ \A i \in DOMAIN Patched(r, d) : Patched(r, d)[i] \in Value
BY EncodeTyped DEF Merged, Patched

LEMMA WithTyped ==
    ASSUME NEW rs, Typed(rs), NEW S, NEW new, Typed(new)
    PROVE  Typed(With(Without(rs, S), new))
BY DEF Typed, With, Without

\* The rows of a new or changed set.
LEMMA NewTyped ==
    ASSUME NEW rs, Typed(rs), NEW d, ArgTyped(d), NEW S
    PROVE  /\ Typed(<<>>)
           /\ Typed([i \in S |-> Encode(d)])
           /\ S \subseteq DOMAIN rs => /\ Typed([i \in S |-> Merged(rs[i], d)])
                                       /\ Typed([i \in S |-> Patched(rs[i], d)])
<1>1. Typed(<<>>) /\ Typed([i \in S |-> Encode(d)])
  BY EncodeTyped DEF Typed
<1>2. ASSUME S \subseteq DOMAIN rs
      PROVE  Typed([i \in S |-> Merged(rs[i], d)]) /\ Typed([i \in S |-> Patched(rs[i], d)])
  <2>1. \A i \in S : \A k \in DOMAIN rs[i] : rs[i][k] \in Value
    BY <1>2 DEF Typed
  <2>2. \A i \in S : /\ \A k \in DOMAIN Merged(rs[i], d) : Merged(rs[i], d)[k] \in Value
                     /\ \A k \in DOMAIN Patched(rs[i], d) : Patched(rs[i], d)[k] \in Value
    BY <2>1, MergedTyped
  <2> QED BY <2>2 DEF Typed
<1> QED BY <1>1, <1>2

LEMMA StoreTyped ==
    ASSUME Typed(rows), NEW old, NEW new, Typed(new), Store(old, new)
    PROVE  Typed(rows)'
BY WithTyped DEF Store, Typed, With, Without

\* The table's own operations.
LEMMA StepTyped ==
    ASSUME TableInv, Typed(rows), Step
    PROVE  Typed(rows)'
<1>1. ASSUME UNCHANGED rows PROVE Typed(rows)'
  BY <1>1 DEF Typed
<1>2. ASSUME NEW d \in Work.data, Insert(d) \/ InsertTooLarge(d) PROVE Typed(rows)'
  BY <1>1, <1>2, DataTyped, NewTyped, StoreTyped DEF Insert, InsertTooLarge
<1>3. ASSUME NEW id \in RowIds, NEW d \in Work.data, InsertWithId(id, d) PROVE Typed(rows)'
  BY <1>3, DataTyped, NewTyped, StoreTyped DEF InsertWithId
<1>4. ASSUME NEW d \in Work.data, NEW e \in Work.data, InsertMany(d, e) PROVE Typed(rows)'
  <2> DEFINE new == [id \in {next, next + 1} |-> IF id = next THEN Encode(d) ELSE Encode(e)]
  <2>1. Typed(new)
    BY DataTyped, EncodeTyped DEF Typed
  <2>2. Store(<<>>, new)
    BY <1>4 DEF InsertMany
  <2> QED BY <2>1, <2>2, StoreTyped
<1>5. ASSUME NEW id \in RowIds, NEW d \in Work.data, Update(id, d) PROVE Typed(rows)'
  <2>1. {id} \subseteq DOMAIN rows /\ Store(Only(rows, {id}), [i \in {id} |-> Merged(rows[id], d)])
    BY <1>5 DEF Update
  <2>2. [i \in {id} |-> Merged(rows[id], d)] = [i \in {id} |-> Merged(rows[i], d)]
    OBVIOUS
  <2> DEFINE old == Only(rows, {id})
             new == [i \in {id} |-> Merged(rows[i], d)]
  <2>3. Typed(new)
    BY <2>1, DataTyped, NewTyped
  <2>4. Store(old, new) /\ Typed(new)
    BY <2>1, <2>2, <2>3
  <2> HIDE DEF old, new
  <2>5. \A o, n : Typed(n) /\ Store(o, n) => Typed(rows)'
    BY StoreTyped
  <2> QED BY ONLY <2>4, <2>5
<1>6. ASSUME NEW fs, NEW d \in Work.data, UpdateWhere(fs, d) PROVE Typed(rows)'
  <2>1. Where(fs) \subseteq DOMAIN rows
    BY DEF Where
  <2>2. Typed([i \in Where(fs) |-> Patched(rows[i], d)])
    BY <2>1, DataTyped, NewTyped
  <2>3. Store(Only(rows, Where(fs)), [i \in Where(fs) |-> Patched(rows[i], d)])
    BY <1>6 DEF UpdateWhere
  <2> DEFINE old == Only(rows, Where(fs))
             new == [i \in Where(fs) |-> Patched(rows[i], d)]
  <2>4. Store(old, new) /\ Typed(new)
    BY <2>2, <2>3
  <2> HIDE DEF old, new
  <2>5. \A o, n : Typed(n) /\ Store(o, n) => Typed(rows)'
    BY StoreTyped
  <2> QED BY ONLY <2>4, <2>5
<1>7. ASSUME NEW old, Store(old, <<>>) PROVE Typed(rows)'
  <2>1. Typed(<<>>)
    BY DEF Typed
  <2> QED BY <1>7, <2>1, StoreTyped
<1>8. ASSUME NEW id, Delete(id) PROVE Typed(rows)'
  BY <1>7, <1>8 DEF Delete
<1>9. ASSUME NEW fs, DeleteWhere(fs) PROVE Typed(rows)'
  BY <1>7, <1>9 DEF DeleteWhere
<1>10. ASSUME \/ \E n \in Work.names, def \in Work.defs : CreateIndex(n, def)
              \/ \E n \in Work.names : DropIndex(n)
              \/ \E n \in Names, ty \in Work.types, d \in Defaults, b \in BOOLEAN : AddColumn(n, ty, d, b)
              \/ \E old, new \in Names : RenameColumn(old, new)
              \/ \E n \in Names : DropColumn(n)
              \/ Reopen
       PROVE  Typed(rows)'
  <2>1. UNCHANGED rows
    BY <1>10 DEF CreateIndex, DropIndex, AddColumn, RenameColumn, DropColumn, Reopen
  <2> QED BY <1>1, <2>1
<1> QED BY <1>2, <1>3, <1>4, <1>5, <1>6, <1>8, <1>9, <1>10, Zenon DEF Step

LEMMA StagedTyped ==
    ASSUME NEW t, IsTx(t), Typed(t.rows), NEW old, NEW new, Typed(new)
    PROVE  IsTx(Staged(t, old, new)) /\ Typed(Staged(t, old, new).rows)
<1> DEFINE R == With(Without(t.rows, DOMAIN old), new)
           K == [n \in DOMAIN indexes |-> (t.keys[n] \ KeysOf(indexes[n], old)) \cup KeysOf(indexes[n], new)]
<1>1. Typed(R)
  BY WithTyped
<1>2. Staged(t, old, new) = [t EXCEPT !.rows = R, !.keys = K]
  BY DEF Staged
<1> HIDE DEF R, K
<1> QED BY <1>1, <1>2 DEF IsTx

LEMMA InsertedTyped ==
    ASSUME NEW t, IsTx(t), Typed(t.rows), NEW id, NEW d, ArgTyped(d), NEW nx
    PROVE  IsTx(Inserted(t, id, d, nx)) /\ Typed(Inserted(t, id, d, nx).rows)
<1> DEFINE s == Staged(t, <<>>, [i \in {id} |-> Encode(d)])
           q == UniqueTuples(Encode(d))
<1>1. IsTx(s) /\ Typed(s.rows)
  BY NewTyped, StagedTyped
<1>2. Inserted(t, id, d, nx) = [s EXCEPT !.added = s.added + 1, !.next = nx, !.seen = s.seen \cup q]
  BY DEF Inserted
<1> HIDE DEF s, q
<1> QED BY <1>1, <1>2 DEF IsTx

LEMMA UpdatedTyped ==
    ASSUME NEW t, IsTx(t), Typed(t.rows), NEW S, S \subseteq DOMAIN t.rows, NEW d, ArgTyped(d)
    PROVE  IsTx(Updated(t, S, d)) /\ Typed(Updated(t, S, d).rows)
<1> DEFINE s == Staged(t, Only(t.rows, S), [i \in S |-> Merged(t.rows[i], d)])
           b == s.loose \/ (S # {} /\ Touched(d))
<1>1. IsTx(s) /\ Typed(s.rows)
  BY NewTyped, StagedTyped
<1>2. Updated(t, S, d) = [s EXCEPT !.loose = b]
  BY DEF Updated
<1> HIDE DEF s, b
<1> QED BY <1>1, <1>2 DEF IsTx

LEMMA DeletedTyped ==
    ASSUME NEW t, IsTx(t), Typed(t.rows), NEW S
    PROVE  IsTx(Deleted(t, S)) /\ Typed(Deleted(t, S).rows)
<1> DEFINE s == Staged(t, Only(t.rows, S), <<>>)
<1>1. IsTx(s) /\ Typed(s.rows)
  <2>1. Typed(<<>>)
    BY DEF Typed
  <2> QED BY <2>1, StagedTyped
<1>2. Deleted(t, S) = [s EXCEPT !.added = s.added - Cardinality(S)]
  BY DEF Deleted
<1> HIDE DEF s
<1> QED BY <1>1, <1>2 DEF IsTx

LEMMA StageTyped ==
    ASSUME Typed(rows), NEW u, IsTx(u), Typed(u.rows), Stage(u)
    PROVE  ValuesInv'
<1>1. rows' = rows
  BY DEF Stage, table
<1>2. T' = [u EXCEPT !.steps = u.steps + 1]
  BY DEF Stage, T
<1>3. T'.rows = u.rows
  BY <1>2 DEF IsTx
<1> QED BY <1>1, <1>3 DEF ValuesInv, Typed

\* A counter that is there, or Null, and what is added to it.
LEMMA CounterTyped ==
    ASSUME TableInv, Typed(T.rows), NEW id \in DOMAIN T.rows, NEW c \in Live
    PROVE  Get(T.rows[id], c) \in Value
<1> DEFINE i == colId[c]
           r == T.rows[id]
<1>1. Get(r, c) = ReadAt(columns, i, r)
  BY GetIs DEF TableInv, SchemaInv
<1>2. i \in DOMAIN columns /\ columns[i] \in ColumnDef
  BY LiveSlot DEF TableInv, SchemaInv, MapsNames, Live
<1>3. columns[i].default # NoDefault => columns[i].default \in Value
  BY <1>2, ValuesAssumption DEF ColumnDef
<1>4. Stored(r, i) \in Value
  BY DEF Stored, Typed, Value
<1> QED BY <1>1, <1>3, <1>4 DEF ReadAt

LEMMA SumTyped ==
    ASSUME NEW v \in Value, TypeOf(v) # "Text"
    PROVE  Sum(v, 1) \in Value
BY DEF Value, Null, TypeOf, Sum

LEMMA TxStepTyped ==
    ASSUME TableInv, TxInv, ValuesInv, TxStep
    PROVE  ValuesInv'
<1>1. Typed(rows) /\ (Open => IsTx(T) /\ Typed(T.rows))
  BY DEF ValuesInv, TxInv, TxOK
<1>2. ASSUME Begin PROVE ValuesInv'
  <2>1. T'.rows = rows /\ rows' = rows
    BY <1>2 DEF Begin, Begun, T, table
  <2> QED BY <1>1, <2>1 DEF ValuesInv, Typed
<1>3. ASSUME Commit PROVE ValuesInv'
  <2>1. rows' = T.rows /\ Open /\ ~Open'
    BY <1>3 DEF Commit, Open
  <2> QED BY <1>1, <2>1 DEF ValuesInv, Typed
<1>4. ASSUME Rollback PROVE ValuesInv'
  <2>1. rows' = rows /\ ~Open'
    BY <1>4 DEF Rollback, Open, table
  <2> QED BY <1>1, <2>1 DEF ValuesInv, Typed
<1>5. ASSUME NEW d \in Work.data, TxInsert(d) PROVE ValuesInv'
  <2>1. Open /\ Stage(Inserted(T, T.next, d, T.next + 1))
    BY <1>5 DEF TxInsert, MayStage
  <2> QED BY <1>1, <2>1, DataTyped, InsertedTyped, StageTyped
<1>6. ASSUME NEW id, NEW d \in Work.data, TxInsertWithId(id, d) PROVE ValuesInv'
  <2> DEFINE q == UniqueTuples(Encode(d))
             w == [T EXCEPT !.seen = T.seen \cup q]
             nx == IF id >= T.next THEN id + 1 ELSE T.next
  <2>1. Open /\ Stage(IF id \in DOMAIN T.rows THEN w ELSE Inserted(T, id, d, nx))
    BY <1>6 DEF TxInsertWithId, MayStage
  <2>2. IsTx(w) /\ w.rows = T.rows
    <3> DEFINE z == T.seen \cup q
    <3>1. w = [T EXCEPT !.seen = z]
      OBVIOUS
    <3>2. IsTx(T)
      BY <1>1, <2>1
    <3> HIDE DEF w, q, z
    <3> QED BY <3>1, <3>2 DEF IsTx
  <2> HIDE DEF w, nx
  <2>3. IsTx(Inserted(T, id, d, nx)) /\ Typed(Inserted(T, id, d, nx).rows)
    BY <1>1, <2>1, DataTyped, InsertedTyped
  <2>4. CASE id \in DOMAIN T.rows
    BY <1>1, <2>1, <2>2, <2>4, StageTyped
  <2>5. CASE id \notin DOMAIN T.rows
    BY <1>1, <2>1, <2>3, <2>5, StageTyped
  <2> QED BY <2>4, <2>5
<1>7. ASSUME NEW d \in Work.data, NEW e \in Work.data, TxInsertMany(d, e) PROVE ValuesInv'
  <2> DEFINE u == Inserted(T, T.next, d, T.next + 1)
             w == Inserted(u, u.next, e, u.next + 1)
  <2>1. Open /\ Stage(IF Acceptable(u, e) THEN w ELSE u)
    BY <1>7 DEF TxInsertMany, MayStage
  <2>2. IsTx(u) /\ Typed(u.rows)
    BY <1>1, <2>1, DataTyped, InsertedTyped
  <2> HIDE DEF u
  <2>3. IsTx(w) /\ Typed(w.rows)
    BY <2>2, DataTyped, InsertedTyped
  <2> HIDE DEF w
  <2> QED BY <1>1, <2>1, <2>2, <2>3, StageTyped
<1>8. ASSUME NEW S, NEW d, ArgTyped(d), S \subseteq DOMAIN T.rows, Open, Stage(Updated(T, S, d)) PROVE ValuesInv'
  BY <1>1, <1>8, UpdatedTyped, StageTyped
<1>9. ASSUME NEW id, NEW d \in Work.data, TxUpdate(id, d) PROVE ValuesInv'
  <2>1. {id} \subseteq DOMAIN T.rows /\ Open /\ Stage(Updated(T, {id}, d))
    BY <1>9 DEF TxUpdate, MayStage
  <2> QED BY <1>8, <2>1, DataTyped
<1>10. ASSUME NEW fs, NEW d \in Work.data, TxUpdateWhere(fs, d) PROVE ValuesInv'
  <2>1. Matching(T, fs, <<>>) \subseteq DOMAIN T.rows /\ Open /\ Stage(Updated(T, Matching(T, fs, <<>>), d))
    BY <1>10 DEF TxUpdateWhere, MayStage, Matching
  <2> QED BY <1>8, <2>1, DataTyped
<1>11. ASSUME NEW S, Open, Stage(Deleted(T, S)) PROVE ValuesInv'
  BY <1>1, <1>11, DeletedTyped, StageTyped
<1>12. ASSUME NEW key, NEW set, ArgTyped(set), ArgTyped(With(key, set)), Open,
              \/ WithKey(key) # 0 /\ Stage(Updated(T, {WithKey(key)}, set))
              \/ Stage(Inserted(T, T.next, With(key, set), T.next + 1))
       PROVE  ValuesInv'
  <2>1. CASE WithKey(key) # 0 /\ Stage(Updated(T, {WithKey(key)}, set))
    <3>1. {WithKey(key)} \subseteq DOMAIN T.rows
      BY <2>1, <1>12, FoundRow DEF TxInv
    <3> QED BY <1>8, <1>12, <2>1, <3>1
  <2>2. CASE Stage(Inserted(T, T.next, With(key, set), T.next + 1))
    BY <1>1, <1>12, <2>2, InsertedTyped, StageTyped
  <2> QED BY <1>12, <2>1, <2>2
<1>13. ASSUME NEW u \in Work.upserts, Upsert(u.key, u.set) PROVE ValuesInv'
  <2>1. ArgTyped(u.set) /\ ArgTyped(With(u.key, u.set))
    BY UpsertsAssumption DEF TableInv, Work, ArgTyped, With
  <2> QED BY <1>12, <1>13, <2>1 DEF Upsert, MayStage
<1>14. ASSUME NEW u \in Work.upserts, UpsertIncrement(u.key, u.counter, 1, u.also) PROVE ValuesInv'
  <2> DEFINE id == WithKey(u.key)
             now == IF id = 0 THEN Null ELSE Get(T.rows[id], u.counter)
             set == With([c \in {u.counter} |-> Sum(now, 1)], u.also)
  <2>1. /\ Open /\ TypeOf(now) # "Text"
        /\ \/ id # 0 /\ Stage(Updated(T, {id}, set))
           \/ Stage(Inserted(T, T.next, With(u.key, set), T.next + 1))
    BY <1>14 DEF UpsertIncrement, MayStage
  <2>2. u.counter \in Live => now \in Value
    <3>1. id # 0 => id \in DOMAIN T.rows
      BY <2>1, FoundRow DEF TxInv
    <3>2. Null \in Value
      BY DEF Value
    <3> QED BY <1>1, <2>1, <3>1, <3>2, CounterTyped
  <2>3. u.counter \in Live => Sum(now, 1) \in Value
    <3> HIDE DEF now
    <3> QED BY <2>1, <2>2, SumTyped
  <2>4. ArgTyped(set) /\ ArgTyped(With(u.key, set))
    <3>1. \A d \in {u.key, u.also} : \A n \in DOMAIN d : d[n] \in Value
      BY UpsertsAssumption DEF TableInv, Work
    <3> HIDE DEF now
    <3> QED BY <2>3, <3>1 DEF ArgTyped, With
  <2> HIDE DEF id, now, set
  <2> QED BY <1>12, <2>1, <2>4 DEF id
<1>15. ASSUME NEW id, TxDelete(id) PROVE ValuesInv'
  BY <1>11, <1>15 DEF TxDelete, MayStage
<1>16. ASSUME NEW fs, TxDeleteWhere(fs) PROVE ValuesInv'
  BY <1>11, <1>16 DEF TxDeleteWhere, MayStage
<1> QED BY <1>2, <1>3, <1>4, <1>5, <1>6, <1>7, <1>9, <1>10, <1>13, <1>14, <1>15, <1>16, Zenon DEF TxStep

\* Whatever insert, update, upsert and the counters of upsert_increment store, in
\* the table and in an open transaction, is a value; ADD COLUMN defaults too.
THEOREM RowValues == TxSpec => [](HistoryInv /\ (~halfDone => ValuesInv))
<1>1. TxInit => ValuesInv
  BY DEF TxInit, Init, ValuesInv, Typed, Open
<1>2. HistoryInv /\ (~halfDone => ValuesInv) /\ [TxNext]_allVars => (~halfDone' => ValuesInv')
  <2> SUFFICES ASSUME HistoryInv, ~halfDone => ValuesInv, [TxNext]_allVars, ~halfDone' PROVE ValuesInv'
    OBVIOUS
  <2>1. CASE UNCHANGED allVars
    BY <2>1 DEF allVars, ValuesInv, Typed, Open, T
  <2>2. CASE ~Open /\ Whole /\ UNCHANGED tx
    <3>1. TableInv /\ ValuesInv
      BY <2>2 DEF HistoryInv, Whole
    <3>2. Typed(rows)'
      BY <2>2, <3>1, StepTyped DEF Whole, ValuesInv
    <3> QED BY <2>2, <3>2 DEF ValuesInv, Open
  <2>3. CASE Half
    BY <2>3, HalfKeeps, AlwaysTyped DEF HistoryInv
  <2>4. CASE TxStep
    <3>1. ~halfDone /\ TableInv /\ TxInv
      BY <2>4, TxAside DEF HistoryInv
    <3> QED BY <2>4, <3>1, TxStepTyped
  <2> QED BY <2>1, <2>2, <2>3, <2>4 DEF TxNext, Next
<1> QED BY <1>1, <1>2, TableInvariant, PTL DEF TxSpec

-----------------------------------------------------------------------------
(* Batches of scan_batch. *)

\* Keys with prefixes of n values, each component of one type.
Alike(K, n, ty) ==
    /\ n \in Nat
    /\ \A k \in K : /\ k = [prefix |-> k.prefix, id |-> k.id] /\ k.id \in Nat
                    /\ k.prefix \in Seq(Value) /\ Len(k.prefix) = n
                    /\ \A i \in 1 .. n : TypeOf(k.prefix[i]) = ty[i]

\* a and b first differ in component m, a having the lower value there.
LowerAt(m, a, b, n) ==
    /\ \A j \in 1 .. n : j < m => a.prefix[j] = b.prefix[j]
    /\ a.prefix[m][2] < b.prefix[m][2]

LEMMA PayloadsDiffer ==
    ASSUME NEW v \in Value, NEW w \in Value, TypeOf(v) = TypeOf(w), v # w
    PROVE  v[2] \in Int /\ w[2] \in Int /\ v[2] # w[2]
BY DEF Value, Null, TypeOf

LEMMA ValuesOrdered ==
    ASSUME NEW v \in Value
    PROVE  v[2] \in Int
BY DEF Value, Null

LEMMA PrecedesIs ==
    ASSUME NEW K, NEW n, NEW ty, Alike(K, n, ty), NEW a \in K, NEW b \in K
    PROVE  /\ KeyPrecedes(a, b) <=> \/ a.prefix = b.prefix /\ a.id < b.id
                                    \/ \E m \in 1 .. n : LowerAt(m, a, b, n)
           /\ a # b => KeyPrecedes(a, b) \/ KeyPrecedes(b, a)
<1> DEFINE apart == {k \in DOMAIN a.prefix : a.prefix[k] # b.prefix[k]}
           back == {k \in DOMAIN b.prefix : b.prefix[k] # a.prefix[k]}
<1>1. /\ n \in Nat /\ DOMAIN a.prefix = 1 .. n /\ DOMAIN b.prefix = 1 .. n
      /\ a.prefix \in Seq(Value) /\ b.prefix \in Seq(Value)
      /\ \A i \in 1 .. n : a.prefix[i] \in Value /\ b.prefix[i] \in Value /\ TypeOf(a.prefix[i]) = TypeOf(b.prefix[i])
  BY DEF Alike
<1>2. \A i \in 1 .. n : /\ a.prefix[i][2] \in Int /\ b.prefix[i][2] \in Int
                        /\ a.prefix[i] # b.prefix[i] => a.prefix[i][2] # b.prefix[i][2]
  BY <1>1, PayloadsDiffer, ValuesOrdered
<1>3. apart \subseteq Nat /\ back = apart
  BY <1>1
<1>4. KeyPrecedes(a, b) <=> IF apart = {} THEN a.id < b.id ELSE a.prefix[Min(apart)][2] < b.prefix[Min(apart)][2]
  BY DEF KeyPrecedes
<1>5. KeyPrecedes(b, a) <=> IF apart = {} THEN b.id < a.id ELSE b.prefix[Min(apart)][2] < a.prefix[Min(apart)][2]
  BY <1>3 DEF KeyPrecedes
<1>6. CASE apart = {}
  <2>1. a.prefix = b.prefix
    BY <1>1, <1>6, SeqEqual DEF Alike
  <2>2. \A m \in 1 .. n : ~LowerAt(m, a, b, n)
    BY <1>2, <2>1 DEF LowerAt
  <2>3. a # b => a.id # b.id
    BY <2>1 DEF Alike
  <2>4. a.id \in Nat /\ b.id \in Nat
    BY DEF Alike
  <2> HIDE DEF apart, back
  <2> QED BY <1>4, <1>5, <1>6, <2>1, <2>2, <2>3, <2>4
<1>7. CASE apart # {}
  <2> DEFINE m == Min(apart)
  <2>1. m \in apart /\ \A j \in apart : m <= j
    BY <1>3, <1>7, MinIs
  <2>2. m \in 1 .. n /\ a.prefix[m] # b.prefix[m] /\ \A j \in 1 .. n : j < m => a.prefix[j] = b.prefix[j]
    <3> HIDE DEF m
    <3> QED BY <1>1, <2>1
  <2>3. a.prefix # b.prefix
    BY <2>2
  <2>4. \A i \in 1 .. n : LowerAt(i, a, b, n) => i = m
    <3> SUFFICES ASSUME NEW i \in 1 .. n, LowerAt(i, a, b, n) PROVE i = m
      OBVIOUS
    <3> HIDE DEF m, apart, back
    <3>1. a.prefix[i] # b.prefix[i]
      BY <1>2 DEF LowerAt
    <3>2. ~(i < m)
      BY <2>2, <3>1
    <3>3. ~(m < i)
      BY <2>2 DEF LowerAt
    <3> QED BY <1>1, <2>2, <3>2, <3>3
  <2>5. LowerAt(m, a, b, n) <=> a.prefix[m][2] < b.prefix[m][2]
    <3> HIDE DEF m
    <3> QED BY <2>2 DEF LowerAt
  <2> HIDE DEF apart, back
  <2>6. KeyPrecedes(a, b) <=> a.prefix[m][2] < b.prefix[m][2]
    BY <1>4, <1>7
  <2>7. KeyPrecedes(b, a) <=> b.prefix[m][2] < a.prefix[m][2]
    BY <1>5, <1>7
  <2> HIDE DEF m
  <2> QED BY <1>2, <2>2, <2>3, <2>4, <2>5, <2>6, <2>7
<1> QED BY <1>6, <1>7

\* The order of encoded keys is a strict total order of such keys.
LEMMA KeysOrdered ==
    ASSUME NEW K, NEW n, NEW ty, Alike(K, n, ty)
    PROVE  /\ \A a \in K : ~KeyPrecedes(a, a)
           /\ \A a, b \in K : a # b => KeyPrecedes(a, b) \/ KeyPrecedes(b, a)
           /\ \A a, b, c \in K : KeyPrecedes(a, b) /\ KeyPrecedes(b, c) => KeyPrecedes(a, c)
<1>1. \A k \in K : k.id \in Nat /\ n \in Nat /\ \A i \in 1 .. n : k.prefix[i][2] \in Int
  BY ValuesOrdered DEF Alike
<1>2. \A a \in K : ~KeyPrecedes(a, a)
  BY <1>1, PrecedesIs DEF LowerAt
<1>3. ASSUME NEW a \in K, NEW b \in K, NEW c \in K, KeyPrecedes(a, b), KeyPrecedes(b, c)
      PROVE  KeyPrecedes(a, c)
  <2> DEFINE same(x, y) == x.prefix = y.prefix /\ x.id < y.id
             low(x, y) == \E m \in 1 .. n : LowerAt(m, x, y, n)
  <2>1. (same(a, b) \/ low(a, b)) /\ (same(b, c) \/ low(b, c))
    BY <1>3, PrecedesIs
  <2>2. CASE same(a, b) /\ same(b, c)
    <3>1. same(a, c)
      BY <1>1, <2>2
    <3> QED BY <3>1, PrecedesIs
  <2>3. CASE same(a, b) /\ low(b, c)
    <3>1. low(a, c)
      BY <2>3 DEF LowerAt
    <3> QED BY <3>1, PrecedesIs
  <2>4. CASE low(a, b) /\ same(b, c)
    <3>1. low(a, c)
      BY <2>4 DEF LowerAt
    <3> QED BY <3>1, PrecedesIs
  <2>5. CASE low(a, b) /\ low(b, c)
    <3>1. PICK i \in 1 .. n : LowerAt(i, a, b, n)
      BY <2>5
    <3>2. PICK j \in 1 .. n : LowerAt(j, b, c, n)
      BY <2>5
    <3>3. CASE i <= j
      <4>1. a.prefix[i][2] < c.prefix[i][2]
        BY <1>1, <3>1, <3>2, <3>3 DEF LowerAt
      <4>2. \A k \in 1 .. n : k < i => a.prefix[k] = c.prefix[k]
        BY <3>1, <3>2, <3>3 DEF LowerAt
      <4> QED BY <4>1, <4>2, PrecedesIs DEF LowerAt
    <3>4. CASE j < i
      <4>1. a.prefix[j][2] < c.prefix[j][2]
        BY <1>1, <3>1, <3>2, <3>4 DEF LowerAt
      <4>2. \A k \in 1 .. n : k < j => a.prefix[k] = c.prefix[k]
        BY <3>1, <3>2, <3>4 DEF LowerAt
      <4> QED BY <4>1, <4>2, PrecedesIs DEF LowerAt
    <3> QED BY <3>3, <3>4
  <2> QED BY <2>1, <2>2, <2>3, <2>4, <2>5
<1>4. \A a, b \in K : a # b => KeyPrecedes(a, b) \/ KeyPrecedes(b, a)
  BY PrecedesIs
<1> QED BY <1>2, <1>3, <1>4

Goes(dir, a, b) == IF dir = "asc" THEN KeyPrecedes(a, b) ELSE KeyPrecedes(b, a)

Sorted(dir, S) ==
    CHOOSE s \in [1 .. Cardinality(S) -> S] : \A i, j \in DOMAIN s : i < j => Goes(dir, s[i], s[j])

LEMMA SortedIs ==
    ASSUME NEW K, NEW n, NEW ty, Alike(K, n, ty), NEW dir, NEW S \in SUBSET K, IsFiniteSet(S)
    PROVE  /\ Sorted(dir, S) \in Seq(S) /\ Len(Sorted(dir, S)) = Cardinality(S) /\ Cardinality(S) \in Nat
           /\ ToSet(Sorted(dir, S)) = S
           /\ \A i, j \in 1 .. Len(Sorted(dir, S)) : i < j => Goes(dir, Sorted(dir, S)[i], Sorted(dir, S)[j])
<1> DEFINE R == {p \in K \X K : Goes(dir, p[1], p[2])}
<1>1. \A a, b \in K : <<a, b>> \in R <=> Goes(dir, a, b)
  OBVIOUS
<1> HIDE DEF R
<1>2. Orders(R, K)
  <2>1. /\ \A a \in K : ~Goes(dir, a, a)
        /\ \A a, b \in K : a # b => Goes(dir, a, b) \/ Goes(dir, b, a)
        /\ \A a, b, c \in K : Goes(dir, a, b) /\ Goes(dir, b, c) => Goes(dir, a, c)
    BY KeysOrdered DEF Goes
  <2> QED BY <1>1, <2>1 DEF Orders
<1>3. PICK t : Enumerates(t, R, S)
  BY <1>2, EnumerationExists
<1> DEFINE ok(s) == \A i, j \in DOMAIN s : i < j => Goes(dir, s[i], s[j])
<1>4. \A s \in [1 .. Cardinality(S) -> S] : ok(s) <=> Enumerates(s, R, S)
  <2> SUFFICES ASSUME NEW s \in [1 .. Cardinality(S) -> S]
               PROVE  ok(s) <=> Enumerates(s, R, S)
    OBVIOUS
  <2>1. \A i \in DOMAIN s : s[i] \in K
    OBVIOUS
  <2> QED BY <1>1, <2>1 DEF Enumerates
<1>5. t \in [1 .. Cardinality(S) -> S] /\ ok(t)
  BY <1>3, <1>4 DEF Enumerates
<1>6. Sorted(dir, S) = CHOOSE s \in [1 .. Cardinality(S) -> S] : ok(s)
  BY DEF Sorted
<1> HIDE DEF ok
<1>7. Enumerates(Sorted(dir, S), R, S)
  BY <1>4, <1>5, <1>6
<1> DEFINE s == Sorted(dir, S)
<1>8. Enumerates(s, R, S)
  BY <1>7
<1> HIDE DEF s
<1>9. /\ Cardinality(S) \in Nat /\ Len(s) = Cardinality(S) /\ DOMAIN s = 1 .. Len(s)
      /\ s \in Seq(S)
      /\ ToSet(s) = S
  BY ONLY IsFiniteSet(S), S \in SUBSET K, <1>2, <1>8, EnumerationCovers
<1>10. \A i, j \in 1 .. Len(s) : i < j => Goes(dir, s[i], s[j])
  <2>1. \A i \in 1 .. Len(s) : s[i] \in K
    BY <1>9, ElementOfSeq
  <2> QED BY <1>1, <1>8, <1>9, <2>1 DEF Enumerates
<1> QED BY <1>9, <1>10 DEF s

\* A batch of one: the first of due, and whether another follows.
First(s) == SubSeq(s, 1, Min({1, Len(s)}))
More(s, c) == IF 1 # 0 /\ Len(First(s)) = 1 /\ Last(First(s)) # Last(c) THEN <<Last(First(s))>> ELSE <<>>

LEMMA FirstIs ==
    ASSUME NEW S, NEW s \in Seq(S)
    PROVE  /\ Len(s) = 0 => First(s) = <<>>
           /\ Len(s) # 0 => First(s) = <<s[1]>>
           /\ Len(First(s)) = Min({1, Len(s)})
<1>1. Len(s) \in Nat
  OBVIOUS
<1>2. Min({1, Len(s)}) \in {1, Len(s)} /\ \A j \in {1, Len(s)} : Min({1, Len(s)}) <= j
  BY <1>1, MinIs
<1>3. CASE Len(s) = 0
  <2>1. Min({1, Len(s)}) = 0
    BY <1>2, <1>3
  <2> QED BY <1>3, <2>1 DEF First
<1>4. CASE Len(s) # 0
  <2>1. Min({1, Len(s)}) = 1
    BY <1>1, <1>2, <1>4
  <2>2. First(s) = SubSeq(s, 1, 1) /\ s[1] \in S
    BY <1>1, <1>4, <2>1 DEF First
  <2>3. SubSeq(s, 1, 1) \in Seq(S) /\ Len(SubSeq(s, 1, 1)) = 1 /\ SubSeq(s, 1, 1)[1] = s[1]
    <3>1. \A i \in 1 .. 1 : s[i] \in S
      BY <2>2
    <3> QED BY <3>1, SubSeqProperties
  <2>4. \A t : t \in Seq(S) /\ Len(t) = 1 => t = <<t[1]>>
    OBVIOUS
  <2> QED BY <1>4, <2>1, <2>2, <2>3, <2>4
<1> QED BY <1>3, <1>4

\* The batch taken from s, the sorted set D, when c is what is looked at for more.
Batched(dir, D, s, c) ==
    /\ ToSet(First(s)) \subseteq D /\ Len(First(s)) = Min({1, Cardinality(D)})
    /\ D # {} => \A k \in D : k = First(s)[1] \/ (More(s, c) = First(s) /\ Goes(dir, First(s)[1], k))

LEMMA BatchIs ==
    ASSUME NEW K, NEW n, NEW ty, Alike(K, n, ty), IsFiniteSet(K), NEW dir,
           NEW C, C \subseteq K, NEW D, D \subseteq C
    PROVE  Batched(dir, D, Sorted(dir, D), Sorted(dir, C))
<1> DEFINE s == Sorted(dir, D)
           c == Sorted(dir, C)
<1>1. IsFiniteSet(C) /\ IsFiniteSet(D) /\ D \in SUBSET K
  BY FS_Subset
<1>2. /\ s \in Seq(D) /\ Len(s) = Cardinality(D) /\ Cardinality(D) \in Nat /\ ToSet(s) = D
      /\ \A i, j \in 1 .. Len(s) : i < j => Goes(dir, s[i], s[j])
  BY <1>1, SortedIs
<1>3. /\ c \in Seq(C) /\ Len(c) \in Nat /\ ToSet(c) = C
      /\ \A i, j \in 1 .. Len(c) : i < j => Goes(dir, c[i], c[j])
  BY <1>1, SortedIs
<1> HIDE DEF s, c
<1>6. Batched(dir, D, s, c)
  <2> SUFFICES /\ ToSet(First(s)) \subseteq D /\ Len(First(s)) = Min({1, Cardinality(D)})
               /\ D # {} => \A k \in D : k = First(s)[1] \/ (More(s, c) = First(s) /\ Goes(dir, First(s)[1], k))
    BY DEF Batched
  <2>4. CASE Len(s) = 0
    <3>1. D = {}
      BY <1>2, <2>4 DEF ToSet
    <3>2. First(s) = <<>>
      BY <1>2, <2>4, FirstIs
    <3>3. ToSet(First(s)) = {}
      BY <3>2 DEF ToSet
    <3> QED BY <1>2, <3>1, <3>3, FirstIs
  <2>5. CASE Len(s) # 0
    <3> DEFINE f == s[1]
    <3>1. First(s) = <<f>> /\ f \in D
      <4>1. \A q \in Seq(D) : Len(q) # 0 => First(q) = <<q[1]>> /\ q[1] \in D
        <5> TAKE q \in Seq(D)
        <5>1. Len(q) # 0 => q[1] \in D
          OBVIOUS
        <5> QED BY <5>1, FirstIs
      <4> QED BY <1>2, <2>5, <4>1
    <3>2. ToSet(First(s)) = {f} /\ Last(First(s)) = f /\ Len(First(s)) = 1 /\ First(s)[1] = f
      BY <3>1 DEF ToSet, Last
    <3>3. ASSUME NEW k \in D, k # f
          PROVE  More(s, c) = First(s) /\ Goes(dir, f, k)
      <4>1. PICK i \in 1 .. Len(s) : s[i] = k
        BY <1>2 DEF ToSet
      <4>2. Goes(dir, f, k)
        BY <1>2, <2>5, <3>3, <4>1
      <4>3. c # <<>> /\ \E j \in 1 .. Len(c) : c[j] = k
        BY <1>3 DEF ToSet
      <4>4. PICK j \in 1 .. Len(c) : c[j] = k
        BY <4>3
      <4>5. Last(c) # f
        <5>1. SUFFICES ASSUME c[Len(c)] = f PROVE FALSE
          BY DEF Last
        <5>2. j < Len(c)
          BY <1>3, <3>3, <4>4, <5>1
        <5>3. Goes(dir, k, f)
          BY <1>3, <4>4, <5>1, <5>2
        <5>4. k \in K /\ f \in K
          BY <1>1, <3>1
        <5>5. \A a, b \in K : ~(Goes(dir, a, b) /\ Goes(dir, b, a))
          BY KeysOrdered DEF Goes
        <5> HIDE DEF f
        <5> QED BY <4>2, <5>3, <5>4, <5>5
      <4>6. More(s, c) = <<f>>
        BY <3>2, <4>5 DEF More
      <4> QED BY <3>1, <4>2, <4>6
    <3> HIDE DEF f
    <3> QED BY <1>2, <3>1, <3>2, <3>3, FirstIs
  <2> QED BY <2>4, <2>5
<1> QED BY <1>6 DEF s, c

LEMMA ImageFinite ==
    ASSUME NEW S, IsFiniteSet(S), NEW f
    PROVE  IsFiniteSet({f[x] : x \in S})
<1> DEFINE g == [x \in S |-> f[x]]
<1>1. g \in Surjection(S, {f[x] : x \in S})
  BY DEF Surjection
<1> QED BY <1>1, FS_Surjection DEF ExistsSurjection

\* Where the rows come in the order of index n.
PlaceTypes(n) == IF n = 0 THEN <<>> ELSE [i \in DOMAIN indexes[n].columns |-> ColType(indexes[n].columns[i])]
PlaceWidth(n) == IF n = 0 THEN 0 ELSE Len(indexes[n].columns)

LEMMA PlacesAlike ==
    ASSUME TableInv, TxInv, ValuesInv, Open, NEW n \in {0} \cup DOMAIN indexes, NEW fs
    PROVE  Alike(Places(n, fs), PlaceWidth(n), PlaceTypes(n)) /\ IsFiniteSet(Places(n, fs))
<1> DEFINE ids == Matching(T, fs, <<>>)
<1>1. ids \subseteq DOMAIN T.rows /\ DOMAIN T.rows \subseteq RowIds /\ RowIds \subseteq Nat
  BY DEF Matching, TxInv, TxOK, RowsInv, RowIds
<1>2. IsFiniteSet(ids)
  BY <1>1, RowsFinite DEF TableInv
<1> HIDE DEF ids
<1>3. CASE n = 0
  <2>1. Places(n, fs) = {[prefix |-> <<>>, id |-> id] : id \in ids}
    BY <1>3 DEF Places, ids
  <2>2. Alike(Places(n, fs), 0, <<>>)
    <3>1. <<>> \in Seq(Value) /\ Len(<<>>) = 0
      OBVIOUS
    <3>2. \A i \in 1 .. 0 : FALSE
      OBVIOUS
    <3>3. \A k \in Places(n, fs) : k = [prefix |-> k.prefix, id |-> k.id] /\ k.id \in Nat /\ k.prefix = <<>>
      BY <1>1, <2>1
    <3> QED BY <3>1, <3>2, <3>3 DEF Alike
  <2>3. IsFiniteSet(Places(n, fs))
    <3> DEFINE f == [id \in ids |-> [prefix |-> <<>>, id |-> id]]
    <3>1. Places(n, fs) = {f[id] : id \in ids}
      BY <2>1
    <3> HIDE DEF f
    <3> QED BY <1>2, <3>1, ImageFinite
  <2> QED BY <1>3, <2>2, <2>3 DEF PlaceWidth, PlaceTypes
<1>4. CASE n # 0
  <2> DEFINE ix == indexes[n]
             tup(id) == Prefix(ix, T.rows[id])
  <2>1. n \in DOMAIN indexes /\ ix.columns \in Seq(Names) /\ ix.columns # <<>>
    BY <1>4 DEF TableInv, IndexesTyped
  <2>2. Places(n, fs) = UNION {Keys(ix, id, T.rows[id]) : id \in ids}
    BY <1>4 DEF Places, ids
  <2> DEFINE full == {id \in ids : tup(id) # <<>>}
             key(id) == [prefix |-> tup(id), id |-> id]
  <2>3. Places(n, fs) = {key(id) : id \in full}
    BY <2>2 DEF Keys
  <2>4. \A id \in full : /\ tup(id) \in Seq(Value) /\ Len(tup(id)) = Len(ix.columns)
                         /\ \A i \in 1 .. Len(ix.columns) : TypeOf(tup(id)[i]) = ColType(ix.columns[i])
    <3> SUFFICES ASSUME NEW id \in full
                 PROVE  /\ tup(id) \in Seq(Value) /\ Len(tup(id)) = Len(ix.columns)
                        /\ \A i \in 1 .. Len(ix.columns) : TypeOf(tup(id)[i]) = ColType(ix.columns[i])
      OBVIOUS
    <3> DEFINE part(k) == Stored(T.rows[id], colId[ix.columns[k]])
               m == Len(ix.columns)
    <3>1. m \in Nat /\ DOMAIN ix.columns = 1 .. m
      BY <2>1
    <3>2. tup(id) = [k \in 1 .. m |-> part(k)] /\ \A k \in 1 .. m : TypeOf(part(k)) = ColType(ix.columns[k])
      BY <3>1 DEF Prefix
    <3>3. \A k : part(k) \in Value
      BY <1>1 DEF Stored, Typed, Value, ValuesInv
    <3> HIDE DEF part, m, tup
    <3>4. tup(id) \in [1 .. m -> Value]
      BY <3>2, <3>3
    <3>5. tup(id) \in Seq(Value) /\ Len(tup(id)) = m
      BY <3>1, <3>4, FunctionIsSeq
    <3> QED BY <3>2, <3>5 DEF m
  <2>5. full \subseteq Nat /\ IsFiniteSet(full)
    <3>1. full \subseteq ids
      OBVIOUS
    <3> HIDE DEF full
    <3> QED BY <1>1, <1>2, <3>1, FS_Subset
  <2>6. IsFiniteSet(Places(n, fs))
    <3> HIDE DEF full, key
    <3> DEFINE f == [id \in full |-> key(id)]
    <3>1. {f[id] : id \in full} = {key(id) : id \in full}
      OBVIOUS
    <3>2. IsFiniteSet({f[id] : id \in full})
      <4> HIDE DEF f
      <4> QED BY <2>5, ImageFinite
    <3> HIDE DEF f
    <3> QED BY <2>3, <3>1, <3>2
  <2>7. PlaceWidth(n) = Len(ix.columns) /\ Len(ix.columns) \in Nat
    BY <1>4, <2>1 DEF PlaceWidth
  <2>8. \A i \in 1 .. Len(ix.columns) : PlaceTypes(n)[i] = ColType(ix.columns[i])
    BY <1>4, <2>1 DEF PlaceTypes
  <2> HIDE DEF tup, full, ix
  <2>9. Alike(Places(n, fs), PlaceWidth(n), PlaceTypes(n))
    BY <2>3, <2>4, <2>5, <2>7, <2>8 DEF Alike
  <2> QED BY <2>6, <2>9
<1> QED BY <1>3, <1>4

LEMMA PlacesInOrder == \A fs : Places(0, fs) \subseteq Places(0, <<>>)
BY DEF Places, Matching, RowPasses

LEMMA Scanning ==
    ASSUME NEW n, NEW fs, NEW dir, NEW token
    PROVE  LET due == {k \in Places(n, fs) : After(k, token, dir)}
               more == {k \in (IF n = 0 THEN Places(0, <<>>) ELSE Places(n, fs)) : After(k, token, dir)}
           IN  TxScanBatch(n, fs, dir, token, 1) = [keys |-> First(Sorted(dir, due)), last |-> More(Sorted(dir, due), Sorted(dir, more))]
<1> DEFINE due == {k \in Places(n, fs) : After(k, token, dir)}
           rest == {k \in Places(0, <<>>) : After(k, token, dir)}
<1>1. TxScanBatch(n, fs, dir, token, 1) =
        [keys |-> First(Sorted(dir, due)),
         last |-> More(Sorted(dir, due), IF n = 0 THEN Sorted(dir, rest) ELSE Sorted(dir, due))]
  BY DEF TxScanBatch, First, More, Sorted, Ordered, Goes
<1> QED BY <1>1

LEMMA BatchesExactHere ==
    ASSUME TableInv, TxInv, ValuesInv, OverlayInStep
    PROVE  OverlayExact
<1>1. ASSUME Open, NEW n \in {0} \cup DOMAIN indexes, NEW fs, NEW dir, NEW token
      PROVE  LET due == {k \in Places(n, fs) : After(k, token, dir)}
                 b == TxScanBatch(n, fs, dir, token, 1)
             IN  /\ ToSet(b.keys) \subseteq due /\ Len(b.keys) = Min({1, Cardinality(due)})
                 /\ due # {} => \A k \in due : k = b.keys[1] \/ (b.last = b.keys /\ Goes(dir, b.keys[1], k))
  <2> DEFINE K == IF n = 0 THEN Places(0, <<>>) ELSE Places(n, fs)
             due == {k \in Places(n, fs) : After(k, token, dir)}
             more == {k \in K : After(k, token, dir)}
             s == Sorted(dir, due)
             c == Sorted(dir, more)
             b == TxScanBatch(n, fs, dir, token, 1)
  <2>1. b = [keys |-> First(s), last |-> More(s, c)]
    BY Scanning
  <2>2. PICK w, ty : Alike(K, w, ty) /\ IsFiniteSet(K)
    BY <1>1, PlacesAlike
  <2>3. Places(n, fs) \subseteq K
    BY PlacesInOrder
  <2>4. more \subseteq K /\ due \subseteq more
    BY <2>3
  <2> HIDE DEF K, due, more
  <2>5. Batched(dir, due, s, c)
    BY <2>2, <2>4, BatchIs
  <2>6. b.keys = First(s) /\ b.last = More(s, c)
    BY <2>1
  <2> HIDE DEF s, c, b
  <2> QED BY <2>5, <2>6 DEF Batched, b, due
<1> DEFINE past(dir, k, token) == token = <<>> \/ IF dir = "asc" THEN KeyPrecedes(token[1], k) ELSE KeyPrecedes(k, token[1])
<1> DEFINE Says(n, fs, dir, token) ==
      \E due \in {{k \in Places(n, fs) : past(dir, k, token)}}, b \in {TxScanBatch(n, fs, dir, token, 1)} :
         /\ ToSet(b.keys) \subseteq due /\ Len(b.keys) = Min({1, Cardinality(due)})
         /\ due # {} => \A k \in due : k = b.keys[1] \/ (b.last = b.keys /\ past(dir, k, b.last))
<1>2. ASSUME Open, NEW n \in {0} \cup DOMAIN indexes, NEW fs, NEW dir, NEW token
      PROVE  Says(n, fs, dir, token)
  <2> DEFINE due == {k \in Places(n, fs) : past(dir, k, token)}
             b == TxScanBatch(n, fs, dir, token, 1)
  <2>1. due = {k \in Places(n, fs) : After(k, token, dir)}
    BY DEF After
  <2>2. /\ ToSet(b.keys) \subseteq due /\ Len(b.keys) = Min({1, Cardinality(due)})
        /\ due # {} => \A k \in due : k = b.keys[1] \/ (b.last = b.keys /\ Goes(dir, b.keys[1], k))
    BY <1>1, <1>2, <2>1
  <2> HIDE DEF due, b
  <2>3. \A k, last : last = b.keys /\ Goes(dir, b.keys[1], k) => past(dir, k, last)
    BY DEF Goes
  <2>4. /\ ToSet(b.keys) \subseteq due /\ Len(b.keys) = Min({1, Cardinality(due)})
        /\ due # {} => \A k \in due : k = b.keys[1] \/ (b.last = b.keys /\ past(dir, k, b.last))
    <3> HIDE DEF past
    <3> QED BY <2>2, <2>3
  <2> QED BY <2>4 DEF due, b
<1>3. (OverlayInStep /\ (Open => \A n \in {0} \cup DOMAIN indexes, fs \in Work.wheres, dir \in {"asc", "desc"} :
                                   \A token \in Tokens(n) : Says(n, fs, dir, token)))
      = OverlayExact
  BY DEF OverlayExact
<1>4. Open => \A n \in {0} \cup DOMAIN indexes, fs \in Work.wheres, dir \in {"asc", "desc"} :
                \A token \in Tokens(n) : Says(n, fs, dir, token)
  <2> HIDE DEF Says
  <2> QED BY <1>2
<1> QED BY <1>3, <1>4

\* What a transaction reads is exact after every step of it (OverlayExact): the
\* batches of scan_batch come one after another without a gap, in both
\* directions and from every token.
THEOREM BatchesExact == TxSpec => []OverlayExact
<1>1. HistoryInv /\ (~halfDone => ValuesInv) /\ OverlayInStep => OverlayExact
  <2>1. CASE Open
    BY <2>1, BatchesExactHere DEF HistoryInv
  <2>2. CASE ~Open
    BY <2>2 DEF OverlayExact
  <2> QED BY <2>1, <2>2
<1> QED BY <1>1, RowValues, OverlayAgrees, PTL
=============================================================================
