----------------------------- MODULE AcidTxProofs -----------------------------
(***************************************************************************)
(* Behind the write gate, AcidTx keeps its tables apart, their counts      *)
(* exact, and implements AtomicTables: for every number of callers,        *)
(* readers, tables, rows and pages.                                        *)
(***************************************************************************)
EXTENDS AcidTx, SmallTreeProofs

(* A transaction's view of a table: root, rows and next row id. *)

Root(t, tb) == IF delta[t][tb].used THEN delta[t][tb].root ELSE meta[tb].root
NextId(t, tb) == IF delta[t][tb].used THEN delta[t][tb].next ELSE meta[tb].next
Rows(t, tb) == (committed[tb] \ did[t][tb].del) \cup did[t][tb].ins

\* The first page number neither the file nor the transaction uses.
Top(t) == IF pc[t] = "counted" THEN numPages ELSE numPages + newPages[t]

Committing(t) == pc[t] \in {"published", "counted"}

Roots(t) == [tb \in Tables |-> Root(t, tb)]
MetaRoots == [tb \in Tables |-> meta[tb].root]

\* What is known of a reader in get(), if its row was there and it met no commit:
\* it is on the path to the row, or a commit that changes the table waits for it.
OnPath(r) ==
    LET g == rd[r]
    IN  /\ g.row \in committed[g.tb]
        /\ g.page = meta[g.tb].root \/ g.page = LeafOf(pages, meta[g.tb].root, g.row)
        /\ \A t \in Txs : Committing(t) => did[t][g.tb] = [ins |-> {}, del |-> {}]
MetUnapplied(r) == \E t \in Txs : Committing(t) /\ delta[t][rd[r].tb].used

ReaderType(g) ==
    /\ g.at \in {"idle", "page", "found", "missing", "error"}
    /\ g.at # "idle" => /\ g = [at |-> g.at, tb |-> g.tb, row |-> g.row, page |-> g.page,
                                known |-> g.known, calm |-> g.calm]
                        /\ g.tb \in Tables /\ g.row \in RowIds
                        /\ g.known \in BOOLEAN /\ g.calm \in BOOLEAN

Types ==
    /\ numPages \in Nat \ {0} /\ numPages <= MaxPages
    /\ pages = [p \in Page |-> pages[p]]
    /\ meta \in [Tables -> [root : Nat, rows : Int, next : Nat]]
    /\ \A tb \in Tables : meta[tb].root \in Page
    /\ holder \in Txs \cup {Nobody} /\ gate \in Txs \cup {Nobody}
    /\ pc \in [Txs -> {"active", "read", "published", "counted"}]
    /\ DOMAIN cur = Txs
    /\ DOMAIN priv = Txs /\ \A t \in Txs : DOMAIN priv[t] \subseteq Page
    /\ newPages \in [Txs -> Nat]
    /\ delta \in [Txs -> [Tables -> [root : Nat, rows : Int, next : Nat, used : BOOLEAN]]]
    /\ did \in [Txs -> [Tables -> [ins : SUBSET RowIds, del : SUBSET RowIds]]]
    /\ committed \in [Tables -> SUBSET RowIds]
    /\ DOMAIN rd = Readers /\ \A r \in Readers : ReaderType(rd[r])

\* A transaction that does not hold the gate has done nothing.
Fresh(t) == /\ pc[t] = "active" /\ DOMAIN priv[t] = {} /\ newPages[t] = 0
            /\ delta[t] = [tb \in Tables |-> NoDelta] /\ did[t] = NoOps

\* The transaction that holds the gate.
TxTrees(t) == /\ Forest(MaxRow, Tables, Overlay(t), Roots(t), Top(t)) /\ Top(t) <= MaxPages
              /\ \A tb \in Tables : RowsFrom(Overlay(t), Root(t, tb)) = Rows(t, tb)
TxCounts(t) == \A tb \in Tables : /\ meta[tb].rows + delta[t][tb].rows = Cardinality(Rows(t, tb))
                                  /\ \A x \in Rows(t, tb) : x < NextId(t, tb)
TxRead(t) == pc[t] = "read" => /\ cur[t].tb \in Tables /\ cur[t].root = Root(t, cur[t].tb)
                               /\ cur[t].next = NextId(t, cur[t].tb)
TxUnused(t) == \A tb \in Tables : ~delta[t][tb].used =>
    /\ delta[t][tb] = NoDelta
    /\ pc[t] # "counted" => /\ did[t][tb] = [ins |-> {}, del |-> {}]
                            /\ PagesFrom(pages, meta[tb].root) \cap DOMAIN priv[t] = {}
TxStaged(t) == /\ DOMAIN priv[t] = {} => did[t] = NoOps
               /\ Committing(t) => Overlay(t) = pages
               /\ \A tb \in Tables : did[t][tb].ins \cap did[t][tb].del = {}
TxOK(t) == TxTrees(t) /\ TxCounts(t) /\ TxRead(t) /\ TxUnused(t) /\ TxStaged(t)

\* The tables between commits.
TablesOK == /\ Forest(MaxRow, Tables, pages, MetaRoots, numPages)
            /\ \A tb \in Tables : /\ RowsFrom(pages, meta[tb].root) = committed[tb]
                                  /\ meta[tb].rows = Cardinality(committed[tb])
                                  /\ \A x \in committed[tb] : x < meta[tb].next

ReaderOK(r) == /\ rd[r].at = "page" /\ rd[r].known /\ rd[r].calm => OnPath(r) \/ MetUnapplied(r)
               /\ rd[r].at \in {"missing", "error"} => ~(rd[r].known /\ rd[r].calm)

GateInv ==
    /\ Types
    /\ \A t \in Txs : gate # t => Fresh(t)
    /\ \A t \in Txs : gate = t => TxOK(t)
    /\ ~InCommit => TablesOK
    /\ \A r \in Readers : ReaderOK(r)

-----------------------------------------------------------------------------
(* Facts about single states. *)

\* Only the transaction that holds the gate has left its first state.
LEMMA OneAtATime ==
    ASSUME GateInv
    PROVE  /\ \A t \in Txs : pc[t] # "active" => gate = t
           /\ \A t \in Txs : Committing(t) => gate = t /\ InCommit
           /\ InCommit => \E t \in Txs : Committing(t) /\ gate = t
           /\ \A t \in Txs : gate = t /\ ~Committing(t) => ~InCommit
           /\ gate = Nobody => ~InCommit
<1>1. \A t \in Txs : pc[t] # "active" => gate = t
  BY DEF GateInv, Fresh
<1>2. InCommit <=> \E t \in Txs : Committing(t)
  BY DEF InCommit, Committing
<1>3. \A t \in Txs : Committing(t) => pc[t] # "active"
  BY DEF Committing
<1> QED BY <1>1, <1>2, <1>3, GateAssumption

LEMMA OverlayEmpty ==
    ASSUME Types, NEW t \in Txs, DOMAIN priv[t] = {}
    PROVE  Overlay(t) = pages
<1>1. pages = [p \in Page |-> pages[p]]
  BY DEF Types
<1>3. Overlay(t) = [p \in Page |-> pages[p]]
  BY DEF Overlay
<1> QED BY <1>1, <1>3

\* A transaction that has done nothing sees the tables as they are.
LEMMA FreshTx ==
    ASSUME Types, TablesOK, NEW t \in Txs, Fresh(t)
    PROVE  TxOK(t)
<1>1. Overlay(t) = pages
  BY OverlayEmpty DEF Fresh
<1>2. /\ pc[t] = "active" /\ DOMAIN priv[t] = {} /\ newPages[t] = 0 /\ numPages \in Nat /\ numPages <= MaxPages
      /\ \A tb \in Tables : delta[t][tb] = NoDelta /\ did[t][tb] = [ins |-> {}, del |-> {}]
      /\ did[t] = NoOps
  BY DEF Fresh, NoOps, Types
<1>3. \A tb \in Tables : Root(t, tb) = meta[tb].root /\ NextId(t, tb) = meta[tb].next
                         /\ Rows(t, tb) = committed[tb]
  BY <1>2 DEF Root, NextId, Rows, NoDelta
<1>4. Roots(t) = MetaRoots
  BY <1>3 DEF Roots, MetaRoots
<1>5. Top(t) = numPages
  BY <1>2 DEF Top
<1>6. TxTrees(t)
  BY <1>1, <1>2, <1>3, <1>4, <1>5 DEF TxTrees, TablesOK
<1>7. TxCounts(t)
  <2>1. \A tb \in Tables : meta[tb].rows \in Int /\ meta[tb].rows + delta[t][tb].rows = meta[tb].rows
    BY <1>2 DEF Types, NoDelta
  <2> QED BY <1>3, <2>1 DEF TxCounts, TablesOK
<1>8. TxRead(t) /\ TxUnused(t) /\ TxStaged(t)
  BY <1>2 DEF TxRead, TxUnused, TxStaged, Committing
<1> QED BY <1>6, <1>7, <1>8 DEF TxOK

\* The rows a transaction sees are row ids.
LEMMA RowsFinite ==
    ASSUME Types, NEW t \in Txs, NEW tb \in Tables
    PROVE  Rows(t, tb) \subseteq RowIds /\ IsFiniteSet(Rows(t, tb)) /\ Cardinality(Rows(t, tb)) \in Nat
<1>1. Rows(t, tb) \subseteq RowIds
  BY DEF Rows, Types
<1>2. IsFiniteSet(RowIds)
  BY ShapeAssumption, FS_Interval DEF RowIds
<1>3. IsFiniteSet(Rows(t, tb))
  BY <1>1, <1>2, FS_Subset
<1> QED BY <1>1, <1>3, FS_CardinalityType

-----------------------------------------------------------------------------
(* Steps. *)

\* Readers do not notice a step outside a commit that leaves the cache and the
\* metadata alone.
LEMMA ReadersKept ==
    ASSUME GateInv, UNCHANGED <<rd, pages, meta, committed>>,
           \A t \in Txs : Committing(t)' <=> Committing(t),
           \A t \in Txs : Committing(t) => did'[t] = did[t] /\ delta'[t] = delta[t]
    PROVE  \A r \in Readers : ReaderOK(r)'
<1> SUFFICES ASSUME NEW r \in Readers PROVE ReaderOK(r)'
  OBVIOUS
<1>1. ReaderOK(r)
  BY DEF GateInv
<1>2. OnPath(r) => OnPath(r)'
  BY DEF OnPath
<1>3. MetUnapplied(r) => MetUnapplied(r)'
  BY DEF MetUnapplied
<1> QED BY <1>1, <1>2, <1>3 DEF ReaderOK

LEMMA TablesKept ==
    ASSUME GateInv, UNCHANGED <<pages, numPages, meta, committed>>, InCommit' <=> InCommit
    PROVE  ~InCommit' => TablesOK'
<1>1. MetaRoots' = MetaRoots
  BY DEF MetaRoots
<1> QED BY <1>1 DEF GateInv, TablesOK

\* What a transaction sees does not change when it goes from one pc to another
\* and nothing else of it changes.
LEMMA TxKept ==
    ASSUME GateInv, NEW t \in Txs, TxOK(t), UNCHANGED <<pages, numPages, meta, committed>>,
           UNCHANGED <<priv[t], newPages[t], delta[t], did[t]>>,
           {pc[t], pc'[t]} \subseteq {"active", "read"}, TxRead(t)'
    PROVE  TxOK(t)'
<1>1. Overlay(t)' = Overlay(t)
  BY DEF Overlay
<1>2. \A tb \in Tables : Root(t, tb)' = Root(t, tb) /\ NextId(t, tb)' = NextId(t, tb) /\ Rows(t, tb)' = Rows(t, tb)
  BY DEF Root, NextId, Rows
<1>3. Roots(t)' = Roots(t) /\ Top(t)' = Top(t)
  BY <1>2 DEF Roots, Top
<1>4. TxTrees(t)'
  BY <1>1, <1>2, <1>3 DEF TxOK, TxTrees
<1>5. TxCounts(t)'
  BY <1>2 DEF TxOK, TxCounts
<1>6. TxUnused(t)'
  BY DEF TxOK, TxUnused
<1>7. TxStaged(t)'
  BY <1>1 DEF TxOK, TxStaged, Committing
<1> QED BY <1>4, <1>5, <1>6, <1>7 DEF TxOK

\* Transactions without the gate are left alone.
LEMMA FreshKept ==
    ASSUME GateInv, NEW u \in Txs, gate # u,
           UNCHANGED <<priv[u], newPages[u], delta[u], did[u], pc[u]>>
    PROVE  Fresh(u)'
BY DEF GateInv, Fresh

LEMMA ReadMetaStep ==
    ASSUME Gated, GateInv, NEW t \in Txs, NEW tb \in Tables, ReadMeta(t, tb)
    PROVE  GateInv'
<1>1. /\ pc[t] = "active" /\ gate \in {Nobody, t} /\ gate' = t
      /\ pc' = [pc EXCEPT ![t] = "read"]
      /\ cur' = [cur EXCEPT ![t] = [tb |-> tb, root |-> Root(t, tb), next |-> NextId(t, tb)]]
      /\ UNCHANGED <<pages, numPages, meta, holder, priv, newPages, delta, did, committed, rd>>
  BY DEF ReadMeta, Root, NextId
<1>2. Types
  BY DEF GateInv
<1>3. ~InCommit /\ TablesOK
  BY <1>1, OneAtATime DEF GateInv, Committing
<1>4. TxOK(t)
  BY <1>1, <1>2, <1>3, FreshTx, GateAssumption DEF GateInv
<1>5. Types'
  BY <1>1, <1>2 DEF Types
<1>6. TxRead(t)'
  <2>1. cur'[t] = [tb |-> tb, root |-> Root(t, tb), next |-> NextId(t, tb)]
    BY <1>1, <1>2 DEF Types
  <2> QED BY <1>1, <2>1 DEF TxRead, Root, NextId
<1>7. TxOK(t)'
  BY <1>1, <1>2, <1>4, <1>6, TxKept DEF Types
<1>8. \A u \in Txs : u # t => gate # u /\ pc'[u] = pc[u]
  BY <1>1, <1>2, GateAssumption DEF Types
<1>9. \A u \in Txs : gate' # u => Fresh(u)'
  BY <1>1, <1>8, FreshKept
<1>10. \A u \in Txs : Committing(u)' <=> Committing(u)
  BY <1>1, <1>2 DEF Committing, Types
<1>11. ~InCommit' => TablesOK'
  <2>1. InCommit' <=> InCommit
    BY <1>10 DEF InCommit, Committing
  <2> QED BY <1>1, <2>1, TablesKept
<1>12. \A r \in Readers : ReaderOK(r)'
  BY <1>1, <1>10, ReadersKept
<1> QED BY <1>1, <1>5, <1>7, <1>9, <1>11, <1>12 DEF GateInv

LEMMA RefuseStep ==
    ASSUME Gated, GateInv, NEW t \in Txs, Refuse(t)
    PROVE  GateInv'
<1>1. /\ pc[t] = "read" /\ pc' = [pc EXCEPT ![t] = "active"] /\ cur' = [cur EXCEPT ![t] = NoCur]
      /\ UNCHANGED <<pages, numPages, meta, holder, gate, priv, newPages, delta, did, committed, rd>>
  BY DEF Refuse
<1>2. Types
  BY DEF GateInv
<1>4. gate = t /\ TxOK(t)
  BY <1>1, OneAtATime DEF GateInv
<1>5. Types'
  BY <1>1, <1>2 DEF Types
<1>6. TxRead(t)'
  BY <1>1, <1>2 DEF TxRead, Types
<1>7. TxOK(t)'
  BY <1>1, <1>2, <1>4, <1>6, TxKept DEF Types
<1>8. \A u \in Txs : u # t => gate # u /\ pc'[u] = pc[u]
  BY <1>1, <1>2, <1>4 DEF Types
<1>9. \A u \in Txs : gate' # u => Fresh(u)'
  BY <1>1, <1>4, <1>8, FreshKept
<1>10. \A u \in Txs : Committing(u)' <=> Committing(u)
  BY <1>1, <1>2 DEF Committing, Types
<1>11. ~InCommit' => TablesOK'
  <2>1. InCommit' <=> InCommit
    BY <1>10 DEF InCommit, Committing
  <2> QED BY <1>1, <2>1, TablesKept
<1>12. \A r \in Readers : ReaderOK(r)'
  BY <1>1, <1>10, ReadersKept
<1> QED BY <1>1, <1>4, <1>5, <1>7, <1>9, <1>11, <1>12 DEF GateInv

\* What Stage leaves alone.
LEMMA StageFrame ==
    ASSUME GateInv, NEW t \in Txs, pc[t] = "read", pc' = [pc EXCEPT ![t] = "active"],
           UNCHANGED <<pages, numPages, meta, gate, committed, rd>>,
           \A u \in Txs : u # t => UNCHANGED <<priv[u], newPages[u], delta[u], did[u]>>
    PROVE  /\ gate = t /\ TxOK(t)
           /\ \A u \in Txs : gate' # u => Fresh(u)'
           /\ ~InCommit' => TablesOK'
           /\ \A r \in Readers : ReaderOK(r)'
           /\ TxRead(t)'
<1>2. Types
  BY DEF GateInv
<1>4. gate = t /\ TxOK(t)
  BY OneAtATime DEF GateInv
<1>8. \A u \in Txs : u # t => gate # u /\ pc'[u] = pc[u]
  BY <1>2, <1>4 DEF Types
<1>9. \A u \in Txs : gate' # u => Fresh(u)'
  BY <1>4, <1>8, FreshKept
<1>10. \A u \in Txs : Committing(u)' <=> Committing(u)
  BY <1>2 DEF Committing, Types
<1>11. ~InCommit' => TablesOK'
  <2>1. InCommit' <=> InCommit
    BY <1>10 DEF InCommit, Committing
  <2> QED BY <2>1, TablesKept
<1>12. \A r \in Readers : ReaderOK(r)'
  <2>1. \A u \in Txs : Committing(u) => u # t
    BY DEF Committing
  <2> QED BY <1>10, <2>1, ReadersKept
<1>13. TxRead(t)'
  BY <1>2 DEF TxRead, Types
<1> QED BY <1>4, <1>9, <1>11, <1>12, <1>13

\* Staged pages go over what the transaction saw.
LEMMA OverlayStaged ==
    ASSUME Types, NEW t \in Txs, NEW w, DOMAIN w \subseteq Page, pages' = pages,
           priv' = [priv EXCEPT ![t] = Over(w, @)]
    PROVE  /\ IsOver(Overlay(t)', w, Overlay(t))
           /\ DOMAIN priv'[t] = DOMAIN w \cup DOMAIN priv[t]
<1>1. priv'[t] = Over(w, priv[t])
  BY DEF Types
<1>2. /\ DOMAIN priv'[t] = DOMAIN w \cup DOMAIN priv[t]
      /\ \A p \in DOMAIN w : priv'[t][p] = w[p]
      /\ \A p \in DOMAIN priv[t] : p \notin DOMAIN w => priv'[t][p] = priv[t][p]
  BY <1>1 DEF Over
<1>3. IsOver(Overlay(t)', w, Overlay(t))
  BY <1>2 DEF IsOver, Overlay
<1> QED BY <1>2, <1>3

LEMMA WritesSomething ==
    ASSUME NEW v, NEW r, NEW x, NEW f
    PROVE  /\ LeafOf(v, r, x) \in DOMAIN TreeInsert(v, r, x, f).writes
           /\ DOMAIN TreeDelete(v, r, x).writes = {LeafOf(v, r, x)}
BY DEF TreeInsert, TreeDelete

\* The tables a transaction has not changed are the same in its view.
LEMMA UnusedSame ==
    ASSUME Types, NEW t \in Txs, TxOK(t), pc[t] # "counted", NEW b \in Tables, ~delta[t][b].used
    PROVE  /\ PagesFrom(Overlay(t), Root(t, b)) = PagesFrom(pages, meta[b].root)
           /\ Root(t, b) = meta[b].root
           /\ \A x : LeafOf(Overlay(t), Root(t, b), x) = LeafOf(pages, meta[b].root, x)
<1> DEFINE r == meta[b].root
<1>1. Root(t, b) = r
  BY DEF Root
<1>2. r \in PagesFrom(pages, r) /\ r \notin DOMAIN priv[t]
  <2>1. PagesFrom(pages, r) \cap DOMAIN priv[t] = {}
    BY DEF TxOK, TxUnused
  <2> QED BY <2>1 DEF PagesFrom
<1>3. r \in Page
  <2>1. TreeOK(MaxRow, Overlay(t), Roots(t)[b])
    BY DEF TxOK, TxTrees, Forest
  <2> QED BY <1>1, <2>1 DEF TreeOK, Roots, Overlay
<1>4. Overlay(t)[r] = pages[r]
  BY <1>2, <1>3 DEF Overlay
<1> QED BY <1>1, <1>4 DEF PagesFrom, LeafOf

\* AcidTransaction::insert keeps the invariant.
LEMMA InsertStep ==
    ASSUME Gated, GateInv, NEW t \in Txs, Insert(t)
    PROVE  GateInv'
<1>1. Types
  BY DEF GateInv
<1>2. pc[t] = "read" /\ gate = t /\ TxOK(t)
  BY OneAtATime DEF GateInv, Insert
<1>a. PICK tb \in Tables : tb = cur[t].tb
  BY <1>2 DEF TxOK, TxRead
<1>b. PICK x : x = cur[t].next
  OBVIOUS
<1> DEFINE v == Overlay(t)
           u == Overlay(t)'
           r == Root(t, tb)
           n == Top(t)
           w == TreeInsert(v, r, x, n)
           R == Roots(t)
<1>3. tb \in Tables /\ tb = cur[t].tb /\ cur[t].root = r /\ x = NextId(t, tb) /\ x = cur[t].next
  BY <1>2, <1>a, <1>b DEF TxOK, TxRead
<1>4. n = numPages + newPages[t] /\ n \in Nat /\ n > 0
  <2>1. numPages \in Nat \ {0} /\ newPages[t] \in Nat
    BY <1>1 DEF Types
  <2>2. n = numPages + newPages[t]
    BY <1>2 DEF Top
  <2> QED BY <2>1, <2>2
<1>5. /\ x \in RowIds /\ x \notin RowsFrom(v, r) /\ DOMAIN w.writes \subseteq Page
      /\ priv' = [priv EXCEPT ![t] = Over(w.writes, @)]
      /\ newPages' = [newPages EXCEPT ![t] = @ + w.allocated]
      /\ delta' = [delta EXCEPT ![t][tb] = [root |-> w.root, rows |-> delta[t][tb].rows + 1,
                                            next |-> x + 1, used |-> TRUE]]
      /\ did' = [did EXCEPT ![t][tb] = [ins |-> did[t][tb].ins \cup {x}, del |-> did[t][tb].del \ {x}]]
      /\ pc' = [pc EXCEPT ![t] = "active"] /\ cur' = [cur EXCEPT ![t] = NoCur]
      /\ UNCHANGED <<pages, numPages, meta, holder, gate, committed, rd>>
  BY <1>3, <1>4 DEF Insert, Stage
<1>6. IsOver(u, w.writes, v) /\ DOMAIN priv'[t] = DOMAIN w.writes \cup DOMAIN priv[t]
  <2> HIDE DEF w
  <2> QED BY <1>1, <1>5, OverlayStaged
<1>7. Forest(MaxRow, Tables, v, R, n) /\ n <= MaxPages /\ R[tb] = r
  BY <1>2, <1>3 DEF TxOK, TxTrees, Roots
<1>8. ForestInserted(MaxRow, Tables, v, R, n, tb, x, u)
  <2>1. IsOver(u, TreeInsert(v, R[tb], x, n).writes, v)
    BY <1>6, <1>7
  <2>2. x \in 1 .. MaxRow /\ MaxRow \in Nat
    BY <1>5, ShapeAssumption DEF RowIds
  <2> HIDE DEF v, u, n, R
  <2> QED BY <2>1, <2>2, <1>3, <1>4, <1>7, ForestInsert
<1>9. /\ w.allocated \in Nat /\ w.root \in Nat
      /\ Forest(MaxRow, Tables, u, Moved(Tables, R, tb, w.root), n + w.allocated)
      /\ RowsFrom(u, w.root) = RowsFrom(v, r) \cup {x}
      /\ PagesFrom(u, w.root) = PagesFrom(v, r) \cup (n .. n + w.allocated - 1)
      /\ DOMAIN w.writes \subseteq PagesFrom(u, w.root)
      /\ n .. n + w.allocated - 1 \subseteq DOMAIN w.writes
      /\ \A b \in Tables \ {tb} : /\ RowsFrom(u, R[b]) = RowsFrom(v, R[b])
                                  /\ PagesFrom(u, R[b]) = PagesFrom(v, R[b])
  BY <1>7, <1>8 DEF ForestInserted
<1>10. DOMAIN w.writes # {}
  BY WritesSomething
<1> HIDE DEF w
<1>11. Types'
  <2>1. x + 1 \in Nat /\ delta[t][tb].rows + 1 \in Int
    BY <1>1, <1>3, <1>5, ShapeAssumption DEF Types, RowIds
  <2>2. delta' \in [Txs -> [Tables -> [root : Nat, rows : Int, next : Nat, used : BOOLEAN]]]
    BY <1>1, <1>3, <1>5, <1>9, <2>1 DEF Types
  <2>3. did' \in [Txs -> [Tables -> [ins : SUBSET RowIds, del : SUBSET RowIds]]]
    BY <1>1, <1>3, <1>5 DEF Types
  <2>4. newPages' \in [Txs -> Nat] /\ pc' \in [Txs -> {"active", "read", "published", "counted"}]
    BY <1>1, <1>5, <1>9 DEF Types
  <2>5. DOMAIN priv' = Txs /\ \A s \in Txs : DOMAIN priv'[s] \subseteq Page
    BY <1>1, <1>5, <1>6 DEF Types
  <2> QED BY <1>1, <1>5, <2>2, <2>3, <2>4, <2>5 DEF Types
<1>12. \A s \in Txs : s # t => UNCHANGED <<priv[s], newPages[s], delta[s], did[s]>>
  BY <1>1, <1>5 DEF Types
<1>13. /\ \A s \in Txs : gate' # s => Fresh(s)'
       /\ ~InCommit' => TablesOK'
       /\ \A s \in Readers : ReaderOK(s)'
       /\ TxRead(t)'
  BY <1>2, <1>5, <1>12, StageFrame
<1>14. /\ delta'[t][tb] = [root |-> w.root, rows |-> delta[t][tb].rows + 1, next |-> x + 1, used |-> TRUE]
       /\ did'[t][tb] = [ins |-> did[t][tb].ins \cup {x}, del |-> did[t][tb].del \ {x}]
       /\ \A b \in Tables \ {tb} : delta'[t][b] = delta[t][b] /\ did'[t][b] = did[t][b]
  BY <1>1, <1>3, <1>5 DEF Types
<1>15. /\ Root(t, tb)' = w.root /\ NextId(t, tb)' = x + 1 /\ Rows(t, tb)' = Rows(t, tb) \cup {x}
       /\ \A b \in Tables \ {tb} : /\ Root(t, b)' = Root(t, b) /\ NextId(t, b)' = NextId(t, b)
                                   /\ Rows(t, b)' = Rows(t, b)
  <2>1. Root(t, tb)' = w.root /\ NextId(t, tb)' = x + 1
    BY <1>14 DEF Root, NextId
  <2>2. Rows(t, tb)' = Rows(t, tb) \cup {x}
    <3>1. /\ committed' = committed /\ did'[t][tb].ins = did[t][tb].ins \cup {x}
          /\ did'[t][tb].del = did[t][tb].del \ {x}
      BY <1>5, <1>14
    <3> QED BY <3>1 DEF Rows
  <2>3. \A b \in Tables \ {tb} : /\ Root(t, b)' = Root(t, b) /\ NextId(t, b)' = NextId(t, b)
                                 /\ Rows(t, b)' = Rows(t, b)
    BY <1>5, <1>14 DEF Root, NextId, Rows
  <2> QED BY <2>1, <2>2, <2>3
<1>16. Roots(t)' = Moved(Tables, R, tb, w.root)
  BY <1>3, <1>15 DEF Roots, Moved
<1>17. Top(t)' = n + w.allocated /\ Top(t)' <= MaxPages
  <2>1. pc'[t] = "active" /\ newPages'[t] = newPages[t] + w.allocated
    BY <1>1, <1>5 DEF Types
  <2>2. Top(t)' = n + w.allocated
    BY <1>1, <1>4, <1>5, <1>9, <2>1 DEF Top, Types
  <2>3. CASE w.allocated = 0
    BY <2>2, <2>3, <1>4, <1>7
  <2>4. CASE w.allocated > 0
    <3>1. n + w.allocated - 1 \in n .. n + w.allocated - 1
      BY <2>4, <1>4, <1>9
    <3>2. n + w.allocated - 1 \in Page
      BY <3>1, <1>5, <1>9
    <3> QED BY <3>2, <2>2, <1>4, <1>9, ShapeAssumption DEF Page
  <2> QED BY <2>3, <2>4, <1>9
<1>18. TxTrees(t)'
  <2>1. \A b \in Tables : RowsFrom(v, Root(t, b)) = Rows(t, b) /\ R[b] = Root(t, b)
    BY <1>2 DEF TxOK, TxTrees, Roots
  <2>2. \A b \in Tables : RowsFrom(u, Root(t, b)') = Rows(t, b)'
    BY <2>1, <1>3, <1>9, <1>15
  <2> QED BY <2>2, <1>9, <1>16, <1>17 DEF TxTrees
<1>19. TxCounts(t)'
  <2>1. \A b \in Tables : /\ meta[b].rows + delta[t][b].rows = Cardinality(Rows(t, b))
                          /\ \A y \in Rows(t, b) : y < NextId(t, b)
    BY <1>2 DEF TxOK, TxCounts
  <2>2. IsFiniteSet(Rows(t, tb)) /\ Cardinality(Rows(t, tb)) \in Nat /\ Rows(t, tb) \subseteq RowIds
    BY <1>1, <1>3, RowsFinite
  <2>3. x \notin Rows(t, tb)
    BY <1>2, <1>3, <1>5 DEF TxOK, TxTrees
  <2>4. Cardinality(Rows(t, tb) \cup {x}) = Cardinality(Rows(t, tb)) + 1
    BY <2>2, <2>3, FS_AddElement
  <2>5. meta'[tb].rows + delta'[t][tb].rows = Cardinality(Rows(t, tb)')
    <3>1. meta[tb].rows \in Int /\ delta[t][tb].rows \in Int
      BY <1>1, <1>3 DEF Types
    <3>2. meta'[tb].rows = meta[tb].rows /\ delta'[t][tb].rows = delta[t][tb].rows + 1
      BY <1>5, <1>14
    <3>3. meta[tb].rows + delta[t][tb].rows = Cardinality(Rows(t, tb))
      BY <2>1, <1>3
    <3> QED BY <3>1, <3>2, <3>3, <2>4, <1>15
  <2>6. \A y \in Rows(t, tb)' : y < NextId(t, tb)'
    <3>1. \A y \in Rows(t, tb) : y < x /\ y \in Nat
      <4>1. \A y \in Rows(t, tb) : y < NextId(t, tb)
        BY <2>1
      <4>2. \A y \in Rows(t, tb) : y \in Nat
        BY <2>2, ShapeAssumption DEF RowIds
      <4> QED BY <1>3, <4>1, <4>2
    <3>2. x \in Nat
      BY <1>5, ShapeAssumption DEF RowIds

    <3> QED BY <3>1, <3>2, <1>15
  <2> QED BY <2>1, <2>5, <2>6, <1>5, <1>14, <1>15 DEF TxCounts
<1>20. TxUnused(t)'
  <2> SUFFICES ASSUME NEW b \in Tables, ~delta'[t][b].used
               PROVE  /\ delta'[t][b] = NoDelta
                      /\ did'[t][b] = [ins |-> {}, del |-> {}]
                      /\ PagesFrom(pages', meta'[b].root) \cap DOMAIN priv'[t] = {}
    BY DEF TxUnused
  <2>1. b # tb /\ ~delta[t][b].used
    BY <1>14
  <2>2. /\ delta[t][b] = NoDelta /\ did[t][b] = [ins |-> {}, del |-> {}]
        /\ PagesFrom(pages, meta[b].root) \cap DOMAIN priv[t] = {}
    BY <1>2, <2>1 DEF TxOK, TxUnused
  <2>3. PagesFrom(v, R[b]) = PagesFrom(pages, meta[b].root)
    BY <1>1, <1>2, <2>1, UnusedSame DEF Roots
  <2>4. PagesFrom(u, w.root) \cap PagesFrom(v, R[b]) = {}
    <3> DEFINE Q == Moved(Tables, R, tb, w.root)
    <3>1. Q[tb] = w.root /\ Q[b] = R[b]
      BY <1>3, <2>1 DEF Moved
    <3> HIDE DEF Q
    <3>2. PagesFrom(u, Q[tb]) \cap PagesFrom(u, Q[b]) = {}
      BY <1>3, <1>9, <2>1 DEF Forest, Q
    <3> QED BY <3>1, <3>2, <1>9, <2>1
  <2>5. PagesFrom(pages, meta[b].root) \cap DOMAIN w.writes = {}
    BY <1>9, <2>3, <2>4
  <2> QED BY <1>5, <1>6, <1>14, <2>1, <2>2, <2>5
<1>21. TxStaged(t)'
  <2>1. DOMAIN priv'[t] # {}
    BY <1>6, <1>10
  <2>2. pc'[t] = "active"
    BY <1>1, <1>5 DEF Types
  <2>3. \A b \in Tables : did'[t][b].ins \cap did'[t][b].del = {}
    BY <1>2, <1>14 DEF TxOK, TxStaged
  <2> QED BY <2>1, <2>2, <2>3 DEF TxStaged, Committing
<1>22. TxOK(t)'
  BY <1>13, <1>18, <1>19, <1>20, <1>21 DEF TxOK
<1> QED BY <1>2, <1>5, <1>11, <1>13, <1>22 DEF GateInv

\* AcidTransaction::delete keeps the invariant.
LEMMA DeleteStep ==
    ASSUME Gated, GateInv, NEW t \in Txs, NEW x \in RowIds, Delete(t, x)
    PROVE  GateInv'
<1>1. Types
  BY DEF GateInv
<1>2. pc[t] = "read" /\ gate = t /\ TxOK(t)
  BY OneAtATime DEF GateInv, Delete
<1>a. PICK tb \in Tables : tb = cur[t].tb
  BY <1>2 DEF TxOK, TxRead
<1> DEFINE v == Overlay(t)
           u == Overlay(t)'
           r == Root(t, tb)
           n == Top(t)
           w == TreeDelete(v, r, x)
           R == Roots(t)
<1>3. tb \in Tables /\ tb = cur[t].tb /\ cur[t].root = r /\ cur[t].next = NextId(t, tb)
  BY <1>2, <1>a DEF TxOK, TxRead
<1>4. n = numPages + newPages[t] /\ n \in Nat
  <2>1. numPages \in Nat \ {0} /\ newPages[t] \in Nat
    BY <1>1 DEF Types
  <2>2. n = numPages + newPages[t]
    BY <1>2 DEF Top
  <2> QED BY <2>1, <2>2
<1>b. PICK nx : nx = NextId(t, tb)
  OBVIOUS
<1>5. /\ x \in v[LeafOf(v, r, x)].rows
      /\ priv' = [priv EXCEPT ![t] = Over(w.writes, @)]
      /\ newPages' = [newPages EXCEPT ![t] = @ + w.allocated]
      /\ delta' = [delta EXCEPT ![t][tb] = [root |-> w.root, rows |-> delta[t][tb].rows + (-1),
                                            next |-> nx, used |-> TRUE]]
      /\ did' = [did EXCEPT ![t][tb] = [ins |-> did[t][tb].ins \ {x}, del |-> did[t][tb].del \cup {x}]]
      /\ pc' = [pc EXCEPT ![t] = "active"] /\ cur' = [cur EXCEPT ![t] = NoCur]
      /\ UNCHANGED <<pages, numPages, meta, holder, gate, committed, rd>>
  BY <1>3, <1>b DEF Delete, Stage
<1>7. Forest(MaxRow, Tables, v, R, n) /\ n <= MaxPages /\ R[tb] = r
  BY <1>2, <1>3 DEF TxOK, TxTrees, Roots
<1>c. TreeOK(MaxRow, v, r) /\ MaxRow \in Nat /\ x \in 1 .. MaxRow
  BY <1>7, ShapeAssumption DEF Forest, RowIds
<1>d. DOMAIN w.writes = {LeafOf(v, r, x)} /\ LeafOf(v, r, x) \in Page
  <2>1. LeafOf(v, r, x) \in DOMAIN v
    <3> HIDE DEF v, r
    <3> QED BY <1>c, LeafFound
  <2>2. DOMAIN v = Page
    BY DEF Overlay
  <2> QED BY <2>1, <2>2, WritesSomething
<1>6. IsOver(u, w.writes, v) /\ DOMAIN priv'[t] = DOMAIN w.writes \cup DOMAIN priv[t]
  <2> HIDE DEF w
  <2>1. DOMAIN w.writes \subseteq Page
    BY <1>d
  <2> QED BY <1>1, <1>5, <2>1, OverlayStaged
<1>9. /\ w.allocated = 0 /\ w.root = r
      /\ Forest(MaxRow, Tables, u, R, n)
      /\ RowsFrom(u, r) = RowsFrom(v, r) \ {x}
      /\ \A b \in Tables \ {tb} : RowsFrom(u, R[b]) = RowsFrom(v, R[b])
      /\ DOMAIN w.writes \subseteq PagesFrom(v, r)
  <2>1. IsOver(u, TreeDelete(v, R[tb], x).writes, v) /\ x \in v[LeafOf(v, R[tb], x)].rows
    BY <1>5, <1>6, <1>7
  <2>2. ForestDeleted(MaxRow, Tables, v, R, n, tb, x, u)
    <3> HIDE DEF v, u, n, R
    <3> QED BY <2>1, <1>3, <1>4, <1>7, <1>c, ForestDelete
  <2> QED BY <2>2, <1>7 DEF ForestDeleted
<1> HIDE DEF w
<1>e. delta[t][tb].rows + (-1) = delta[t][tb].rows - 1 /\ delta[t][tb].rows - 1 \in Int /\ nx \in Nat /\ r \in Nat
  <2>1. delta[t][tb].rows \in Int
    BY <1>1, <1>3 DEF Types
  <2>2. nx \in Nat
    BY <1>1, <1>3, <1>b DEF Types, NextId
  <2>3. r \in Nat
    BY <1>1, <1>3 DEF Types, Root
  <2> QED BY <2>1, <2>2, <2>3
<1>11. Types'
  <2>2. delta' \in [Txs -> [Tables -> [root : Nat, rows : Int, next : Nat, used : BOOLEAN]]]
    BY <1>1, <1>3, <1>5, <1>9, <1>e DEF Types
  <2>3. did' \in [Txs -> [Tables -> [ins : SUBSET RowIds, del : SUBSET RowIds]]]
    BY <1>1, <1>3, <1>5 DEF Types
  <2>4. newPages' \in [Txs -> Nat] /\ pc' \in [Txs -> {"active", "read", "published", "counted"}]
    BY <1>1, <1>5, <1>9 DEF Types
  <2>5. DOMAIN priv' = Txs /\ \A s \in Txs : DOMAIN priv'[s] \subseteq Page
    BY <1>1, <1>5, <1>6, <1>d DEF Types
  <2> QED BY <1>1, <1>5, <2>2, <2>3, <2>4, <2>5 DEF Types
<1>12. \A s \in Txs : s # t => UNCHANGED <<priv[s], newPages[s], delta[s], did[s]>>
  BY <1>1, <1>5 DEF Types
<1>13. /\ \A s \in Txs : gate' # s => Fresh(s)'
       /\ ~InCommit' => TablesOK'
       /\ \A s \in Readers : ReaderOK(s)'
       /\ TxRead(t)'
  BY <1>2, <1>5, <1>12, StageFrame
<1>14. /\ delta'[t][tb] = [root |-> r, rows |-> delta[t][tb].rows - 1, next |-> nx, used |-> TRUE]
       /\ did'[t][tb] = [ins |-> did[t][tb].ins \ {x}, del |-> did[t][tb].del \cup {x}]
       /\ \A b \in Tables \ {tb} : delta'[t][b] = delta[t][b] /\ did'[t][b] = did[t][b]
  BY <1>1, <1>3, <1>5, <1>9, <1>e DEF Types
<1>f. tb \in Tables /\ \A b \in Tables : R[b] = Root(t, b)
  BY <1>3 DEF Roots
<1>15. /\ Rows(t, tb)' = Rows(t, tb) \ {x}
       /\ \A b \in Tables : Root(t, b)' = Root(t, b) /\ NextId(t, b)' = NextId(t, b)
       /\ \A b \in Tables \ {tb} : Rows(t, b)' = Rows(t, b)
  <2>1. Root(t, tb)' = r /\ NextId(t, tb)' = nx
    BY <1>14 DEF Root, NextId
  <2>2. Rows(t, tb)' = Rows(t, tb) \ {x}
    <3>1. /\ committed' = committed /\ did'[t][tb].ins = did[t][tb].ins \ {x}
          /\ did'[t][tb].del = did[t][tb].del \cup {x}
      BY <1>5, <1>14
    <3> QED BY <3>1 DEF Rows
  <2>3. \A b \in Tables \ {tb} : /\ Root(t, b)' = Root(t, b) /\ NextId(t, b)' = NextId(t, b)
                                 /\ Rows(t, b)' = Rows(t, b)
    BY <1>5, <1>14 DEF Root, NextId, Rows
  <2> QED BY <1>b, <2>1, <2>2, <2>3
<1>16. Roots(t)' = R
  BY <1>15 DEF Roots
<1>17. Top(t)' = n
  <2>1. pc'[t] = "active" /\ newPages'[t] = newPages[t] + 0
    BY <1>1, <1>5, <1>9 DEF Types
  <2>2. newPages[t] \in Nat /\ numPages' = numPages
    BY <1>1, <1>5 DEF Types
  <2> QED BY <1>4, <2>1, <2>2 DEF Top
<1>18. TxTrees(t)'
  <2>1. \A b \in Tables : RowsFrom(v, Root(t, b)) = Rows(t, b)
    BY <1>2 DEF TxOK, TxTrees
  <2>2. \A b \in Tables : RowsFrom(u, Root(t, b)') = Rows(t, b)'
    BY <2>1, <1>f, <1>9, <1>15
  <2> QED BY <2>2, <1>7, <1>9, <1>16, <1>17 DEF TxTrees
<1>19. TxCounts(t)'
  <2>1. \A b \in Tables : /\ meta[b].rows + delta[t][b].rows = Cardinality(Rows(t, b))
                          /\ \A y \in Rows(t, b) : y < NextId(t, b)
    BY <1>2 DEF TxOK, TxCounts
  <2>2. IsFiniteSet(Rows(t, tb)) /\ Cardinality(Rows(t, tb)) \in Nat
    BY <1>1, <1>3, RowsFinite
  <2>3. x \in Rows(t, tb)
    <3>1. x \in RowsFrom(v, r)
      <4> HIDE DEF v, r
      <4> QED BY <1>c, <1>5, LeafFound
    <3> QED BY <3>1, <1>2, <1>3 DEF TxOK, TxTrees
  <2>4. Cardinality(Rows(t, tb) \ {x}) = Cardinality(Rows(t, tb)) - 1
    BY <2>2, <2>3, FS_RemoveElement
  <2>5. meta'[tb].rows + delta'[t][tb].rows = Cardinality(Rows(t, tb)')
    <3>1. meta[tb].rows \in Int /\ delta[t][tb].rows \in Int
      BY <1>1, <1>3 DEF Types
    <3>2. meta'[tb].rows = meta[tb].rows /\ delta'[t][tb].rows = delta[t][tb].rows - 1
      BY <1>5, <1>14
    <3>3. meta[tb].rows + delta[t][tb].rows = Cardinality(Rows(t, tb))
      BY <2>1, <1>3
    <3> QED BY <3>1, <3>2, <3>3, <2>4, <1>15
  <2>6. \A y \in Rows(t, tb)' : y < NextId(t, tb)'
    BY <1>3, <1>15, <2>1
  <2> QED BY <2>1, <2>5, <2>6, <1>5, <1>14, <1>15 DEF TxCounts
<1>20. TxUnused(t)'
  <2> SUFFICES ASSUME NEW b \in Tables, ~delta'[t][b].used
               PROVE  /\ delta'[t][b] = NoDelta
                      /\ did'[t][b] = [ins |-> {}, del |-> {}]
                      /\ PagesFrom(pages', meta'[b].root) \cap DOMAIN priv'[t] = {}
    BY DEF TxUnused
  <2>1. b # tb /\ ~delta[t][b].used
    BY <1>14
  <2>2. /\ delta[t][b] = NoDelta /\ did[t][b] = [ins |-> {}, del |-> {}]
        /\ PagesFrom(pages, meta[b].root) \cap DOMAIN priv[t] = {}
    BY <1>2, <2>1 DEF TxOK, TxUnused
  <2>3. PagesFrom(v, R[b]) = PagesFrom(pages, meta[b].root)
    BY <1>1, <1>2, <2>1, UnusedSame DEF Roots
  <2>4. PagesFrom(v, R[tb]) \cap PagesFrom(v, R[b]) = {}
    BY <1>3, <1>7, <2>1 DEF Forest
  <2>5. PagesFrom(pages, meta[b].root) \cap DOMAIN w.writes = {}
    BY <1>7, <1>9, <2>3, <2>4
  <2> QED BY <1>5, <1>6, <1>14, <2>1, <2>2, <2>5
<1>21. TxStaged(t)'
  <2>1. DOMAIN priv'[t] # {}
    BY <1>6, <1>d
  <2>2. pc'[t] = "active"
    BY <1>1, <1>5 DEF Types
  <2>3. \A b \in Tables : did'[t][b].ins \cap did'[t][b].del = {}
    BY <1>2, <1>14 DEF TxOK, TxStaged
  <2> QED BY <2>1, <2>2, <2>3 DEF TxStaged, Committing
<1>22. TxOK(t)'
  BY <1>13, <1>18, <1>19, <1>20, <1>21 DEF TxOK
<1> QED BY <1>2, <1>5, <1>11, <1>13, <1>22 DEF GateInv

\* A transaction none of whose state changes.
LEMMA TxSame ==
    ASSUME NEW t \in Txs, TxOK(t), UNCHANGED <<pages, numPages, meta, committed>>,
           UNCHANGED <<priv[t], newPages[t], delta[t], did[t], pc[t], cur[t]>>
    PROVE  TxOK(t)'
<1>1. Overlay(t)' = Overlay(t)
  BY DEF Overlay
<1>2. \A tb \in Tables : Root(t, tb)' = Root(t, tb) /\ NextId(t, tb)' = NextId(t, tb) /\ Rows(t, tb)' = Rows(t, tb)
  BY DEF Root, NextId, Rows
<1>3. Roots(t)' = Roots(t) /\ Top(t)' = Top(t)
  BY <1>2 DEF Roots, Top
<1>4. TxTrees(t)'
  BY <1>1, <1>2, <1>3 DEF TxOK, TxTrees
<1>5. TxCounts(t)'
  BY <1>2 DEF TxOK, TxCounts
<1>6. TxUnused(t)'
  BY DEF TxOK, TxUnused
<1>7. TxStaged(t)'
  BY <1>1 DEF TxOK, TxStaged, Committing
<1>8. TxRead(t)'
  BY <1>2 DEF TxOK, TxRead
<1> QED BY <1>4, <1>5, <1>6, <1>7, <1>8 DEF TxOK

\* commit() publishes the private pages.
LEMMA PublishStep ==
    ASSUME Gated, GateInv, NEW t \in Txs, Publish(t)
    PROVE  GateInv'
<1>1. /\ pc[t] = "active" /\ DOMAIN priv[t] # {} /\ holder' = t /\ pages' = Overlay(t)
      /\ pc' = [pc EXCEPT ![t] = "published"]
      /\ UNCHANGED <<numPages, meta, gate, cur, priv, newPages, delta, did, committed, rd>>
  BY DEF Publish
<1>2. Types
  BY DEF GateInv
<1>3. gate = t /\ TxOK(t)
  BY <1>1 DEF GateInv, Fresh
<1>4. pc'[t] = "published" /\ \A u \in Txs : u # t => gate # u /\ pc'[u] = pc[u]
  BY <1>1, <1>2, <1>3 DEF Types
<1>5. Overlay(t)' = Overlay(t)
  BY <1>1 DEF Overlay
<1>6. Types'
  <2>1. pages' = [p \in Page |-> pages'[p]]
    BY <1>1 DEF Overlay
  <2> QED BY <1>1, <1>2, <2>1 DEF Types
<1>7. \A u \in Txs : gate' # u => Fresh(u)'
  BY <1>1, <1>3, <1>4, FreshKept
<1>8. InCommit'
  BY <1>4 DEF InCommit
<1>9. \A tb \in Tables : Root(t, tb)' = Root(t, tb) /\ NextId(t, tb)' = NextId(t, tb) /\ Rows(t, tb)' = Rows(t, tb)
  BY <1>1 DEF Root, NextId, Rows
<1>10. Roots(t)' = Roots(t) /\ Top(t)' = Top(t)
  BY <1>1, <1>4, <1>9 DEF Roots, Top
<1>11. TxTrees(t)'
  BY <1>3, <1>5, <1>9, <1>10 DEF TxOK, TxTrees
<1>12. TxCounts(t)'
  BY <1>1, <1>3, <1>9 DEF TxOK, TxCounts
<1>13. \A b \in Tables : ~delta[t][b].used =>
          /\ PagesFrom(Overlay(t), Root(t, b)) = PagesFrom(pages, meta[b].root)
          /\ Root(t, b) = meta[b].root
          /\ \A x : LeafOf(Overlay(t), Root(t, b), x) = LeafOf(pages, meta[b].root, x)
  BY <1>1, <1>2, <1>3, UnusedSame
<1>14. TxUnused(t)'
  <2>1. \A b \in Tables : ~delta[t][b].used => PagesFrom(pages', meta'[b].root) = PagesFrom(pages, meta[b].root)
    BY <1>1, <1>13
  <2> QED BY <1>1, <1>3, <2>1 DEF TxOK, TxUnused
<1>15. TxStaged(t)'
  BY <1>1, <1>3, <1>5 DEF TxOK, TxStaged
<1>16. TxRead(t)'
  BY <1>4 DEF TxRead
<1>17. \A r \in Readers : ReaderOK(r)'
  <2> SUFFICES ASSUME NEW r \in Readers PROVE ReaderOK(r)'
    OBVIOUS
  <2>1. ReaderOK(r) /\ rd' = rd /\ ReaderType(rd[r])
    BY <1>1 DEF GateInv, Types
  <2>2. ~MetUnapplied(r)
    BY <1>1, <1>3, OneAtATime DEF MetUnapplied, Committing
  <2>3. ASSUME rd[r].at = "page", OnPath(r) PROVE OnPath(r)' \/ MetUnapplied(r)'
    <3>1. rd[r].tb \in Tables
      BY <2>1, <2>3 DEF ReaderType
    <3>2. CASE delta[t][rd[r].tb].used
      BY <1>1, <1>4, <3>2, <2>1 DEF MetUnapplied, Committing
    <3>3. CASE ~delta[t][rd[r].tb].used
      <4>1. did[t][rd[r].tb] = [ins |-> {}, del |-> {}]
        BY <1>1, <1>3, <3>1, <3>3 DEF TxOK, TxUnused
      <4>2. LeafOf(pages', meta'[rd[r].tb].root, rd[r].row) = LeafOf(pages, meta[rd[r].tb].root, rd[r].row)
        BY <1>1, <1>13, <3>1, <3>3
      <4>3. \A u \in Txs : Committing(u)' => u = t
        BY <1>4, OneAtATime DEF Committing
      <4> QED BY <1>1, <2>1, <2>3, <4>1, <4>2, <4>3 DEF OnPath
    <3> QED BY <3>2, <3>3
  <2> QED BY <2>1, <2>2, <2>3 DEF ReaderOK
<1> QED BY <1>1, <1>3, <1>6, <1>7, <1>8, <1>11, <1>12, <1>14, <1>15, <1>16, <1>17 DEF GateInv, TxOK

\* commit() bumps num_pages and releases the write mutex.
LEMMA ReleaseStep ==
    ASSUME Gated, GateInv, NEW t \in Txs, Release(t)
    PROVE  GateInv'
<1>1. /\ pc[t] = "published" /\ numPages' = numPages + newPages[t] /\ holder' = Nobody
      /\ pc' = [pc EXCEPT ![t] = "counted"]
      /\ UNCHANGED <<pages, meta, gate, cur, priv, newPages, delta, did, committed, rd>>
  BY DEF Release, Grown
<1>2. Types
  BY DEF GateInv
<1>3. gate = t /\ TxOK(t)
  BY <1>1, OneAtATime DEF GateInv
<1>4. pc'[t] = "counted" /\ \A u \in Txs : u # t => gate # u /\ pc'[u] = pc[u]
  BY <1>1, <1>2, <1>3 DEF Types
<1>5. Overlay(t)' = Overlay(t)
  BY <1>1 DEF Overlay
<1>9. \A tb \in Tables : Root(t, tb)' = Root(t, tb) /\ NextId(t, tb)' = NextId(t, tb) /\ Rows(t, tb)' = Rows(t, tb)
  BY <1>1 DEF Root, NextId, Rows
<1>10. Roots(t)' = Roots(t) /\ Top(t)' = Top(t) /\ numPages' = Top(t)
  BY <1>1, <1>4, <1>9 DEF Roots, Top
<1>11. TxTrees(t)'
  BY <1>3, <1>5, <1>9, <1>10 DEF TxOK, TxTrees
<1>6. Types'
  <2>1. numPages' \in Nat \ {0} /\ numPages' <= MaxPages
    <3>1. numPages \in Nat \ {0} /\ newPages[t] \in Nat
      BY <1>2 DEF Types
    <3>2. numPages' <= MaxPages
      BY <1>3, <1>10 DEF TxOK, TxTrees
    <3> QED BY <1>1, <3>1, <3>2
  <2> QED BY <1>1, <1>2, <2>1 DEF Types
<1>7. \A u \in Txs : gate' # u => Fresh(u)'
  BY <1>1, <1>3, <1>4, FreshKept
<1>8. InCommit'
  BY <1>4 DEF InCommit
<1>12. TxCounts(t)'
  BY <1>1, <1>3, <1>9 DEF TxOK, TxCounts
<1>14. TxUnused(t)'
  BY <1>1, <1>3, <1>4 DEF TxOK, TxUnused
<1>15. TxStaged(t)'
  BY <1>1, <1>3, <1>5 DEF TxOK, TxStaged, Committing
<1>16. TxRead(t)'
  BY <1>4 DEF TxRead
<1>17. \A r \in Readers : ReaderOK(r)'
  <2>1. \A u \in Txs : Committing(u)' <=> Committing(u)
    BY <1>1, <1>4 DEF Committing
  <2> QED BY <1>1, <2>1, ReadersKept
<1> QED BY <1>1, <1>3, <1>6, <1>7, <1>8, <1>11, <1>12, <1>14, <1>15, <1>16, <1>17 DEF GateInv, TxOK

\* commit() applies the delta of one table.
LEMMA ApplyMetaStep ==
    ASSUME Gated, GateInv, NEW t \in Txs, NEW tb \in Tables, ApplyMeta(t, tb)
    PROVE  GateInv'
<1>1. /\ pc[t] = "counted" /\ delta[t][tb].used /\ ~MetaLocked(tb)
      /\ meta' = [meta EXCEPT ![tb] = NewMeta(@, delta[t][tb])]
      /\ delta' = [delta EXCEPT ![t][tb] = NoDelta]
      /\ UNCHANGED <<pages, numPages, holder, gate, pc, cur, priv, newPages, did, committed, rd>>
  BY DEF ApplyMeta
<1>2. Types
  BY DEF GateInv
<1>3. gate = t /\ TxOK(t)
  BY <1>1, OneAtATime DEF GateInv
<1>a. /\ meta[tb].root \in Nat /\ meta[tb].rows \in Int /\ meta[tb].next \in Nat
      /\ delta[t][tb].root \in Nat /\ delta[t][tb].rows \in Int /\ delta[t][tb].next \in Nat
  BY <1>2 DEF Types
<1>b. PICK nx \in Nat : nx = NewMeta(meta[tb], delta[t][tb]).next /\ nx >= delta[t][tb].next
  BY <1>a DEF NewMeta
<1>4. /\ meta'[tb] = [root |-> delta[t][tb].root, rows |-> meta[tb].rows + delta[t][tb].rows, next |-> nx]
      /\ \A b \in Tables \ {tb} : meta'[b] = meta[b] /\ delta'[t][b] = delta[t][b]
      /\ delta'[t][tb] = NoDelta
      /\ \A u \in Txs : u # t => gate # u /\ delta'[u] = delta[u]
  BY <1>1, <1>2, <1>3, <1>b DEF Types, NewMeta
<1>5. Overlay(t)' = Overlay(t)
  BY <1>1 DEF Overlay
<1>6. Types'
  <2>1. meta' \in [Tables -> [root : Nat, rows : Int, next : Nat]]
    <3>1. meta'[tb] \in [root : Nat, rows : Int, next : Nat]
      BY <1>4, <1>a, <1>b
    <3> QED BY <1>1, <1>2, <3>1 DEF Types
  <2>2. delta' \in [Txs -> [Tables -> [root : Nat, rows : Int, next : Nat, used : BOOLEAN]]]
    BY <1>1, <1>2 DEF Types, NoDelta
  <2>3. delta[t][tb].root \in Page
    <3>1. TreeOK(MaxRow, Overlay(t), Roots(t)[tb]) /\ Roots(t)[tb] = delta[t][tb].root
      BY <1>1, <1>3 DEF TxOK, TxTrees, Forest, Roots, Root
    <3> QED BY <3>1 DEF TreeOK, Overlay
  <2>4. \A b \in Tables : meta'[b].root \in Page
    <3>1. meta'[tb].root \in Page
      BY <1>4, <2>3
    <3>2. \A b \in Tables \ {tb} : meta'[b].root = meta[b].root
      BY <1>4
    <3>3. \A b \in Tables : meta[b].root \in Page
      BY <1>2 DEF Types
    <3> QED BY <3>1, <3>2, <3>3
  <2> QED BY <1>1, <1>2, <2>1, <2>2, <2>4 DEF Types
<1>7. \A u \in Txs : gate' # u => Fresh(u)'
  BY <1>1, <1>3, <1>4, FreshKept
<1>8. InCommit'
  BY <1>1 DEF InCommit
<1>9. \A b \in Tables : Root(t, b)' = Root(t, b) /\ Rows(t, b)' = Rows(t, b)
  BY <1>1, <1>4 DEF Root, Rows, NoDelta
<1>10. Roots(t)' = Roots(t) /\ Top(t)' = Top(t)
  BY <1>1, <1>9 DEF Roots, Top
<1>11. TxTrees(t)'
  BY <1>3, <1>5, <1>9, <1>10 DEF TxOK, TxTrees
<1>12. TxCounts(t)'
  <2>1. \A b \in Tables : /\ meta[b].rows + delta[t][b].rows = Cardinality(Rows(t, b))
                          /\ \A y \in Rows(t, b) : y < NextId(t, b)
    BY <1>3 DEF TxOK, TxCounts
  <2>2. meta'[tb].rows + delta'[t][tb].rows = Cardinality(Rows(t, tb)')
    <3>1. meta'[tb].rows = meta[tb].rows + delta[t][tb].rows /\ delta'[t][tb].rows = 0
      BY <1>4 DEF NoDelta
    <3> QED BY <3>1, <1>9, <1>a, <2>1
  <2>3. \A y \in Rows(t, tb)' : y < NextId(t, tb)'
    <3>1. NextId(t, tb) = delta[t][tb].next /\ NextId(t, tb)' = nx
      BY <1>1, <1>4 DEF NextId, NoDelta
    <3>2. Rows(t, tb) \subseteq RowIds /\ RowIds \subseteq Nat
      BY <1>2, RowsFinite, ShapeAssumption DEF RowIds
    <3>3. \A y \in Rows(t, tb) : y < delta[t][tb].next /\ y \in Nat
      BY <2>1, <3>1, <3>2
    <3>4. \A y \in Rows(t, tb) : y < nx
      BY <1>a, <1>b, <3>3
    <3> QED BY <1>9, <3>1, <3>4
  <2>4. \A b \in Tables \ {tb} : NextId(t, b)' = NextId(t, b)
    BY <1>4 DEF NextId
  <2> QED BY <1>4, <1>9, <2>1, <2>2, <2>3, <2>4 DEF TxCounts
<1>14. TxUnused(t)'
  BY <1>1, <1>3, <1>4 DEF TxOK, TxUnused
<1>15. TxStaged(t)'
  BY <1>1, <1>3, <1>5 DEF TxOK, TxStaged, Committing
<1>16. TxRead(t)'
  BY <1>1 DEF TxRead
<1>17. \A r \in Readers : ReaderOK(r)'
  <2> SUFFICES ASSUME NEW r \in Readers PROVE ReaderOK(r)'
    OBVIOUS
  <2>1. ReaderOK(r) /\ rd' = rd /\ ReaderType(rd[r])
    BY <1>1 DEF GateInv, Types
  <2>2. CASE rd[r].at # "page"
    BY <2>1, <2>2 DEF ReaderOK
  <2>3. CASE rd[r].at = "page"
    <3>1. rd[r].tb \in Tables \ {tb}
      BY <1>1, <2>1, <2>3 DEF MetaLocked, ReaderType
    <3>2. \A u \in Txs : delta'[u][rd[r].tb] = delta[u][rd[r].tb]
      BY <1>4, <3>1
    <3>3. meta'[rd[r].tb] = meta[rd[r].tb]
      BY <1>4, <3>1
    <3>4. OnPath(r) => OnPath(r)'
      BY <1>1, <3>3 DEF OnPath, Committing
    <3>5. MetUnapplied(r) => MetUnapplied(r)'
      BY <1>1, <3>2 DEF MetUnapplied, Committing
    <3> QED BY <2>1, <2>3, <3>4, <3>5 DEF ReaderOK
  <2> QED BY <2>2, <2>3
<1> QED BY <1>1, <1>3, <1>6, <1>7, <1>8, <1>11, <1>12, <1>14, <1>15, <1>16, <1>17 DEF GateInv, TxOK

\* A transaction that is not committing ends and leaves the tables as they are.
LEMMA FinishIdle ==
    ASSUME Gated, GateInv, NEW t \in Txs, pc[t] = "active", Finish(t),
           UNCHANGED <<pages, numPages, meta, holder, cur, committed, rd>>
    PROVE  GateInv'
<1>1. /\ priv' = [priv EXCEPT ![t] = <<>>] /\ newPages' = [newPages EXCEPT ![t] = 0]
      /\ delta' = [delta EXCEPT ![t] = [tb \in Tables |-> NoDelta]]
      /\ did' = [did EXCEPT ![t] = NoOps]
      /\ gate' = IF gate = t THEN Nobody ELSE gate
      /\ pc' = [pc EXCEPT ![t] = "active"]
  BY DEF Finish
<1>2. Types
  BY DEF GateInv
<1>3. Types'
  <2>1. delta' \in [Txs -> [Tables -> [root : Nat, rows : Int, next : Nat, used : BOOLEAN]]]
    BY <1>1, <1>2 DEF Types, NoDelta
  <2>2. did' \in [Txs -> [Tables -> [ins : SUBSET RowIds, del : SUBSET RowIds]]]
    BY <1>1, <1>2 DEF Types, NoOps
  <2>3. DOMAIN priv' = Txs /\ \A u \in Txs : DOMAIN priv'[u] \subseteq Page
    BY <1>1, <1>2 DEF Types
  <2>4. newPages' \in [Txs -> Nat] /\ pc' \in [Txs -> {"active", "read", "published", "counted"}]
    BY <1>1, <1>2 DEF Types
  <2> QED BY <1>1, <1>2, <2>1, <2>2, <2>3, <2>4 DEF Types
<1>4. Fresh(t)'
  BY <1>1, <1>2 DEF Fresh, Types
<1>5. \A u \in Txs : u # t => UNCHANGED <<priv[u], newPages[u], delta[u], did[u], pc[u], cur[u]>>
  BY <1>1, <1>2 DEF Types
<1>6. \A u \in Txs : u # t /\ gate # u => Fresh(u)'
  BY <1>5, FreshKept
<1>7. \A u \in Txs : gate' # u => Fresh(u)'
  BY <1>1, <1>4, <1>6
<1>8. \A u \in Txs : gate' = u => TxOK(u)'
  <2> SUFFICES ASSUME NEW u \in Txs, gate' = u PROVE TxOK(u)'
    OBVIOUS
  <2>1. u # t /\ gate = u
    BY <1>1, GateAssumption
  <2>2. TxOK(u)
    BY <2>1 DEF GateInv
  <2> QED BY <1>5, <2>1, <2>2, TxSame
<1>9. \A u \in Txs : Committing(u)' <=> Committing(u)
  BY <1>1, <1>2 DEF Committing, Types
<1>10. ~InCommit' => TablesOK'
  <2>1. InCommit' <=> InCommit
    BY <1>9 DEF InCommit, Committing
  <2> QED BY <2>1, TablesKept
<1>11. \A r \in Readers : ReaderOK(r)'
  <2>1. \A u \in Txs : Committing(u) => u # t
    BY DEF Committing
  <2> QED BY <1>5, <1>9, <2>1, ReadersKept
<1> QED BY <1>3, <1>7, <1>8, <1>10, <1>11 DEF GateInv

LEMMA RollbackStep ==
    ASSUME Gated, GateInv, NEW t \in Txs, Rollback(t)
    PROVE  GateInv'
BY FinishIdle DEF Rollback

\* commit() returns.
LEMMA ReturnStep ==
    ASSUME Gated, GateInv, NEW t \in Txs, Return(t)
    PROVE  GateInv'
<1>1. /\ committed' = [tb \in Tables |-> (committed[tb] \ did[t][tb].del) \cup did[t][tb].ins]
      /\ Finish(t) /\ UNCHANGED <<pages, numPages, meta, holder, cur, rd>>
  BY DEF Return
<1>2. Types
  BY DEF GateInv
<1>3. CASE pc[t] = "active" /\ DOMAIN priv[t] = {}
  <2>1. did[t] = NoOps
    <3>1. CASE gate = t
      BY <1>3, <3>1 DEF GateInv, TxOK, TxStaged
    <3>2. CASE gate # t
      BY <3>2 DEF GateInv, Fresh
    <3> QED BY <3>1, <3>2
  <2>2. \A tb \in Tables : did[t][tb] = [ins |-> {}, del |-> {}]
    BY <2>1 DEF NoOps
  <2>3. \A tb \in Tables : (committed[tb] \ did[t][tb].del) \cup did[t][tb].ins = committed[tb]
    BY <2>2
  <2>4. committed' = committed
    BY <1>1, <1>2, <2>3 DEF Types
  <2> QED BY <1>1, <1>3, <2>4, FinishIdle
<1>4. CASE pc[t] = "counted" /\ \A tb \in Tables : ~delta[t][tb].used
  <2>1. gate = t /\ TxOK(t)
    BY <1>4, OneAtATime DEF GateInv
  <2>2. /\ priv' = [priv EXCEPT ![t] = <<>>] /\ newPages' = [newPages EXCEPT ![t] = 0]
        /\ delta' = [delta EXCEPT ![t] = [tb \in Tables |-> NoDelta]]
        /\ did' = [did EXCEPT ![t] = NoOps]
        /\ gate' = Nobody
        /\ pc' = [pc EXCEPT ![t] = "active"]
    BY <1>1, <2>1 DEF Finish
  <2>3. \A tb \in Tables : committed'[tb] = Rows(t, tb)
    BY <1>1 DEF Rows
  <2>4. Types'
    <3>1. delta' \in [Txs -> [Tables -> [root : Nat, rows : Int, next : Nat, used : BOOLEAN]]]
      BY <2>2, <1>2 DEF Types, NoDelta
    <3>2. did' \in [Txs -> [Tables -> [ins : SUBSET RowIds, del : SUBSET RowIds]]]
      BY <2>2, <1>2 DEF Types, NoOps
    <3>3. DOMAIN priv' = Txs /\ \A u \in Txs : DOMAIN priv'[u] \subseteq Page
      BY <2>2, <1>2 DEF Types
    <3>4. newPages' \in [Txs -> Nat] /\ pc' \in [Txs -> {"active", "read", "published", "counted"}]
      BY <2>2, <1>2 DEF Types
    <3>5. committed' \in [Tables -> SUBSET RowIds]
      BY <1>1, <1>2 DEF Types
    <3> QED BY <1>1, <1>2, <2>2, <3>1, <3>2, <3>3, <3>4, <3>5 DEF Types
  <2>5. Fresh(t)'
    BY <2>2, <1>2 DEF Fresh, Types
  <2>6. \A u \in Txs : u # t => Fresh(u)'
    <3>1. \A u \in Txs : u # t => gate # u /\ UNCHANGED <<priv[u], newPages[u], delta[u], did[u], pc[u]>>
      BY <1>2, <2>1, <2>2 DEF Types
    <3> QED BY <3>1, FreshKept
  <2>7. \A u \in Txs : Fresh(u)' /\ ~Committing(u)' /\ gate' # u
    BY <2>2, <2>5, <2>6, GateAssumption DEF Fresh, Committing
  <2>8. TablesOK'
    <3>1. Overlay(t) = pages /\ Top(t) = numPages
      BY <1>4, <2>1 DEF TxOK, TxStaged, Committing, Top
    <3>2. \A tb \in Tables : /\ Root(t, tb) = meta[tb].root /\ NextId(t, tb) = meta[tb].next
                             /\ delta[t][tb] = NoDelta
      BY <1>4, <2>1 DEF Root, NextId, TxOK, TxUnused
    <3>3. Roots(t) = MetaRoots /\ MetaRoots' = MetaRoots
      BY <1>1, <3>2 DEF Roots, MetaRoots
    <3>4. Forest(MaxRow, Tables, pages, MetaRoots, numPages)
      BY <2>1, <3>1, <3>3 DEF TxOK, TxTrees
    <3>5. \A tb \in Tables : RowsFrom(pages, meta[tb].root) = committed'[tb]
      BY <2>1, <2>3, <3>1, <3>2 DEF TxOK, TxTrees
    <3>6. \A tb \in Tables : meta[tb].rows = Cardinality(committed'[tb])
      <4>1. \A tb \in Tables : meta[tb].rows \in Int /\ delta[t][tb].rows = 0
        BY <1>2, <3>2 DEF Types, NoDelta
      <4>2. \A tb \in Tables : meta[tb].rows + delta[t][tb].rows = Cardinality(Rows(t, tb))
        BY <2>1 DEF TxOK, TxCounts
      <4> QED BY <2>3, <4>1, <4>2
    <3>7. \A tb \in Tables : \A x \in committed'[tb] : x < meta[tb].next
      BY <2>1, <2>3, <3>2 DEF TxOK, TxCounts
    <3> QED BY <1>1, <3>3, <3>4, <3>5, <3>6, <3>7 DEF TablesOK
  <2>9. \A r \in Readers : ReaderOK(r)'
    <3> SUFFICES ASSUME NEW r \in Readers PROVE ReaderOK(r)'
      OBVIOUS
    <3>1. ReaderOK(r) /\ rd' = rd /\ ReaderType(rd[r])
      BY <1>1 DEF GateInv, Types
    <3>2. CASE rd[r].at # "page"
      BY <3>1, <3>2 DEF ReaderOK
    <3>3. CASE rd[r].at = "page"
      <4>1. rd[r].tb \in Tables
        BY <3>1, <3>3 DEF ReaderType
      <4>2. ~MetUnapplied(r)
        BY <1>4, <2>1, <4>1, OneAtATime DEF MetUnapplied
      <4>3. ASSUME OnPath(r) PROVE OnPath(r)'
        <5>1. did[t][rd[r].tb] = [ins |-> {}, del |-> {}]
          BY <1>4, <4>3 DEF OnPath, Committing
        <5>2. committed'[rd[r].tb] = (committed[rd[r].tb] \ did[t][rd[r].tb].del) \cup did[t][rd[r].tb].ins
          BY <1>1, <4>1
        <5>3. committed'[rd[r].tb] = committed[rd[r].tb]
          BY <5>1, <5>2
        <5> QED BY <1>1, <2>7, <4>3, <5>3 DEF OnPath
      <4> QED BY <3>1, <3>3, <4>2, <4>3 DEF ReaderOK
    <3> QED BY <3>2, <3>3
  <2> QED BY <2>2, <2>4, <2>7, <2>8, <2>9 DEF GateInv
<1> QED BY <1>3, <1>4 DEF Return

\* A step of one reader, which changes only its own get().
LEMMA ReaderStep ==
    ASSUME GateInv, NEW r \in Readers, NEW g, rd' = [rd EXCEPT ![r] = g], ReaderType(g),
           UNCHANGED <<pages, numPages, meta, holder, gate, pc, ops, cur, priv, newPages, delta, did, committed>>,
           ReaderOK(r)'
    PROVE  GateInv'
<1>1. Types
  BY DEF GateInv
<1>2. rd'[r] = g /\ DOMAIN rd' = Readers /\ \A s \in Readers : s # r => rd'[s] = rd[s]
  BY <1>1 DEF Types
<1>3. Types'
  BY <1>1, <1>2 DEF Types
<1>4. \A u \in Txs : gate' # u => Fresh(u)'
  BY DEF GateInv, Fresh
<1>5. \A u \in Txs : gate' = u => TxOK(u)'
  <2>1. \A u \in Txs : gate = u => TxOK(u)
    BY DEF GateInv
  <2> QED BY <2>1, TxSame
<1>6. ~InCommit' => TablesOK'
  <2>1. InCommit' <=> InCommit
    BY DEF InCommit
  <2> QED BY <2>1, TablesKept
<1>7. \A s \in Readers : ReaderOK(s)'
  <2> SUFFICES ASSUME NEW s \in Readers, s # r PROVE ReaderOK(s)'
    OBVIOUS
  <2>1. ReaderOK(s) /\ rd'[s] = rd[s]
    BY <1>2 DEF GateInv
  <2>2. OnPath(s) => OnPath(s)'
    BY <2>1 DEF OnPath, Committing
  <2>3. MetUnapplied(s) => MetUnapplied(s)'
    BY <2>1 DEF MetUnapplied, Committing
  <2> QED BY <2>1, <2>2, <2>3 DEF ReaderOK
<1> QED BY <1>3, <1>4, <1>5, <1>6, <1>7 DEF GateInv

LEMMA StartGetStep ==
    ASSUME Gated, GateInv, NEW r \in Readers, NEW tb \in Tables, NEW x \in RowIds, StartGet(r, tb, x)
    PROVE  GateInv'
<1> DEFINE g == [at |-> "page", tb |-> tb, row |-> x, page |-> meta[tb].root,
                 known |-> x \in committed[tb], calm |-> ~InCommit]
<1>1. /\ rd' = [rd EXCEPT ![r] = g]
      /\ UNCHANGED <<pages, numPages, meta, holder, gate, pc, ops, cur, priv, newPages, delta, did, committed>>
  BY DEF StartGet
<1>2. /\ g.at = "page" /\ g.tb = tb /\ g.row = x /\ g.page = meta[tb].root
      /\ g.known = (x \in committed[tb]) /\ g.calm = ~InCommit
  OBVIOUS
<1>3. ReaderType(g)
  BY DEF ReaderType
<1>4. rd'[r] = g
  BY <1>1 DEF GateInv, Types
<1> HIDE DEF g
<1>5. ReaderOK(r)'
  <2>1. ASSUME g.known, g.calm PROVE OnPath(r)'
    <3>1. x \in committed[tb] /\ ~InCommit
      BY <1>2, <2>1
    <3>2. \A u \in Txs : ~Committing(u)'
      BY <1>1, <3>1 DEF InCommit, Committing
    <3> QED BY <1>1, <1>2, <1>4, <3>1, <3>2 DEF OnPath
  <2> QED BY <1>2, <1>4, <2>1 DEF ReaderOK
<1> QED BY <1>1, <1>3, <1>5, ReaderStep

\* One page of get(): on the path to a committed row the page is in the file,
\* and a leaf there holds the row.
LEMMA GetPageStep ==
    ASSUME Gated, GateInv, NEW r \in Readers, GetPage(r)
    PROVE  GateInv'
<1> DEFINE o == rd[r]
           c == pages[o.page]
           answer == IF o.page >= numPages THEN "error"
                     ELSE IF ~IsLeaf(c) THEN "page"
                     ELSE IF o.row \in c.rows THEN "found" ELSE "missing"
           q == IF answer = "page" THEN c.kids[ChildIndex(c, o.row)] ELSE o.page
           k == o.known /\ \A t \in Txs : o.row \notin did[t][o.tb].del
           m == o.calm /\ ~InCommit
           g == [at |-> answer, tb |-> o.tb, row |-> o.row, page |-> q, known |-> k, calm |-> m]
<1>1. Types /\ o.at = "page" /\ ReaderType(o)
  BY DEF GateInv, Types, GetPage
<1>2. o = [at |-> o.at, tb |-> o.tb, row |-> o.row, page |-> o.page, known |-> o.known, calm |-> o.calm]
      /\ o.tb \in Tables /\ o.row \in RowIds
  BY <1>1 DEF ReaderType
<1>3. /\ rd' = [rd EXCEPT ![r] = [o EXCEPT !.at = answer, !.page = q, !.known = k, !.calm = m]]
      /\ UNCHANGED <<pages, numPages, meta, holder, gate, pc, ops, cur, priv, newPages, delta, did, committed>>
  BY DEF GetPage
<1>4. [o EXCEPT !.at = answer, !.page = q, !.known = k, !.calm = m] = g
  <2> HIDE DEF answer, q, k, m
  <2>1. DOMAIN o = {"at", "tb", "row", "page", "known", "calm"}
    BY <1>2
  <2> DEFINE e == [o EXCEPT !.at = answer, !.page = q, !.known = k, !.calm = m]
  <2>2. e = [f \in {"at", "tb", "row", "page", "known", "calm"} |-> e[f]]
    BY <2>1
  <2>3. e.at = answer /\ e.page = q /\ e.known = k /\ e.calm = m /\ e.tb = o.tb /\ e.row = o.row
    BY <2>1
  <2>4. g = [f \in {"at", "tb", "row", "page", "known", "calm"} |-> g[f]]
    OBVIOUS
  <2>5. g.at = answer /\ g.page = q /\ g.known = k /\ g.calm = m /\ g.tb = o.tb /\ g.row = o.row
    OBVIOUS
  <2> HIDE DEF e, g
  <2> QED BY <2>2, <2>3, <2>4, <2>5 DEF e
<1>5. ReaderType(g)
  <2>1. answer \in {"error", "page", "found", "missing"}
    OBVIOUS
  <2>2. k \in BOOLEAN /\ m \in BOOLEAN
    OBVIOUS
  <2> HIDE DEF answer, q, k, m
  <2> QED BY <1>2, <2>1, <2>2 DEF ReaderType
<1>6. rd'[r] = g
  BY <1>1, <1>3, <1>4 DEF Types
<1>7. /\ g.at = answer /\ g.tb = o.tb /\ g.row = o.row /\ g.page = q /\ g.known = k /\ g.calm = m
  OBVIOUS
<1>8. ASSUME k, m
      PROVE  /\ answer \notin {"missing", "error"}
             /\ answer = "page" => q = LeafOf(pages, meta[o.tb].root, o.row)
  <2>1. o.known /\ o.calm /\ ~InCommit
    BY <1>8
  <2>2. OnPath(r)
    <3>1. ~MetUnapplied(r)
      BY <2>1 DEF MetUnapplied, InCommit, Committing
    <3>2. ReaderOK(r)
      BY DEF GateInv
    <3> QED BY <1>1, <2>1, <3>1, <3>2 DEF ReaderOK
  <2>3. TablesOK
    BY <2>1 DEF GateInv
  <2> DEFINE root == meta[o.tb].root
             leaf == LeafOf(pages, root, o.row)
  <2>4. o.row \in committed[o.tb] /\ (o.page = root \/ o.page = leaf)
    BY <2>2 DEF OnPath
  <2>5. TreeOK(MaxRow, pages, root) /\ PagesFrom(pages, root) \subseteq 1 .. numPages - 1
    BY <1>2, <2>3 DEF TablesOK, Forest, MetaRoots
  <2>6. o.row \in RowsFrom(pages, root)
    BY <1>2, <2>3, <2>4 DEF TablesOK
  <2>7. o.row \in 1 .. MaxRow /\ MaxRow \in Nat
    BY <1>2, ShapeAssumption DEF RowIds
  <2>8. /\ leaf \in PagesFrom(pages, root) /\ LeafOK(MaxRow, pages[leaf])
        /\ (leaf = root <=> IsLeaf(pages[root]))
        /\ o.row \in pages[leaf].rows
    <3> HIDE DEF o, root
    <3> QED BY <2>5, <2>6, <2>7, LeafFound
  <2>9. IsLeaf(pages[leaf])
    BY <2>8, NodeFields DEF LeafOK
  <2>10. root \in PagesFrom(pages, root)
    BY DEF PagesFrom
  <2>11. ~(o.page >= numPages)
    <3>1. o.page \in 1 .. numPages - 1 /\ numPages \in Nat
      BY <1>1, <2>4, <2>5, <2>8, <2>10 DEF Types
    <3> QED BY <3>1
  <2>12. CASE o.page = leaf
    BY <2>8, <2>9, <2>11, <2>12
  <2>13. CASE o.page = root /\ root # leaf
    <3>1. ~IsLeaf(pages[root]) /\ leaf = pages[root].kids[ChildIndex(pages[root], o.row)]
      BY <2>8, <2>13 DEF LeafOf
    <3> QED BY <2>11, <2>13, <3>1
  <2> QED BY <2>4, <2>12, <2>13
<1>9. ReaderOK(r)'
  <2> HIDE DEF g, answer, q, k, m
  <2>1. ASSUME k, m, answer = "page" PROVE OnPath(r)'
    <3>1. o.row \in committed[o.tb] /\ ~InCommit
      <4>1. o.known /\ o.calm /\ ~InCommit
        BY <2>1 DEF k, m
      <4>2. ~MetUnapplied(r)
        BY <4>1 DEF MetUnapplied, InCommit, Committing
      <4>3. ReaderOK(r)
        BY DEF GateInv
      <4> QED BY <1>1, <4>1, <4>2, <4>3 DEF ReaderOK, OnPath
    <3>2. \A u \in Txs : ~Committing(u)'
      BY <1>3, <3>1 DEF InCommit, Committing
    <3>3. q = LeafOf(pages, meta[o.tb].root, o.row)
      BY <1>8, <2>1
    <3> QED BY <1>3, <1>6, <1>7, <3>1, <3>2, <3>3 DEF OnPath
  <2> QED BY <1>6, <1>7, <1>8, <2>1 DEF ReaderOK
<1> QED BY <1>3, <1>4, <1>5, <1>9, ReaderStep

LEMMA EndGetStep ==
    ASSUME Gated, GateInv, NEW r \in Readers, EndGet(r)
    PROVE  GateInv'
<1>1. /\ rd' = [rd EXCEPT ![r] = [at |-> "idle"]]
      /\ UNCHANGED <<pages, numPages, meta, holder, gate, pc, ops, cur, priv, newPages, delta, did, committed>>
  BY DEF EndGet
<1>2. rd'[r] = [at |-> "idle"]
  BY <1>1 DEF GateInv, Types
<1>3. ReaderType([at |-> "idle"])
  BY DEF ReaderType
<1>4. ReaderOK(r)'
  BY <1>2 DEF ReaderOK
<1> QED BY <1>1, <1>3, <1>4, ReaderStep

-----------------------------------------------------------------------------
(* Theorems. *)

LEMMA GateInit == Init => GateInv
<1> SUFFICES ASSUME Init PROVE GateInv
  OBVIOUS
<1>1. /\ MaxPages \in Nat /\ MaxRow \in Nat /\ InitRows \in Nat /\ InitRows <= MaxRow
      /\ Cardinality(Tables) \in Nat /\ Cardinality(Tables) < MaxPages
      /\ \A tb \in Tables : RootOf[tb] \in 1 .. Cardinality(Tables)
      /\ \A a, b \in Tables : RootOf[a] = RootOf[b] => a = b
  <2>1. InitRows \in Nat
    BY InitAssumption, CapAssumption
  <2>2. Cardinality(Tables) \in Nat
    BY RootsAssumption, FS_CardinalityType
  <2> QED BY <2>1, <2>2, ShapeAssumption, InitAssumption, RootsAssumption
<1>2. /\ numPages = 1 + Cardinality(Tables) /\ numPages \in Nat \ {0} /\ numPages <= MaxPages
  BY <1>1 DEF Init
<1>3. 1 .. InitRows \subseteq RowIds /\ Cardinality(1 .. InitRows) = InitRows
  <2>1. 1 .. InitRows \subseteq RowIds
    BY <1>1 DEF RowIds
  <2>2. Cardinality(1 .. InitRows) = InitRows
    BY <1>1, FS_Interval
  <2> QED BY <2>1, <2>2
<1>4. \A tb \in Tables : RootOf[tb] \in Page /\ RootOf[tb] \in 1 .. numPages - 1 /\ pages[RootOf[tb]] = Leaf(1 .. InitRows)
  <2>1. \A tb \in Tables : RootOf[tb] \in Page /\ RootOf[tb] \in 1 .. numPages - 1
    BY <1>1, <1>2 DEF Page
  <2> QED BY <2>1 DEF Init
<1>5. \A tb \in Tables : meta[tb].root = RootOf[tb] /\ meta[tb].rows = InitRows /\ meta[tb].next = InitRows + 1
  BY DEF Init
<1>6. \A t \in Txs : Fresh(t)
  BY DEF Init, Fresh
<1>7. Types
  <2>1. pages = [p \in Page |-> pages[p]]
    BY DEF Init
  <2>2. meta \in [Tables -> [root : Nat, rows : Int, next : Nat]]
    BY <1>1 DEF Init
  <2>3. /\ holder \in Txs \cup {Nobody} /\ gate \in Txs \cup {Nobody}
        /\ pc \in [Txs -> {"active", "read", "published", "counted"}]
        /\ DOMAIN cur = Txs /\ DOMAIN priv = Txs /\ \A t \in Txs : DOMAIN priv[t] \subseteq Page
        /\ newPages \in [Txs -> Nat]
    BY DEF Init
  <2>4. /\ delta \in [Txs -> [Tables -> [root : Nat, rows : Int, next : Nat, used : BOOLEAN]]]
        /\ did \in [Txs -> [Tables -> [ins : SUBSET RowIds, del : SUBSET RowIds]]]
    BY DEF Init, NoDelta, NoOps
  <2>5. committed \in [Tables -> SUBSET RowIds]
    BY <1>3 DEF Init
  <2>6. DOMAIN rd = Readers /\ \A r \in Readers : ReaderType(rd[r])
    BY DEF Init, ReaderType
  <2>7. \A tb \in Tables : meta[tb].root \in Page
    BY <1>4, <1>5
  <2> QED BY <1>2, <2>1, <2>2, <2>3, <2>4, <2>5, <2>6, <2>7 DEF Types
<1>8. \A tb \in Tables : TreeOK(MaxRow, pages, RootOf[tb]) /\ PagesFrom(pages, RootOf[tb]) = {RootOf[tb]}
                         /\ RowsFrom(pages, RootOf[tb]) = 1 .. InitRows
  <2> SUFFICES ASSUME NEW tb \in Tables
               PROVE  /\ TreeOK(MaxRow, pages, RootOf[tb]) /\ PagesFrom(pages, RootOf[tb]) = {RootOf[tb]}
                      /\ RowsFrom(pages, RootOf[tb]) = 1 .. InitRows
    OBVIOUS
  <2>1. LeafOK(MaxRow, Leaf(1 .. InitRows))
    BY <1>3, LeafIsOK DEF RowIds
  <2>2. IsLeaf(Leaf(1 .. InitRows)) /\ Leaf(1 .. InitRows).rows = 1 .. InitRows
    BY NodeFields
  <2>3. RootOf[tb] \in DOMAIN pages /\ pages[RootOf[tb]] = Leaf(1 .. InitRows)
    BY <1>4 DEF Init
  <2>4. IsLeaf(pages[RootOf[tb]]) /\ TreeOK(MaxRow, pages, RootOf[tb])
    BY <2>1, <2>2, <2>3 DEF TreeOK
  <2> QED BY <2>2, <2>3, <2>4, LeafIs
<1>9. TablesOK
  <2>1. \A tb \in Tables : MetaRoots[tb] = RootOf[tb]
    BY <1>5 DEF MetaRoots
  <2>2. \A tb \in Tables : PagesFrom(pages, RootOf[tb]) \subseteq 1 .. numPages - 1
    BY <1>4, <1>8
  <2>3. \A a, b \in Tables : a # b => PagesFrom(pages, RootOf[a]) \cap PagesFrom(pages, RootOf[b]) = {}
    <3> SUFFICES ASSUME NEW a \in Tables, NEW b \in Tables, a # b
                 PROVE  PagesFrom(pages, RootOf[a]) \cap PagesFrom(pages, RootOf[b]) = {}
      OBVIOUS
    <3>1. RootOf[a] # RootOf[b]
      BY <1>1
    <3>2. PagesFrom(pages, RootOf[a]) = {RootOf[a]} /\ PagesFrom(pages, RootOf[b]) = {RootOf[b]}
      BY <1>8
    <3> QED BY <3>1, <3>2
  <2>4. Forest(MaxRow, Tables, pages, MetaRoots, numPages)
    BY <1>8, <2>1, <2>2, <2>3 DEF Forest
  <2>5. \A tb \in Tables : committed[tb] = 1 .. InitRows
    BY DEF Init
  <2>6. \A tb \in Tables : \A x \in committed[tb] : x < meta[tb].next
    BY <1>1, <1>5, <2>5
  <2> QED BY <1>3, <1>5, <1>8, <2>4, <2>5, <2>6 DEF TablesOK
<1>10. \A t \in Txs : gate # t
  BY GateAssumption DEF Init
<1>11. \A r \in Readers : ReaderOK(r)
  BY DEF Init, ReaderOK
<1> QED BY <1>6, <1>7, <1>9, <1>10, <1>11 DEF GateInv

LEMMA GateStutter == ASSUME GateInv, UNCHANGED vars PROVE GateInv'
<1>1. UNCHANGED <<pages, numPages, meta, holder, gate, pc, ops, cur, priv, newPages, delta, did, committed, rd>>
  BY DEF vars
<1>2. Types'
  BY <1>1 DEF GateInv, Types
<1>3. \A u \in Txs : gate' # u => Fresh(u)'
  BY <1>1 DEF GateInv, Fresh
<1>4. \A u \in Txs : gate' = u => TxOK(u)'
  <2>1. \A u \in Txs : gate = u => TxOK(u)
    BY DEF GateInv
  <2> QED BY <1>1, <2>1, TxSame
<1>5. ~InCommit' => TablesOK'
  <2>1. InCommit' <=> InCommit
    BY <1>1 DEF InCommit
  <2> QED BY <1>1, <2>1, TablesKept
<1>6. \A r \in Readers : ReaderOK(r)'
  <2>1. \A u \in Txs : Committing(u)' <=> Committing(u)
    BY <1>1 DEF Committing
  <2> QED BY <1>1, <2>1, ReadersKept
<1> QED BY <1>2, <1>3, <1>4, <1>5, <1>6 DEF GateInv

LEMMA GateStep == ASSUME Gated, GateInv, [Next]_vars PROVE GateInv'
<1>1. CASE Next
  <2>1. ASSUME NEW t \in Txs, TxStep(t) PROVE GateInv'
    BY <2>1, ReadMetaStep, InsertStep, DeleteStep, RefuseStep, PublishStep, ReleaseStep, ApplyMetaStep,
       ReturnStep, RollbackStep DEF TxStep
  <2>2. ASSUME NEW r \in Readers, ReadStep(r) PROVE GateInv'
    BY <2>2, StartGetStep, GetPageStep, EndGetStep DEF ReadStep
  <2> QED BY <1>1, <2>1, <2>2 DEF Next
<1>2. CASE UNCHANGED vars
  BY <1>2, GateStutter
<1> QED BY <1>1, <1>2

\* Behind the write gate the inductive invariant holds throughout.
THEOREM GateInvariant == ASSUME Gated PROVE Spec => []GateInv
<1>1. Init => GateInv
  BY GateInit
<1>2. GateInv /\ [Next]_vars => GateInv'
  BY GateStep
<1> QED BY <1>1, <1>2, PTL DEF Spec

\* The main variables of AcidTx keep their types.
THEOREM TxTypes == ASSUME Gated PROVE Spec => []TypeOK
<1>1. GateInv => TypeOK
  <2> SUFFICES ASSUME GateInv PROVE TypeOK
    OBVIOUS
  <2>1. Types
    BY DEF GateInv
  <2>2. numPages \in 0 .. MaxPages
    BY <2>1, ShapeAssumption DEF Types
  <2>3. DOMAIN pages = Page
    BY <2>1 DEF Types
  <2>4. \A tb \in Tables : meta[tb].root \in Page /\ meta[tb].rows \in Int /\ meta[tb].next \in Nat
    BY <2>1 DEF Types
  <2> QED BY <2>1, <2>2, <2>3, <2>4 DEF Types, TypeOK
<1> QED BY <1>1, GateInvariant, PTL

\* With the gate, no transaction overwrites what another one committed: between
\* commits every tree holds exactly the committed rows.  (Without the gate this
\* fails: see the run AcidTx_same_table.)
THEOREM GatedNothingLost == ASSUME Gated PROVE Spec => []NothingLost
<1>1. GateInv => NothingLost
  BY DEF GateInv, TablesOK, NothingLost, Contents
<1> QED BY <1>1, GateInvariant, PTL

\* Between commits row_count is the number of rows and next_rowid is above them.
THEOREM TxCountsExact == ASSUME Gated PROVE Spec => []CountsExact
<1>1. GateInv => CountsExact
  BY DEF GateInv, TablesOK, CountsExact
<1> QED BY <1>1, GateInvariant, PTL

\* The trees of two tables never share a page, and all their pages are in the file.
THEOREM TreesApart == ASSUME Gated PROVE Spec => []TreesDisjoint
<1>1. GateInv => TreesDisjoint
  <2> SUFFICES ASSUME GateInv, ~InCommit PROVE TreesDisjoint
    BY DEF TreesDisjoint
  <2>1. Forest(MaxRow, Tables, pages, MetaRoots, numPages) /\ numPages \in Nat
    BY DEF GateInv, TablesOK, Types
  <2>2. \A tb \in Tables : MetaRoots[tb] = meta[tb].root
    BY DEF MetaRoots
  <2>3. \A a, b \in Tables : a # b => PagesFrom(pages, meta[a].root) \cap PagesFrom(pages, meta[b].root) = {}
    BY <2>1, <2>2 DEF Forest
  <2>4. \A a \in Tables : PagesFrom(pages, meta[a].root) \subseteq 1 .. numPages - 1
    BY <2>1, <2>2 DEF Forest
  <2>5. \A p \in 1 .. numPages - 1 : p < numPages
    BY <2>1
  <2> QED BY <2>3, <2>4, <2>5 DEF TreesDisjoint
<1> QED BY <1>1, GateInvariant, PTL

\* get() finds every row committed before it that nobody deletes, unless a
\* commit overlaps it.
THEOREM CalmReads == ASSUME Gated PROVE Spec => []CalmReadsFindRows
<1>1. GateInv => CalmReadsFindRows
  BY DEF GateInv, ReaderOK, CalmReadsFindRows
<1> QED BY <1>1, GateInvariant, PTL

-----------------------------------------------------------------------------
(* Refinement. *)

\* The rows of AtomicTables.
AtomicRows == [tb \in Tables |-> IF InCommit THEN committed[tb] ELSE Contents(tb)]

LEMMA AtomicRowsAre == ASSUME GateInv PROVE AtomicRows = committed
<1>1. \A tb \in Tables : (IF InCommit THEN committed[tb] ELSE Contents(tb)) = committed[tb]
  BY DEF GateInv, TablesOK, Contents
<1>2. committed = [tb \in Tables |-> committed[tb]]
  BY DEF GateInv, Types
<1> QED BY <1>1, <1>2 DEF AtomicRows

LEMMA AtomicInit == ASSUME Init PROVE Atomic!Init
<1>1. GateInv
  BY GateInit
<1>2. AtomicRows \in [Tables -> SUBSET RowIds]
  BY <1>1, AtomicRowsAre DEF GateInv, Types
<1>3. did = [t \in Txs |-> Atomic!Nothing]
  BY DEF Init, NoOps, Atomic!Nothing
<1> QED BY <1>2, <1>3 DEF Atomic!Init, AtomicRows

\* Every step of AcidTx is a step of AtomicTables or changes nothing it shows.
LEMMA AtomicStep == ASSUME Gated, GateInv, GateInv', [Next]_vars
                    PROVE  [Atomic!Next]_<<AtomicRows, did>>
<1>1. AtomicRows = committed /\ AtomicRows' = committed'
  <2>1. AtomicRows = committed
    BY AtomicRowsAre
  <2>2. (GateInv => AtomicRows = committed)'
    BY AtomicRowsAre, PTL
  <2> QED BY <2>1, <2>2
<1>2. ASSUME NEW t \in Txs, Insert(t) PROVE Atomic!Next
  <2>1. pc[t] = "read" /\ TxOK(t)
    BY <1>2, OneAtATime DEF GateInv, Insert
  <2>2. PICK tb \in Tables : tb = cur[t].tb
    BY <2>1 DEF TxOK, TxRead
  <2>3. PICK x \in RowIds : x = cur[t].next
    BY <1>2 DEF Insert
  <2>4. did' = [did EXCEPT ![t][tb] = [ins |-> did[t][tb].ins \cup {x}, del |-> did[t][tb].del \ {x}]]
        /\ committed' = committed
    BY <1>2, <2>2, <2>3 DEF Insert, Stage
  <2>5. did' = [did EXCEPT ![t][tb] = [ins |-> @.ins \cup {x}, del |-> @.del \ {x}]]
    BY <2>4
  <2>6. Atomic!Insert(t, tb, x)
    BY <1>1, <2>4, <2>5 DEF Atomic!Insert, AtomicRows
  <2> QED BY <2>6 DEF Atomic!Next
<1>3. ASSUME NEW t \in Txs, NEW x \in RowIds, Delete(t, x) PROVE Atomic!Next
  <2>1. pc[t] = "read" /\ TxOK(t) /\ Types
    BY <1>3, OneAtATime DEF GateInv, Delete
  <2>2. PICK tb \in Tables : tb = cur[t].tb
    BY <2>1 DEF TxOK, TxRead
  <2>3. /\ did' = [did EXCEPT ![t][tb] = [ins |-> did[t][tb].ins \ {x}, del |-> did[t][tb].del \cup {x}]]
        /\ committed' = committed
        /\ x \in Overlay(t)[LeafOf(Overlay(t), cur[t].root, x)].rows
    BY <1>3, <2>2 DEF Delete, Stage
  <2>4. PICK v, r : v = Overlay(t) /\ r = Root(t, tb)
    OBVIOUS
  <2>5. TreeOK(MaxRow, v, r) /\ cur[t].root = r /\ RowsFrom(v, r) = Rows(t, tb)
    BY <2>1, <2>2, <2>4 DEF TxOK, TxTrees, TxRead, Forest, Roots
  <2>6. MaxRow \in Nat /\ x \in 1 .. MaxRow
    BY ShapeAssumption DEF RowIds
  <2>7. x \in RowsFrom(v, r)
    BY <2>3, <2>4, <2>5, <2>6, LeafFound
  <2>8. did[t][tb].ins \cap did[t][tb].del = {}
    BY <2>1 DEF TxOK, TxStaged
  <2>9. x \in (committed[tb] \cup did[t][tb].ins) \ did[t][tb].del
    BY <2>5, <2>7, <2>8 DEF Rows
  <2>10. did' = [did EXCEPT ![t][tb] = [ins |-> @.ins \ {x}, del |-> @.del \cup {x}]]
    BY <2>3
  <2>11. x \in (AtomicRows[tb] \cup did[t][tb].ins) \ did[t][tb].del /\ AtomicRows' = AtomicRows
    BY <1>1, <2>3, <2>9
  <2>12. Atomic!Delete(t, tb, x)
    BY <2>10, <2>11 DEF Atomic!Delete, AtomicRows
  <2> QED BY <2>12 DEF Atomic!Next
<1>4. ASSUME NEW t \in Txs, Return(t) PROVE Atomic!Next
  <2>1. /\ committed' = [tb \in Tables |-> (committed[tb] \ did[t][tb].del) \cup did[t][tb].ins]
        /\ did' = [did EXCEPT ![t] = Atomic!Nothing]
    BY <1>4 DEF Return, Finish, NoOps, Atomic!Nothing
  <2>2. AtomicRows' = [tb \in Tables |-> (AtomicRows[tb] \ did[t][tb].del) \cup did[t][tb].ins]
    BY <1>1, <2>1
  <2>3. Atomic!Commit(t)
    BY <2>1, <2>2 DEF Atomic!Commit, AtomicRows
  <2> QED BY <2>3 DEF Atomic!Next
<1>5. ASSUME NEW t \in Txs, Rollback(t) PROVE Atomic!Next
  <2>1. committed' = committed /\ did' = [did EXCEPT ![t] = Atomic!Nothing]
    BY <1>5 DEF Rollback, Finish, NoOps, Atomic!Nothing
  <2>2. AtomicRows' = AtomicRows
    BY <1>1, <2>1
  <2>3. Atomic!Rollback(t)
    BY <2>1, <2>2 DEF Atomic!Rollback, AtomicRows
  <2> QED BY <2>3 DEF Atomic!Next
<1>6. ASSUME committed' = committed, did' = did PROVE UNCHANGED <<AtomicRows, did>>
  BY <1>1, <1>6
<1>7. ASSUME NEW t \in Txs, Publish(t) \/ Release(t) \/ Refuse(t) \/ \E tb \in Tables : ReadMeta(t, tb) \/ ApplyMeta(t, tb)
      PROVE  committed' = committed /\ did' = did
  BY <1>7 DEF Publish, Release, Refuse, ReadMeta, ApplyMeta
<1>8. ASSUME NEW t \in Txs, TxStep(t) PROVE [Atomic!Next]_<<AtomicRows, did>>
  BY <1>2, <1>3, <1>4, <1>5, <1>6, <1>7, <1>8 DEF TxStep
<1>9. ASSUME NEW r \in Readers, ReadStep(r) PROVE committed' = committed /\ did' = did
  BY <1>9 DEF ReadStep, GetPage, EndGet, StartGet
<1>10. ASSUME UNCHANGED vars PROVE committed' = committed /\ did' = did
  BY <1>10 DEF vars
<1> QED BY <1>6, <1>8, <1>9, <1>10 DEF Next

\* Behind the write gate an ACID transaction is atomic: what the trees hold, as
\* commit() returns or the transaction is dropped, changes as AtomicTables says.
THEOREM GatedRefinesAtomic == ASSUME Gated PROVE Spec => ImplementsAtomic
<1>1. Init => Atomic!Init
  BY AtomicInit
<1>2. GateInv /\ GateInv' /\ [Next]_vars => [Atomic!Next]_<<AtomicRows, did>>
  BY AtomicStep
<1>3. GateInv /\ GateInv' /\ [Next]_vars
      => [Atomic!Next]_<<[tb \in Tables |-> IF InCommit THEN committed[tb] ELSE Contents(tb)], did>>
  BY <1>2 DEF AtomicRows
<1> QED BY <1>1, <1>3, GateInvariant, PTL DEF Spec, ImplementsAtomic, Atomic!Spec
==============================================================================
