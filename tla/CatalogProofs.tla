---------------------------- MODULE CatalogProofs ----------------------------
(***************************************************************************)
(* The table registry keeps its tables apart, its counts exact and its     *)
(* schema changes durable, through races, shutdowns and crashes: for every *)
(* number of threads, names, tables, rows and pages and every workload.    *)
(***************************************************************************)
EXTENDS Catalog, SmallTreeProofs

(* Images of the registry. *)

IsImage(im) == /\ im = [next |-> im.next, metas |-> im.metas]
               /\ im.metas = [n \in DOMAIN im.metas |-> im.metas[n]]
               /\ ImageOK(im)

\* No two tables of the image have the same id, and none the next one.
IdsOf(im) == /\ \A n \in DOMAIN im.metas : im.metas[n].id < im.next
             /\ \A m, n \in DOMAIN im.metas : im.metas[m].id = im.metas[n].id => m = n

\* Every table of the image is one that memory knows, perhaps with an older
\* root, which is a page of the table's tree still.
Known(im, o, v) == \A n \in DOMAIN im.metas :
    /\ im.metas[n].id \in DOMAIN o
    /\ im.metas[n].root \in PagesFrom(v, o[im.metas[n].id].root)

\* What open() needs to find in page 0: tables of pages v below n, with rows of c.
RootsOf(im) == [n \in DOMAIN im.metas |-> im.metas[n].root]
Good(im, v, n, c) ==
    /\ Forest(MaxRow, DOMAIN im.metas, v, RootsOf(im), n)
    /\ \A k \in DOMAIN im.metas : RowsFrom(v, im.metas[k].root) \subseteq c[im.metas[k].id]

SameShape(a, b) == /\ DOMAIN a.metas = DOMAIN b.metas
                   /\ \A n \in DOMAIN a.metas : a.metas[n].id = b.metas[n].id /\ a.metas[n].schema = b.metas[n].schema

-----------------------------------------------------------------------------
(* The inductive invariant. *)

ImageTypes == /\ IsImage(disk) /\ (log = NoImage \/ IsImage(log))
              /\ DOMAIN snap = Threads /\ \A t \in Threads : IsImage(snap[t])

Types ==
    /\ load \in Workloads
    /\ status \in {"up", "flushed", "closed", "crashed"}
    /\ tables = [n \in DOMAIN tables |-> tables[n]] /\ DOMAIN tables \subseteq Names
    /\ obj = [i \in DOMAIN obj |-> obj[i]] /\ DOMAIN obj \subseteq TableIds
    /\ \A i \in DOMAIN obj : obj[i] \in MetaType
    /\ nextId \in 1 .. MaxTables + 1 /\ numPages \in 0 .. MaxPages
    /\ pages = [p \in Page |-> pages[p]]
    /\ ImageTypes
    /\ pc \in [Threads -> {"idle", "checked", "allocated", "resolved", "changed", "snapshot"}]
    /\ cur \in [Threads -> [name : Names \cup {NoImage}, id : 0 .. MaxTables, root : Page]]
    /\ todo = [t \in Threads |-> todo[t]]
    /\ committed \in [TableIds -> SUBSET RowIds]
    /\ crashes \in Nat

\* The trees of all tables that memory knows, dropped ones included.
ObjRoots == [i \in DOMAIN obj |-> obj[i].root]
Exact(i) == /\ RowsFrom(pages, obj[i].root) = committed[i]
            /\ obj[i].count = Cardinality(committed[i])
            /\ \A x \in committed[i] : x < obj[i].next
Trees ==
    /\ Forest(MaxRow, DOMAIN obj, pages, ObjRoots, numPages)
    /\ \A i \in DOMAIN obj : /\ obj[i].id = i /\ i < nextId
                             /\ RowsFrom(pages, obj[i].root) \subseteq committed[i]
                             /\ crashes = 0 => Exact(i)

MapOK == /\ \A n \in DOMAIN tables : tables[n] \in DOMAIN obj
         /\ \A m, n \in DOMAIN tables : tables[m] = tables[n] => m = n

\* A create_table between allocating its root page and registering the table.
Allocated(t) ==
    /\ cur[t].id \in TableIds \ DOMAIN obj /\ cur[t].id < nextId
    /\ cur[t].root \in 1 .. numPages - 1 /\ pages[cur[t].root] = Leaf({})
    /\ \A i \in DOMAIN obj : cur[t].root \notin PagesFrom(pages, obj[i].root)
Calls ==
    /\ \A t \in Threads : /\ pc[t] \in {"checked", "allocated"} => cur[t].name \in Names
                          /\ pc[t] = "allocated" => Allocated(t)
                          /\ pc[t] = "resolved" => cur[t].id \in DOMAIN obj
    /\ \A t, u \in Threads : pc[t] = "allocated" /\ pc[u] = "allocated" /\ t # u
                                => cur[t].id # cur[u].id /\ cur[t].root # cur[u].root

\* A snapshot: while it is being taken the map does not change.
SnapOK(t) ==
    /\ IdsOf(snap[t]) /\ Known(snap[t], obj, pages)
    /\ todo[t] \subseteq DOMAIN tables
    /\ pc[t] # "snapshot" => snap[t] = EmptyImage /\ todo[t] = {}
    /\ todo[t] # {} => /\ \A n \in DOMAIN snap[t].metas : n \in DOMAIN tables /\ snap[t].metas[n].id = tables[n]
                       /\ \A n \in DOMAIN tables : tables[n] < snap[t].next

\* The image open() would load.
ImagesOK == /\ IdsOf(Recovered)
            /\ status # "crashed" => Known(Recovered, obj, pages)
            /\ status = "crashed" => Good(Recovered, pages, numPages, committed) /\ crashes > 0
            /\ status \in {"flushed", "closed"} => disk = Current
            /\ status = "closed" => log = NoImage

Down == status # "up" => AllIdle

\* Behind the write gate.
Changing(t) == pc[t] \in {"changed", "snapshot"}
GateOK == load.gated /\ status = "up" =>
    /\ \A t, u \in Threads : pc[t] # "idle" /\ pc[u] # "idle" => t = u
    /\ (\A t \in Threads : ~Changing(t)) => SameShape(Recovered, Current)
    /\ \A t \in Threads : pc[t] = "snapshot" =>
          /\ DOMAIN snap[t].metas = DOMAIN tables \ todo[t]
          /\ \A n \in DOMAIN snap[t].metas : /\ snap[t].metas[n].id = obj[tables[n]].id
                                             /\ snap[t].metas[n].schema = obj[tables[n]].schema

CatalogInv == /\ Types /\ Trees /\ MapOK /\ Calls
              /\ \A t \in Threads : SnapOK(t)
              /\ ImagesOK /\ Down /\ GateOK

-----------------------------------------------------------------------------
(* Facts about single states. *)

\* row_count wraps around at 2^64, here at b.
LEMMA CountUp ==
    ASSUME NEW b \in Nat \ {0}, NEW c \in 0 .. b - 1
    PROVE  /\ (c + 1) % b \in 0 .. b - 1
           /\ c + 1 < b => (c + 1) % b = c + 1
OBVIOUS

LEMMA CountDown ==
    ASSUME NEW b \in Nat \ {0}, NEW c \in 0 .. b - 1
    PROVE  /\ (c + b - 1) % b \in 0 .. b - 1
           /\ c > 0 => (c + b - 1) % b = c - 1
<1>1. CASE c = 0
  BY <1>1
<1>2. CASE c > 0
  BY <1>2
<1> QED BY <1>1, <1>2

\* A table's metadata.
MetaFields(m) == /\ m.id \in 1 .. MaxTables /\ m.root \in Page /\ m.count \in Nat /\ m.count < CountMod
                 /\ m.next \in 1 .. MaxRow + 1 /\ m.schema \in 0 .. load.alters
                 /\ m = [id |-> m.id, root |-> m.root, count |-> m.count, next |-> m.next, schema |-> m.schema]

LEMMA MetaIs == ASSUME NEW m PROVE m \in MetaType <=> MetaFields(m)
BY BoundsAssumption DEF MetaType, MetaFields, TableIds, CountMod

LEMMA ImageTypesKept ==
    ASSUME ImageTypes, UNCHANGED <<load, disk, log, snap>> PROVE ImageTypes'
<1>1. MetaType' = MetaType
  BY DEF MetaType
<1> QED BY <1>1 DEF ImageTypes, IsImage, ImageOK

\* No image is taken for the missing one.
LEMMA ImageIsNot == ASSUME Types, NEW im, IsImage(im) PROVE im # NoImage
<1> DEFINE M == [id : TableIds, root : Page, count : Nat, next : Nat, schema : Nat]
<1>1. im.next \in Nat
  BY BoundsAssumption DEF IsImage, ImageOK
<1>2. \A n \in DOMAIN im.metas : im.metas[n] \in M
  <2>1. load.alters \in Nat
    BY WorkloadAssumption DEF Types
  <2> QED BY <2>1, BoundsAssumption DEF IsImage, ImageOK, MetaType, CountMod
<1>3. im.metas \in [DOMAIN im.metas -> M] /\ DOMAIN im.metas \in SUBSET Names
  BY <1>2 DEF IsImage, ImageOK
<1> HIDE DEF M
<1>4. im.metas \in UNION {[S -> M] : S \in SUBSET Names}
  BY <1>3
<1>5. im \in Images
  <2>1. im = [next |-> im.next, metas |-> im.metas]
    BY DEF IsImage
  <2> QED BY <2>1, <1>1, <1>4 DEF Images, M
<1> QED BY <1>5, ImageAssumption

\* The registry as it is in memory.
LEMMA CurrentIs ==
    ASSUME Types, Trees, MapOK
    PROVE  /\ DOMAIN Current.metas = DOMAIN tables /\ Current.next = nextId
           /\ \A n \in DOMAIN tables : Current.metas[n] = obj[tables[n]] /\ Current.metas[n].id = tables[n]
           /\ IsImage(Current) /\ IdsOf(Current) /\ Known(Current, obj, pages)
<1>1. DOMAIN Current.metas = DOMAIN tables /\ Current.next = nextId
  BY DEF Current
<1>2. \A n \in DOMAIN tables : Current.metas[n] = obj[tables[n]] /\ tables[n] \in DOMAIN obj
  BY DEF Current, MapOK
<1>3. \A n \in DOMAIN tables : Current.metas[n].id = tables[n]
  BY <1>2 DEF Trees
<1>4. IsImage(Current)
  <2>1. Current = [next |-> Current.next, metas |-> Current.metas]
    BY DEF Current
  <2>2. Current.metas = [n \in DOMAIN Current.metas |-> Current.metas[n]]
    BY DEF Current
  <2>3. ImageOK(Current)
    BY <1>1, <1>2 DEF ImageOK, Types
  <2> QED BY <2>1, <2>2, <2>3 DEF IsImage
<1>5. IdsOf(Current)
  BY <1>1, <1>2, <1>3 DEF IdsOf, MapOK, Trees
<1>6. Known(Current, obj, pages)
  BY <1>1, <1>2, <1>3 DEF Known, PagesFrom
<1> QED BY <1>1, <1>2, <1>3, <1>4, <1>5, <1>6

\* A table that memory knows is as it should be in an older image too: the old
\* root leads to a part of its tree.
LEMMA KnownGood ==
    ASSUME NEW im, IdsOf(im), NEW o, NEW v, NEW n, NEW c, Known(im, o, v),
           Forest(MaxRow, DOMAIN o, v, [i \in DOMAIN o |-> o[i].root], n),
           \A i \in DOMAIN o : RowsFrom(v, o[i].root) \subseteq c[i]
    PROVE  Good(im, v, n, c)
<1>1. \A k \in DOMAIN im.metas :
        /\ TreeOK(MaxRow, v, im.metas[k].root)
        /\ RowsFrom(v, im.metas[k].root) \subseteq RowsFrom(v, o[im.metas[k].id].root)
        /\ PagesFrom(v, im.metas[k].root) \subseteq PagesFrom(v, o[im.metas[k].id].root)
  <2> SUFFICES ASSUME NEW k \in DOMAIN im.metas
               PROVE  /\ TreeOK(MaxRow, v, im.metas[k].root)
                      /\ RowsFrom(v, im.metas[k].root) \subseteq RowsFrom(v, o[im.metas[k].id].root)
                      /\ PagesFrom(v, im.metas[k].root) \subseteq PagesFrom(v, o[im.metas[k].id].root)
    OBVIOUS
  <2>1. im.metas[k].id \in DOMAIN o /\ im.metas[k].root \in PagesFrom(v, o[im.metas[k].id].root)
    BY DEF Known
  <2>2. TreeOK(MaxRow, v, o[im.metas[k].id].root)
    BY <2>1 DEF Forest
  <2> QED BY <2>1, <2>2, SubTree, BoundsAssumption
<1>2. \A k \in DOMAIN im.metas : im.metas[k].id \in DOMAIN o
  BY DEF Known
<1>3. \A k \in DOMAIN im.metas : PagesFrom(v, im.metas[k].root) \subseteq 1 .. n - 1
  BY <1>1, <1>2 DEF Forest
<1>4. \A k, l \in DOMAIN im.metas : k # l => PagesFrom(v, im.metas[k].root) \cap PagesFrom(v, im.metas[l].root) = {}
  <2> SUFFICES ASSUME NEW k \in DOMAIN im.metas, NEW l \in DOMAIN im.metas, k # l
               PROVE  PagesFrom(v, im.metas[k].root) \cap PagesFrom(v, im.metas[l].root) = {}
    OBVIOUS
  <2>1. im.metas[k].id # im.metas[l].id
    BY DEF IdsOf
  <2>2. PagesFrom(v, o[im.metas[k].id].root) \cap PagesFrom(v, o[im.metas[l].id].root) = {}
    BY <1>2, <2>1 DEF Forest
  <2> QED BY <1>1, <2>2
<1>5. Forest(MaxRow, DOMAIN im.metas, v, RootsOf(im), n)
  BY <1>1, <1>3, <1>4 DEF Forest, RootsOf
<1>6. \A k \in DOMAIN im.metas : RowsFrom(v, im.metas[k].root) \subseteq c[im.metas[k].id]
  BY <1>1, <1>2
<1> QED BY <1>5, <1>6 DEF Good

LEMMA GoodSeparate ==
    ASSUME NEW im, IdsOf(im), Good(im, pages, numPages, committed) PROVE Separate(im)
<1>1. \A k \in DOMAIN im.metas : RootsOf(im)[k] = im.metas[k].root
  BY DEF RootsOf
<1>2. /\ \A k \in DOMAIN im.metas : PagesFrom(pages, im.metas[k].root) \subseteq 1 .. numPages - 1
      /\ \A k, l \in DOMAIN im.metas : k # l => PagesFrom(pages, im.metas[k].root) \cap PagesFrom(pages, im.metas[l].root) = {}
  BY <1>1 DEF Good, Forest
<1> QED BY <1>2 DEF Separate, IdsOf

\* What open() would find.
LEMMA RecoveredIs ==
    ASSUME Types, Trees, ImagesOK
    PROVE  IsImage(Recovered) /\ IdsOf(Recovered) /\ Good(Recovered, pages, numPages, committed)
<1>1. IsImage(Recovered)
  BY DEF Types, ImageTypes, Recovered
<1>2. IdsOf(Recovered)
  BY DEF ImagesOK
<1>3. CASE status = "crashed"
  BY <1>1, <1>2, <1>3 DEF ImagesOK
<1>4. CASE status # "crashed"
  <2>1. Known(Recovered, obj, pages)
    BY <1>4 DEF ImagesOK
  <2>2. Forest(MaxRow, DOMAIN obj, pages, [i \in DOMAIN obj |-> obj[i].root], numPages)
    BY DEF Trees, ObjRoots
  <2>3. \A i \in DOMAIN obj : RowsFrom(pages, obj[i].root) \subseteq committed[i]
    BY DEF Trees
  <2>4. Good(Recovered, pages, numPages, committed)
    BY <1>2, <2>1, <2>2, <2>3, KnownGood
  <2> QED BY <1>1, <1>2, <2>4
<1> QED BY <1>3, <1>4

-----------------------------------------------------------------------------
(* What a step keeps. *)

\* Every table keeps its pages, at least.
Grows(o, v, o2, v2) ==
    /\ DOMAIN o \subseteq DOMAIN o2
    /\ \A i \in DOMAIN o : PagesFrom(v, o[i].root) \subseteq PagesFrom(v2, o2[i].root)

LEMMA KnownGrows ==
    ASSUME NEW im, NEW o, NEW v, NEW o2, NEW v2, Known(im, o, v), Grows(o, v, o2, v2)
    PROVE  Known(im, o2, v2)
BY DEF Known, Grows

\* Snapshots in progress do not notice what happens to single tables.
LEMMA SnapsKept ==
    ASSUME \A t \in Threads : SnapOK(t), UNCHANGED <<snap, todo>>, Grows(obj, pages, obj', pages'),
           \A t \in Threads : pc[t] = "snapshot" => pc'[t] = "snapshot",
           tables' = tables \/ MapUnread
    PROVE  \A t \in Threads : SnapOK(t)'
<1> SUFFICES ASSUME NEW t \in Threads PROVE SnapOK(t)'
  OBVIOUS
<1>1. SnapOK(t)
  OBVIOUS
<1>2. Known(snap'[t], obj', pages')
  <2>1. Known(snap[t], obj, pages)
    BY <1>1 DEF SnapOK
  <2> QED BY <2>1, KnownGrows
<1>3. IdsOf(snap'[t])
  BY <1>1 DEF SnapOK
<1>4. todo[t] = {} \/ tables' = tables
  BY DEF MapUnread
<1>5. todo'[t] \subseteq DOMAIN tables'
  BY <1>1, <1>4 DEF SnapOK
<1> QED BY <1>1, <1>2, <1>3, <1>4, <1>5 DEF SnapOK

\* Neither does the image open() would load.
LEMMA ImagesKept ==
    ASSUME ImagesOK, status = "up", UNCHANGED <<status, disk, log>>, Grows(obj, pages, obj', pages')
    PROVE  ImagesOK'
<1>1. Recovered' = Recovered
  BY DEF Recovered
<1>2. IdsOf(Recovered) /\ Known(Recovered, obj, pages)
  BY DEF ImagesOK
<1>3. Known(Recovered, obj', pages')
  BY <1>2, KnownGrows
<1> QED BY <1>1, <1>2, <1>3 DEF ImagesOK

\* Behind the gate a thread in a call, or entering one, is alone.
LEMMA Alone ==
    ASSUME GateOK, load.gated, status = "up", NEW t \in Threads,
           pc[t] # "idle" \/ \A u \in Threads : pc[u] = "idle"
    PROVE  \A u \in Threads \ {t} : pc[u] = "idle"
BY DEF GateOK

\* A step that changes no table's id or schema.
LEMMA GateKept ==
    ASSUME CatalogInv, status = "up", NEW t \in Threads, NEW l, pc' = [pc EXCEPT ![t] = l],
           l \notin {"changed", "snapshot"}, ~Changing(t),
           load.gated => pc[t] # "idle" \/ \A u \in Threads : pc[u] = "idle",
           UNCHANGED <<disk, log, load, tables>>,
           \A n \in DOMAIN tables : obj'[tables[n]].id = obj[tables[n]].id
                                    /\ obj'[tables[n]].schema = obj[tables[n]].schema
    PROVE  GateOK'
<1> SUFFICES ASSUME load.gated PROVE GateOK'
  BY DEF GateOK
<1>1. \A u \in Threads \ {t} : pc[u] = "idle" /\ pc'[u] = "idle"
  BY Alone DEF CatalogInv, Types
<1>2. pc'[t] = l /\ \A u \in Threads : ~Changing(u) /\ pc'[u] # "snapshot"
  BY <1>1 DEF CatalogInv, Types, Changing
<1>3. SameShape(Recovered, Current)
  BY <1>2 DEF CatalogInv, GateOK
<1>4. Recovered' = Recovered
  BY DEF Recovered
<1>5. /\ DOMAIN Current'.metas = DOMAIN Current.metas
      /\ \A n \in DOMAIN Current.metas : Current'.metas[n].id = Current.metas[n].id
                                         /\ Current'.metas[n].schema = Current.metas[n].schema
  BY DEF Current
<1>6. SameShape(Recovered, Current)'
  BY <1>3, <1>4, <1>5 DEF SameShape
<1> QED BY <1>1, <1>2, <1>6 DEF GateOK

\* The step that changes the schema.
LEMMA GateChanged ==
    ASSUME CatalogInv, status = "up", NEW t \in Threads, pc' = [pc EXCEPT ![t] = "changed"],
           load.gated => pc[t] # "idle" \/ \A u \in Threads : pc[u] = "idle",
           UNCHANGED load
    PROVE  GateOK'
<1> SUFFICES ASSUME load.gated PROVE GateOK'
  BY DEF GateOK
<1>1. \A u \in Threads \ {t} : pc[u] = "idle" /\ pc'[u] = "idle"
  BY Alone DEF CatalogInv, Types
<1>2. pc'[t] = "changed"
  BY DEF CatalogInv, Types
<1> QED BY <1>1, <1>2 DEF GateOK, Changing

\* The tables themselves do not change.
LEMMA TreesKept ==
    ASSUME Trees, UNCHANGED <<obj, pages, numPages, nextId, committed, crashes>>
    PROVE  Trees' /\ Grows(obj, pages, obj', pages')
<1>1. ObjRoots' = ObjRoots
  BY DEF ObjRoots
<1>2. Trees'
  BY <1>1 DEF Trees, Exact
<1>3. Grows(obj, pages, obj', pages')
  BY DEF Grows
<1> QED BY <1>2, <1>3

\* The calls of the other threads.
LEMMA CallsKept ==
    ASSUME Calls, NEW t \in Threads,
           \A u \in Threads \ {t} : pc'[u] = pc[u] /\ cur'[u] = cur[u],
           \A u \in Threads \ {t} : pc[u] = "allocated" => Allocated(u)',
           DOMAIN obj \subseteq DOMAIN obj',
           pc'[t] = "checked" => cur'[t].name \in Names,
           pc'[t] # "allocated",
           pc'[t] = "resolved" => cur'[t].id \in DOMAIN obj'
    PROVE  Calls'
<1>1. ASSUME NEW u \in Threads
      PROVE  /\ pc'[u] \in {"checked", "allocated"} => cur'[u].name \in Names
             /\ pc'[u] = "allocated" => Allocated(u)'
             /\ pc'[u] = "resolved" => cur'[u].id \in DOMAIN obj'
  BY DEF Calls
<1>2. ASSUME NEW u \in Threads, NEW w \in Threads, pc'[u] = "allocated", pc'[w] = "allocated", u # w
      PROVE  cur'[u].id # cur'[w].id /\ cur'[u].root # cur'[w].root
  BY <1>2 DEF Calls
<1> QED BY <1>1, <1>2 DEF Calls

\* An allocated root page is not touched.
LEMMA AllocatedKept ==
    ASSUME Types, NEW u \in Threads, Allocated(u), cur'[u] = cur[u], nextId' = nextId,
           DOMAIN obj' = DOMAIN obj, numPages' \in Nat, numPages' >= numPages,
           pages'[cur[u].root] = pages[cur[u].root],
           \A i \in DOMAIN obj : cur[u].root \notin PagesFrom(pages', obj'[i].root)
    PROVE  Allocated(u)'
<1>1. numPages \in Nat
  BY BoundsAssumption DEF Types
<1>2. cur'[u].root \in 1 .. numPages' - 1
  BY <1>1 DEF Allocated
<1> QED BY <1>2 DEF Allocated

\* A step of a thread that changes no table and no image.
LEMMA ThreadStep ==
    ASSUME CatalogInv, status = "up", NEW t \in Threads, NEW l,
           l \in {"idle", "checked", "resolved"}, ~Changing(t),
           load.gated => pc[t] # "idle" \/ \A u \in Threads : pc[u] = "idle",
           pc' = [pc EXCEPT ![t] = l], NEW c, cur' = [cur EXCEPT ![t] = c],
           c \in [name : Names \cup {NoImage}, id : 0 .. MaxTables, root : Page],
           l = "checked" => c.name \in Names,
           l = "resolved" => c.id \in DOMAIN obj,
           UNCHANGED <<load, status, mem, pages, numPages, disk, log, snap, todo, committed, crashes, shutdowns>>
    PROVE  CatalogInv'
<1>1. UNCHANGED <<tables, obj, nextId>>
  BY DEF mem
<1>2. Types
  BY DEF CatalogInv
<1>3. pc' \in [Threads -> {"idle", "checked", "allocated", "resolved", "changed", "snapshot"}]
      /\ cur' \in [Threads -> [name : Names \cup {NoImage}, id : 0 .. MaxTables, root : Page]]
  BY <1>2 DEF Types
<1>4. Types'
  BY <1>1, <1>2, <1>3 DEF Types, ImageTypes, IsImage, ImageOK, MetaType
<1>5. Trees' /\ Grows(obj, pages, obj', pages')
  BY <1>1, TreesKept DEF CatalogInv
<1>6. pc'[t] = l /\ cur'[t] = c /\ \A u \in Threads \ {t} : pc'[u] = pc[u] /\ cur'[u] = cur[u]
  BY <1>2 DEF Types
<1>7. Calls'
  <2>1. \A u \in Threads \ {t} : pc[u] = "allocated" => Allocated(u)'
    BY <1>1, <1>6 DEF CatalogInv, Calls, Allocated
  <2> QED BY <1>1, <1>6, <2>1, CallsKept DEF CatalogInv
<1>8. \A u \in Threads : SnapOK(u)'
  <2>1. \A u \in Threads : pc[u] = "snapshot" => pc'[u] = "snapshot"
    BY <1>6 DEF Changing
  <2> QED BY <1>1, <1>5, <2>1, SnapsKept DEF CatalogInv
<1>9. ImagesOK'
  BY <1>5, ImagesKept DEF CatalogInv
<1>10. GateOK'
  BY <1>1, GateKept
<1> QED BY <1>1, <1>4, <1>5, <1>7, <1>8, <1>9, <1>10 DEF CatalogInv, MapOK, Down

LEMMA NoCallIs == NoCall \in [name : Names \cup {NoImage}, id : 0 .. MaxTables, root : Page]
BY BoundsAssumption DEF NoCall, Page

\* create_table looks the name up.
LEMMA CreateCheckStep ==
    ASSUME CatalogInv, NEW t \in Threads, NEW n \in Names, CreateCheck(t, n), UNCHANGED load
    PROVE  CatalogInv'
<1> DEFINE c == [NoCall EXCEPT !.name = n]
<1>1. c \in [name : Names \cup {NoImage}, id : 0 .. MaxTables, root : Page] /\ c.name \in Names
  BY NoCallIs DEF NoCall
<1>2. /\ status = "up" /\ pc[t] = "idle" /\ (load.gated => \A u \in Threads : pc[u] = "idle")
      /\ pc' = [pc EXCEPT ![t] = "checked"] /\ cur' = [cur EXCEPT ![t] = c]
      /\ UNCHANGED <<load, status, mem, pages, numPages, disk, log, snap, todo, committed, crashes, shutdowns>>
  BY DEF CreateCheck, MayCall, Goto
<1>3. ~Changing(t)
  BY <1>2 DEF Changing
<1> HIDE DEF c
<1> QED BY <1>1, <1>2, <1>3, ThreadStep

\* A call on a table looks the table up.
LEMMA ResolveStep ==
    ASSUME CatalogInv, NEW t \in Threads, NEW n \in Names, Resolve(t, n), UNCHANGED load
    PROVE  CatalogInv'
<1> DEFINE c == [NoCall EXCEPT !.name = n, !.id = tables[n]]
<1>1. c \in [name : Names \cup {NoImage}, id : 0 .. MaxTables, root : Page] /\ c.id \in DOMAIN obj
  <2>1. tables[n] \in DOMAIN obj
    BY DEF CatalogInv, MapOK, Resolve
  <2>2. tables[n] \in 0 .. MaxTables
    BY <2>1, BoundsAssumption DEF CatalogInv, Types, TableIds
  <2> QED BY <2>1, <2>2, NoCallIs DEF NoCall
<1>2. /\ status = "up" /\ pc[t] = "idle" /\ (load.gated => \A u \in Threads : pc[u] = "idle")
      /\ pc' = [pc EXCEPT ![t] = "resolved"] /\ cur' = [cur EXCEPT ![t] = c]
      /\ UNCHANGED <<load, status, mem, pages, numPages, disk, log, snap, todo, committed, crashes, shutdowns>>
  BY DEF Resolve, MayCall, Goto
<1>3. ~Changing(t)
  BY <1>2 DEF Changing
<1>4. PICK d : d = c
  OBVIOUS
<1> HIDE DEF c
<1> QED BY <1>1, <1>2, <1>3, <1>4, ThreadStep

\* New pages at the end of the file leave every tree alone.
LEMMA ForestFresh ==
    ASSUME NEW N \in Nat, NEW I, NEW v, NEW R, NEW n \in Nat, Forest(N, I, v, R, n),
           NEW n2 \in Nat, n <= n2, NEW u, \A p \in DOMAIN v : p \in 1 .. n - 1 => p \in DOMAIN u /\ u[p] = v[p]
    PROVE  /\ Forest(N, I, u, R, n2)
           /\ \A i \in I : /\ PagesFrom(u, R[i]) = PagesFrom(v, R[i]) /\ RowsFrom(u, R[i]) = RowsFrom(v, R[i])
<1>1. \A i \in I : TreeOK(N, v, R[i]) /\ PagesFrom(v, R[i]) \subseteq 1 .. n - 1
  BY DEF Forest
<1>2. \A i \in I : TreeOK(N, u, R[i]) /\ PagesFrom(u, R[i]) = PagesFrom(v, R[i]) /\ RowsFrom(u, R[i]) = RowsFrom(v, R[i])
  <2> SUFFICES ASSUME NEW i \in I
               PROVE TreeOK(N, u, R[i]) /\ PagesFrom(u, R[i]) = PagesFrom(v, R[i]) /\ RowsFrom(u, R[i]) = RowsFrom(v, R[i])
    OBVIOUS
  <2>1. PagesFrom(v, R[i]) \subseteq DOMAIN v
    BY <1>1, TreePages
  <2>2. \A p \in PagesFrom(v, R[i]) : p \in DOMAIN u /\ u[p] = v[p]
    BY <1>1, <2>1
  <2> QED BY <1>1, <2>2, TreeFrame
<1>3. 1 .. n - 1 \subseteq 1 .. n2 - 1
  OBVIOUS
<1> QED BY <1>1, <1>2, <1>3 DEF Forest

\* A new tree a of one empty page.
Joined(N, I, v, S, n, a) == /\ Forest(N, I \cup {a}, v, S, n)
                            /\ PagesFrom(v, S[a]) = {S[a]} /\ RowsFrom(v, S[a]) = {}

LEMMA ForestJoined ==
    ASSUME NEW N \in Nat, NEW I, NEW v, NEW R, NEW n \in Nat, Forest(N, I, v, R, n),
           NEW a, a \notin I, NEW q \in 1 .. n - 1, q \in DOMAIN v, v[q] = Leaf({}),
           \A i \in I : q \notin PagesFrom(v, R[i]),
           NEW S, S[a] = q, \A i \in I : S[i] = R[i]
    PROVE  Joined(N, I, v, S, n, a)
<1>1. TreeOK(N, v, q) /\ PagesFrom(v, q) = {q} /\ RowsFrom(v, q) = {}
  <2>1. LeafOK(N, v[q]) /\ IsLeaf(v[q]) /\ v[q].rows = {}
    BY LeafIsOK, NodeFields
  <2>2. TreeOK(N, v, q)
    BY <2>1 DEF TreeOK
  <2> QED BY <2>1, <2>2, LeafIs
<1>2. \A i \in I \cup {a} : TreeOK(N, v, S[i]) /\ PagesFrom(v, S[i]) \subseteq 1 .. n - 1
  BY <1>1 DEF Forest
<1>3. \A i, j \in I \cup {a} : i # j => PagesFrom(v, S[i]) \cap PagesFrom(v, S[j]) = {}
  <2> SUFFICES ASSUME NEW i \in I \cup {a}, NEW j \in I \cup {a}, i # j
               PROVE  PagesFrom(v, S[i]) \cap PagesFrom(v, S[j]) = {}
    OBVIOUS
  <2>1. CASE i \in I /\ j \in I
    BY <2>1 DEF Forest
  <2>2. CASE i = a
    BY <1>1, <2>2
  <2>3. CASE j = a
    BY <1>1, <2>3
  <2> QED BY <2>1, <2>2, <2>3
<1> QED BY <1>1, <1>2, <1>3 DEF Forest, Joined

-----------------------------------------------------------------------------
(* create_table, drop_table and the other schema changes. *)

\* create_table allocates a root page and an id.
LEMMA CreateAllocateStep ==
    ASSUME CatalogInv, NEW t \in Threads, CreateAllocate(t), UNCHANGED load
    PROVE  CatalogInv'
<1> DEFINE f == FirstFree
<1>1. Types
  BY DEF CatalogInv
<1>2. /\ pc[t] = "checked" /\ status = "up" /\ nextId <= load.tables /\ f < MaxPages
      /\ pages' = [pages EXCEPT ![f] = Leaf({})] /\ numPages' = f + 1 /\ nextId' = nextId + 1
      /\ cur' = [cur EXCEPT ![t].id = nextId, ![t].root = f] /\ pc' = [pc EXCEPT ![t] = "allocated"]
      /\ UNCHANGED <<load, status, tables, obj, disk, log, snap, todo, committed, crashes, shutdowns>>
  BY DEF CreateAllocate, Goto
<1>3. /\ numPages \in Nat /\ numPages <= MaxPages /\ f \in Nat /\ f >= numPages /\ f >= 1 /\ f \in Page
      /\ MaxPages \in Nat /\ numPages + 0 <= f + 1 /\ f + 1 \in Nat
  BY <1>1, <1>2, BoundsAssumption DEF Types, FirstFree, Page
<1> HIDE DEF f
<1>4. nextId \in TableIds /\ nextId + 1 \in 1 .. MaxTables + 1 /\ nextId \in Nat
  <2>1. load.tables \in 0 .. MaxTables
    BY <1>1, WorkloadAssumption DEF Types
  <2> QED BY <1>1, <1>2, <2>1, BoundsAssumption DEF Types, TableIds
<1>5. /\ \A u \in Threads \ {t} : pc'[u] = pc[u] /\ cur'[u] = cur[u]
      /\ pc'[t] = "allocated" /\ cur'[t].name = cur[t].name /\ cur'[t].id = nextId /\ cur'[t].root = f
      /\ pc' \in [Threads -> {"idle", "checked", "allocated", "resolved", "changed", "snapshot"}]
      /\ cur' \in [Threads -> [name : Names \cup {NoImage}, id : 0 .. MaxTables, root : Page]]
  <2>1. nextId \in 0 .. MaxTables
    BY <1>4, BoundsAssumption DEF TableIds
  <2>2. cur'[t] = [cur[t] EXCEPT !.id = nextId, !.root = f] /\ \A u \in Threads \ {t} : cur'[u] = cur[u]
    BY <1>1, <1>2 DEF Types
  <2>3. cur[t] \in [name : Names \cup {NoImage}, id : 0 .. MaxTables, root : Page]
    BY <1>1 DEF Types
  <2>4. /\ cur'[t].name = cur[t].name /\ cur'[t].id = nextId /\ cur'[t].root = f
        /\ cur'[t] \in [name : Names \cup {NoImage}, id : 0 .. MaxTables, root : Page]
    BY <1>3, <2>1, <2>2, <2>3
  <2>5. cur' \in [Threads -> [name : Names \cup {NoImage}, id : 0 .. MaxTables, root : Page]]
    <3>1. cur' = [u \in Threads |-> cur'[u]]
      BY <1>1, <1>2 DEF Types
    <3>2. \A u \in Threads : cur'[u] \in [name : Names \cup {NoImage}, id : 0 .. MaxTables, root : Page]
      BY <1>1, <2>2, <2>4 DEF Types
    <3> QED BY <3>1, <3>2
  <2>6. pc' \in [Threads -> {"idle", "checked", "allocated", "resolved", "changed", "snapshot"}]
        /\ pc'[t] = "allocated" /\ \A u \in Threads \ {t} : pc'[u] = pc[u]
    BY <1>1, <1>2 DEF Types
  <2> QED BY <2>2, <2>4, <2>5, <2>6
<1>6. pages'[f] = Leaf({}) /\ \A p \in DOMAIN pages : p \in DOMAIN pages' /\ (p # f => pages'[p] = pages[p])
  BY <1>1, <1>2, <1>3 DEF Types
<1>7. Types'
  <2>1. numPages' \in 0 .. MaxPages /\ nextId' \in 1 .. MaxTables + 1
    BY <1>2, <1>3, <1>4
  <2>2. pages' = [p \in Page |-> pages'[p]]
    BY <1>1, <1>2 DEF Types
  <2> QED BY <1>1, <1>2, <1>5, <2>1, <2>2 DEF Types, ImageTypes, IsImage, ImageOK, MetaType
<1>8. /\ Forest(MaxRow, DOMAIN obj, pages', ObjRoots, f + 1)
      /\ \A i \in DOMAIN obj : /\ PagesFrom(pages', obj[i].root) = PagesFrom(pages, obj[i].root)
                               /\ RowsFrom(pages', obj[i].root) = RowsFrom(pages, obj[i].root)
  <2>1. Forest(MaxRow, DOMAIN obj, pages, ObjRoots, numPages)
    BY DEF CatalogInv, Trees
  <2>2. \A p \in DOMAIN pages : p \in 1 .. numPages - 1 => p \in DOMAIN pages' /\ pages'[p] = pages[p]
    BY <1>3, <1>6
  <2>3. /\ Forest(MaxRow, DOMAIN obj, pages', ObjRoots, f + 1)
        /\ \A i \in DOMAIN obj : /\ PagesFrom(pages', ObjRoots[i]) = PagesFrom(pages, ObjRoots[i])
                                 /\ RowsFrom(pages', ObjRoots[i]) = RowsFrom(pages, ObjRoots[i])
    BY <1>3, <2>1, <2>2, ForestFresh, BoundsAssumption
  <2> QED BY <2>3 DEF ObjRoots
<1>9. Trees' /\ Grows(obj, pages, obj', pages')
  <2>1. ObjRoots' = ObjRoots
    BY <1>2 DEF ObjRoots
  <2>2. \A i \in DOMAIN obj : i < nextId + 1
    BY <1>1, <1>4, BoundsAssumption DEF CatalogInv, Trees, Types, TableIds
  <2> QED BY <1>2, <1>8, <2>1, <2>2 DEF CatalogInv, Trees, Exact, Grows
<1>10. Calls'
  <2>1. ASSUME NEW u \in Threads \ {t}, pc[u] = "allocated"
        PROVE  Allocated(u)' /\ cur'[u].id # nextId /\ cur'[u].root # f
    <3>1. Allocated(u)
      BY <2>1 DEF CatalogInv, Calls
    <3>2. /\ cur[u].id \in TableIds \ DOMAIN obj /\ cur[u].id < nextId /\ cur[u].id \in Nat
          /\ cur[u].root \in 1 .. numPages - 1
      BY <3>1, BoundsAssumption DEF Allocated, TableIds
    <3>3. cur[u].root \in 1 .. (f + 1) - 1 /\ cur[u].root # f
      BY <3>2, <1>3
    <3>4. pages'[cur[u].root] = Leaf({})
      <4>1. cur[u].root \in DOMAIN pages
        BY <1>1, <1>3, <3>2 DEF Types, Page
      <4> QED BY <1>6, <3>1, <3>3, <4>1 DEF Allocated
    <3>5. \A i \in DOMAIN obj : cur[u].root \notin PagesFrom(pages', obj[i].root)
      BY <1>8, <3>1 DEF Allocated
    <3>6. cur[u].id < nextId + 1 /\ cur[u].id # nextId
      BY <1>4, <3>2
    <3>7. cur'[u] = cur[u] /\ obj' = obj /\ nextId' = nextId + 1 /\ numPages' = f + 1
      BY <1>2, <1>5, <2>1
    <3>8. /\ cur'[u].id \in TableIds \ DOMAIN obj' /\ cur'[u].id < nextId'
          /\ cur'[u].root \in 1 .. numPages' - 1 /\ pages'[cur'[u].root] = Leaf({})
      BY <3>2, <3>3, <3>4, <3>6, <3>7
    <3>9. \A i \in DOMAIN obj' : cur'[u].root \notin PagesFrom(pages', obj'[i].root)
      BY <3>5, <3>7
    <3>10. Allocated(u)'
      BY <3>8, <3>9 DEF Allocated
    <3> QED BY <3>3, <3>6, <3>7, <3>10
  <2>2. Allocated(t)'
    <3>1. nextId \notin DOMAIN obj
      BY <1>4 DEF CatalogInv, Trees
    <3>2. \A i \in DOMAIN obj : f \notin PagesFrom(pages', obj[i].root)
      <4>1. \A i \in DOMAIN obj : PagesFrom(pages, obj[i].root) \subseteq 1 .. numPages - 1
        BY DEF CatalogInv, Trees, Forest, ObjRoots
      <4>2. f \notin 1 .. numPages - 1
        BY <1>3
      <4> QED BY <1>8, <4>1, <4>2
    <3>3. f \in 1 .. (f + 1) - 1
      BY <1>3
    <3>4. nextId < nextId + 1
      BY <1>4
    <3>5. cur'[t].id = nextId /\ cur'[t].root = f /\ obj' = obj /\ nextId' = nextId + 1 /\ numPages' = f + 1
      BY <1>2, <1>5
    <3> QED BY <1>4, <1>6, <3>1, <3>2, <3>3, <3>4, <3>5 DEF Allocated
  <2>3. \A u \in Threads : pc'[u] \in {"checked", "allocated"} => cur'[u].name \in Names
    BY <1>2, <1>5 DEF CatalogInv, Calls
  <2>4. \A u \in Threads : pc'[u] = "resolved" => cur'[u].id \in DOMAIN obj
    BY <1>5 DEF CatalogInv, Calls
  <2>5. ASSUME NEW u \in Threads, NEW w \in Threads, pc'[u] = "allocated", pc'[w] = "allocated", u # w
        PROVE  cur'[u].id # cur'[w].id /\ cur'[u].root # cur'[w].root
    BY <1>5, <2>1, <2>5 DEF CatalogInv, Calls
  <2> QED BY <1>2, <1>5, <2>1, <2>2, <2>3, <2>4, <2>5 DEF Calls
<1>11. \A u \in Threads : SnapOK(u)'
  <2>1. \A u \in Threads : pc[u] = "snapshot" => pc'[u] = "snapshot"
    BY <1>2, <1>5
  <2> QED BY <1>2, <1>9, <2>1, SnapsKept DEF CatalogInv
<1>12. ImagesOK'
  BY <1>2, <1>9, ImagesKept DEF CatalogInv
<1>13. GateOK'
  BY <1>2, GateKept DEF Changing
<1> QED BY <1>2, <1>7, <1>9, <1>10, <1>11, <1>12, <1>13 DEF CatalogInv, MapOK, Down

\* h is the function g with y at x.
IsWith(h, g, x, y) == /\ DOMAIN h = DOMAIN g \cup {x} /\ h[x] = y
                      /\ \A z \in DOMAIN g : z # x => h[z] = g[z]
                      /\ h = [z \in DOMAIN h |-> h[z]]

LEMMA WithIs == ASSUME NEW g, NEW x, NEW y PROVE IsWith(With(g, x, y), g, x, y)
BY DEF With, IsWith

\* create_table loses a race for the name.
LEMMA CreateLostStep ==
    ASSUME CatalogInv, NEW t \in Threads, CreateRegister(t), cur[t].name \in DOMAIN tables, UNCHANGED load
    PROVE  CatalogInv'
<1>1. /\ status = "up" /\ pc[t] = "allocated"
      /\ pc' = [pc EXCEPT ![t] = "idle"] /\ cur' = [cur EXCEPT ![t] = NoCall]
      /\ UNCHANGED <<load, status, mem, pages, numPages, disk, log, snap, todo, committed, crashes, shutdowns>>
  BY DEF CreateRegister, Return, Goto, mem
<1>2. ~Changing(t)
  BY <1>1 DEF Changing
<1> QED BY <1>1, <1>2, NoCallIs, ThreadStep

\* create_table registers the table.
LEMMA CreateRegisterStep ==
    ASSUME CatalogInv, NEW t \in Threads, CreateRegister(t), cur[t].name \notin DOMAIN tables, UNCHANGED load
    PROVE  CatalogInv'
<1>1. Types /\ Trees /\ MapOK /\ Calls
  BY DEF CatalogInv
<1>2. PICK k, a, q : k = cur[t].name /\ a = cur[t].id /\ q = cur[t].root
  OBVIOUS
<1> DEFINE m == NewMeta(a, q)
<1>3. /\ pc[t] = "allocated" /\ status = "up" /\ MapUnread
      /\ pc' = [pc EXCEPT ![t] = "changed"]
      /\ tables' = With(tables, k, a) /\ obj' = With(obj, a, m)
      /\ committed' = [committed EXCEPT ![a] = {}]
      /\ UNCHANGED <<load, status, nextId, pages, numPages, disk, log, cur, snap, todo, crashes, shutdowns>>
  BY <1>2 DEF CreateRegister, Goto
<1>4. /\ k \in Names /\ k \notin DOMAIN tables
      /\ a \in TableIds /\ a \notin DOMAIN obj /\ a < nextId
      /\ q \in 1 .. numPages - 1 /\ pages[q] = Leaf({})
      /\ \A i \in DOMAIN obj : q \notin PagesFrom(pages, obj[i].root)
  BY <1>1, <1>2, <1>3 DEF Calls, Allocated
<1>5. /\ DOMAIN tables' = DOMAIN tables \cup {k} /\ tables'[k] = a
      /\ \A n \in DOMAIN tables : tables'[n] = tables[n]
      /\ tables' = [n \in DOMAIN tables' |-> tables'[n]]
  <2>1. IsWith(tables', tables, k, a)
    BY <1>3, WithIs
  <2> QED BY <1>4, <2>1 DEF IsWith
<1>6. /\ DOMAIN obj' = DOMAIN obj \cup {a} /\ obj'[a] = m
      /\ \A i \in DOMAIN obj : obj'[i] = obj[i]
      /\ obj' = [i \in DOMAIN obj' |-> obj'[i]]
  <2>1. IsWith(obj', obj, a, m)
    BY <1>3, WithIs
  <2> HIDE DEF m
  <2> QED BY <1>4, <2>1 DEF IsWith
<1>7. q \in Page /\ numPages \in Nat /\ MaxPages \in Nat /\ MaxRow \in Nat /\ MaxTables \in Nat
  BY <1>1, <1>4, BoundsAssumption DEF Types, Page
<1>8. m \in MetaType /\ m.id = a /\ m.root = q /\ m.count = 0
  <2>1. load.alters \in Nat
    BY <1>1, WorkloadAssumption DEF Types
  <2>2. MetaFields(m)
    BY <1>4, <1>7, <2>1 DEF MetaFields, NewMeta, TableIds, CountMod
  <2> QED BY <2>2, MetaIs DEF NewMeta
<1> HIDE DEF m
<1>9. pc'[t] = "changed" /\ \A u \in Threads \ {t} : pc'[u] = pc[u]
  BY <1>1, <1>3 DEF Types
<1>10. Types'
  <2>1. committed' \in [TableIds -> SUBSET RowIds]
    BY <1>1, <1>3 DEF Types
  <2>2. pc' \in [Threads -> {"idle", "checked", "allocated", "resolved", "changed", "snapshot"}]
    BY <1>1, <1>3 DEF Types
  <2>3. MetaType' = MetaType
    BY <1>3 DEF MetaType
  <2>4. \A i \in DOMAIN obj' : obj'[i] \in MetaType
    BY <1>1, <1>6, <1>8 DEF Types
  <2> QED BY <1>1, <1>3, <1>4, <1>5, <1>6, <2>1, <2>2, <2>3, <2>4 DEF Types, ImageTypes, IsImage, ImageOK
<1>11. \A i \in DOMAIN obj : ObjRoots'[i] = ObjRoots[i] /\ ObjRoots'[a] = q
  BY <1>6, <1>8 DEF ObjRoots
<1>12. Forest(MaxRow, DOMAIN obj', pages, ObjRoots', numPages) /\ PagesFrom(pages, q) = {q} /\ RowsFrom(pages, q) = {}
  <2>1. Forest(MaxRow, DOMAIN obj, pages, ObjRoots, numPages)
    BY <1>1 DEF Trees
  <2>2. \A i \in DOMAIN obj : q \notin PagesFrom(pages, ObjRoots[i])
    BY <1>4 DEF ObjRoots
  <2>3. q \in DOMAIN pages
    BY <1>1, <1>7 DEF Types
  <2>4. ObjRoots'[a] = q
    BY <1>6, <1>8 DEF ObjRoots
  <2>5. \A i \in DOMAIN obj : ObjRoots'[i] = ObjRoots[i]
    BY <1>11
  <2>6. Joined(MaxRow, DOMAIN obj, pages, ObjRoots', numPages, a)
    BY <1>4, <1>7, <2>1, <2>2, <2>3, <2>4, <2>5, ForestJoined
  <2> QED BY <1>6, <2>4, <2>6 DEF Joined
<1>13. Trees'
  <2>1. ASSUME NEW i \in DOMAIN obj
        PROVE  /\ obj'[i].id = i /\ i < nextId /\ RowsFrom(pages, obj'[i].root) \subseteq committed'[i]
               /\ crashes = 0 => /\ RowsFrom(pages, obj'[i].root) = committed'[i]
                                 /\ obj'[i].count = Cardinality(committed'[i])
                                 /\ \A x \in committed'[i] : x < obj'[i].next
    <3>1. obj'[i] = obj[i] /\ committed'[i] = committed[i]
      BY <1>1, <1>3, <1>4, <1>6 DEF Types
    <3> QED BY <1>1, <3>1 DEF Trees, Exact
  <2>2. committed'[a] = {} /\ Cardinality({}) = 0
    BY <1>1, <1>3, <1>4, FS_EmptySet DEF Types
  <2>3. \A i \in DOMAIN obj' : /\ obj'[i].id = i /\ i < nextId'
                               /\ RowsFrom(pages', obj'[i].root) \subseteq committed'[i]
                               /\ crashes' = 0 => Exact(i)'
    <3>2. RowsFrom(pages', obj'[a].root) = {} /\ obj'[a].count = 0 /\ obj'[a].id = a
      BY <1>3, <1>6, <1>8, <1>12
    <3>3. Exact(a)'
      BY <2>2, <3>2 DEF Exact
    <3>4. a < nextId'
      BY <1>3, <1>4
    <3>5. DOMAIN obj' = DOMAIN obj \cup {a}
      BY <1>6
    <3>6. RowsFrom(pages', obj'[a].root) \subseteq committed'[a]
      BY <3>2
    <3> SUFFICES ASSUME NEW i \in DOMAIN obj'
                 PROVE  /\ obj'[i].id = i /\ i < nextId'
                        /\ RowsFrom(pages', obj'[i].root) \subseteq committed'[i]
                        /\ crashes' = 0 => Exact(i)'
      OBVIOUS
    <3>7. CASE i = a
      <4>1. Exact(i)'
        BY <3>3, <3>7 DEF Exact
      <4> QED BY <3>2, <3>4, <3>6, <3>7, <4>1
    <3>8. CASE i # a
      <4>1. i \in DOMAIN obj
        BY <3>5, <3>8
      <4>2. /\ obj'[i].id = i /\ i < nextId
            /\ RowsFrom(pages, obj'[i].root) \subseteq committed'[i]
        BY <2>1, <4>1
      <4>3. crashes = 0 => /\ RowsFrom(pages, obj'[i].root) = committed'[i]
                           /\ obj'[i].count = Cardinality(committed'[i])
                           /\ \A x \in committed'[i] : x < obj'[i].next
        BY <2>1, <4>1
      <4> QED BY <1>3, <4>2, <4>3 DEF Exact
    <3> QED BY <3>7, <3>8
  <2> QED BY <1>3, <1>12, <2>3 DEF Trees
<1>14. Grows(obj, pages, obj', pages')
  BY <1>3, <1>6 DEF Grows
<1>15. MapOK'
  <2>1. \A n \in DOMAIN tables : tables[n] \in DOMAIN obj /\ tables[n] # a
    BY <1>1, <1>4 DEF MapOK
  <2> QED BY <1>1, <1>5, <1>6, <2>1 DEF MapOK
<1>16. Calls'
  <2>1. ASSUME NEW u \in Threads \ {t}, pc[u] = "allocated" PROVE Allocated(u)'
    <3>1. Allocated(u) /\ cur[u].id # a /\ cur[u].root # q
      BY <1>1, <1>2, <1>3, <2>1 DEF Calls
    <3>2. \A i \in DOMAIN obj' : cur[u].root \notin PagesFrom(pages, obj'[i].root)
      BY <1>6, <1>8, <1>12, <3>1 DEF Allocated
    <3> QED BY <1>3, <1>6, <3>1, <3>2 DEF Allocated
  <2>2. cur' = cur
    BY <1>3
  <2> QED BY <1>1, <1>6, <1>9, <2>1, <2>2, CallsKept
<1>17. \A u \in Threads : SnapOK(u)'
  <2>1. \A u \in Threads : pc[u] = "snapshot" => pc'[u] = "snapshot"
    BY <1>3, <1>9
  <2> QED BY <1>3, <1>14, <2>1, SnapsKept DEF CatalogInv
<1>18. ImagesOK'
  BY <1>3, <1>14, ImagesKept DEF CatalogInv
<1>19. GateOK'
  BY <1>3, GateChanged
<1> QED BY <1>3, <1>10, <1>13, <1>15, <1>16, <1>17, <1>18, <1>19 DEF CatalogInv, Down

\* drop_table takes the name out of the map; the table lives on for those who
\* hold it.
LEMMA DropTableStep ==
    ASSUME CatalogInv, NEW t \in Threads, NEW n \in Names, DropTable(t, n), UNCHANGED load
    PROVE  CatalogInv'
<1>1. Types /\ Trees /\ MapOK /\ Calls
  BY DEF CatalogInv
<1>2. /\ pc[t] = "idle" /\ status = "up" /\ MapUnread /\ (load.gated => \A u \in Threads : pc[u] = "idle")
      /\ tables' = Without(tables, n) /\ pc' = [pc EXCEPT ![t] = "changed"]
      /\ UNCHANGED <<load, status, obj, nextId, pages, numPages, disk, log, cur, snap, todo, committed,
                     crashes, shutdowns>>
  BY DEF DropTable, MayCall, Goto
<1>3. /\ DOMAIN tables' \subseteq DOMAIN tables /\ \A k \in DOMAIN tables' : tables'[k] = tables[k]
      /\ tables' = [k \in DOMAIN tables' |-> tables'[k]]
  BY <1>2 DEF Without
<1>4. pc'[t] = "changed" /\ \A u \in Threads \ {t} : pc'[u] = pc[u]
  BY <1>1, <1>2 DEF Types
<1>5. Types'
  <2>1. pc' \in [Threads -> {"idle", "checked", "allocated", "resolved", "changed", "snapshot"}]
    BY <1>1, <1>2 DEF Types
  <2> QED BY <1>1, <1>2, <1>3, <2>1 DEF Types, ImageTypes, IsImage, ImageOK, MetaType
<1>6. Trees' /\ Grows(obj, pages, obj', pages')
  BY <1>1, <1>2, TreesKept
<1>7. MapOK'
  BY <1>1, <1>2, <1>3 DEF MapOK
<1>8. Calls'
  <2>1. \A u \in Threads \ {t} : pc[u] = "allocated" => Allocated(u)'
    BY <1>1, <1>2 DEF Calls, Allocated
  <2> QED BY <1>1, <1>2, <1>4, <2>1, CallsKept
<1>9. \A u \in Threads : SnapOK(u)'
  <2>1. \A u \in Threads : pc[u] = "snapshot" => pc'[u] = "snapshot"
    BY <1>2, <1>4
  <2> QED BY <1>2, <1>6, <2>1, SnapsKept DEF CatalogInv
<1>10. ImagesOK'
  BY <1>2, <1>6, ImagesKept DEF CatalogInv
<1>11. GateOK'
  BY <1>2, GateChanged
<1> QED BY <1>2, <1>5, <1>6, <1>7, <1>8, <1>9, <1>10, <1>11 DEF CatalogInv, Down

\* add_column, rename_column, drop_column and the index changes.
LEMMA AlterStep ==
    ASSUME CatalogInv, NEW t \in Threads, Alter(t), UNCHANGED load
    PROVE  CatalogInv'
<1>1. Types /\ Trees /\ MapOK /\ Calls
  BY DEF CatalogInv
<1>2. PICK a : a = cur[t].id
  OBVIOUS
<1>3. /\ pc[t] = "resolved" /\ status = "up" /\ obj[a].schema < load.alters
      /\ obj' = [obj EXCEPT ![a].schema = @ + 1] /\ pc' = [pc EXCEPT ![t] = "changed"]
      /\ UNCHANGED <<load, status, tables, nextId, pages, numPages, disk, log, cur, snap, todo, committed,
                     crashes, shutdowns>>
  BY <1>2 DEF Alter, Resolved, Meta, Goto
<1>4. a \in DOMAIN obj
  BY <1>1, <1>2, <1>3 DEF Calls
<1>5. obj[a] \in MetaType /\ load.alters \in Nat
  BY <1>1, <1>4, WorkloadAssumption DEF Types
<1>6. /\ DOMAIN obj' = DOMAIN obj /\ obj'[a] = [obj[a] EXCEPT !.schema = @ + 1]
      /\ \A i \in DOMAIN obj \ {a} : obj'[i] = obj[i]
      /\ obj' = [i \in DOMAIN obj' |-> obj'[i]]
  BY <1>1, <1>3, <1>4 DEF Types
<1>7. /\ obj'[a] \in MetaType /\ obj'[a].id = obj[a].id /\ obj'[a].root = obj[a].root
      /\ obj'[a].count = obj[a].count /\ obj'[a].next = obj[a].next
  BY <1>3, <1>5, <1>6 DEF MetaType
<1>8. pc'[t] = "changed" /\ \A u \in Threads \ {t} : pc'[u] = pc[u]
  BY <1>1, <1>3 DEF Types
<1>9. Types'
  <2>1. pc' \in [Threads -> {"idle", "checked", "allocated", "resolved", "changed", "snapshot"}]
    BY <1>1, <1>3 DEF Types
  <2>2. MetaType' = MetaType
    BY <1>3 DEF MetaType
  <2>3. \A i \in DOMAIN obj' : obj'[i] \in MetaType
    BY <1>1, <1>6, <1>7 DEF Types
  <2>4. ImageTypes'
    BY <1>1, <1>3, ImageTypesKept DEF Types
  <2> QED BY <1>1, <1>3, <1>6, <2>1, <2>2, <2>3, <2>4 DEF Types
<1>10. /\ \A i \in DOMAIN obj : /\ obj'[i].id = obj[i].id /\ obj'[i].root = obj[i].root
                                /\ obj'[i].count = obj[i].count /\ obj'[i].next = obj[i].next
  BY <1>6, <1>7
<1>11. Trees'
  <2>1. ObjRoots' = ObjRoots
    BY <1>6, <1>10 DEF ObjRoots
  <2> QED BY <1>1, <1>3, <1>6, <1>10, <2>1 DEF Trees, Exact
<1>12. Grows(obj, pages, obj', pages')
  BY <1>3, <1>6, <1>10 DEF Grows
<1>13. MapOK'
  BY <1>1, <1>3, <1>6 DEF MapOK
<1>14. Calls'
  <2>1. ASSUME NEW u \in Threads \ {t}, pc[u] = "allocated" PROVE Allocated(u)'
    <3>1. Allocated(u)
      BY <1>1, <2>1 DEF Calls
    <3> QED BY <1>3, <1>6, <1>10, <3>1 DEF Allocated
  <2> QED BY <1>1, <1>3, <1>6, <1>8, <2>1, CallsKept
<1>15. \A u \in Threads : SnapOK(u)'
  <2>1. \A u \in Threads : pc[u] = "snapshot" => pc'[u] = "snapshot"
    BY <1>3, <1>8
  <2> QED BY <1>3, <1>12, <2>1, SnapsKept DEF CatalogInv
<1>16. ImagesOK'
  BY <1>3, <1>12, ImagesKept DEF CatalogInv
<1>17. GateOK'
  BY <1>3, GateChanged
<1> QED BY <1>3, <1>9, <1>11, <1>13, <1>14, <1>15, <1>16, <1>17 DEF CatalogInv, Down

-----------------------------------------------------------------------------
(* Row changes. *)

\* Table a gets the metadata m and the rows C; the other tables stay as they are.
RowWritten(a, m, C) ==
    /\ obj' = [obj EXCEPT ![a] = m] /\ m \in MetaType /\ m.id = a /\ m.schema = obj[a].schema
    /\ pages' = [p \in Page |-> pages'[p]] /\ numPages' \in 0 .. MaxPages /\ numPages' >= numPages
    /\ Forest(MaxRow, DOMAIN obj, pages', Moved(DOMAIN obj, ObjRoots, a, m.root), numPages')
    /\ PagesFrom(pages, obj[a].root) \subseteq PagesFrom(pages', m.root)
    /\ \A p \in PagesFrom(pages', m.root) : p \in PagesFrom(pages, obj[a].root) \/ p >= numPages
    /\ \A i \in DOMAIN obj \ {a} : /\ PagesFrom(pages', obj[i].root) = PagesFrom(pages, obj[i].root)
                                   /\ RowsFrom(pages', obj[i].root) = RowsFrom(pages, obj[i].root)
    /\ \A p \in 1 .. numPages - 1 : p \notin PagesFrom(pages, obj[a].root) => pages'[p] = pages[p]
    /\ committed' = [committed EXCEPT ![a] = C] /\ C \subseteq RowIds
    /\ RowsFrom(pages', m.root) \subseteq C
    /\ crashes = 0 => /\ RowsFrom(pages', m.root) = C /\ m.count = Cardinality(C)
                      /\ \A x \in C : x < m.next

LEMMA RowStep ==
    ASSUME CatalogInv, NEW t \in Threads, pc[t] = "resolved", status = "up",
           NEW a, a = cur[t].id, NEW m, NEW C, RowWritten(a, m, C),
           pc' = [pc EXCEPT ![t] = "idle"], cur' = [cur EXCEPT ![t] = NoCall],
           UNCHANGED <<load, status, tables, nextId, disk, log, snap, todo, crashes, shutdowns>>
    PROVE  CatalogInv'
<1>1. Types /\ Trees /\ MapOK /\ Calls
  BY DEF CatalogInv
<1>2. a \in DOMAIN obj /\ a \in TableIds
  BY <1>1 DEF Calls, Types
<1>3. /\ DOMAIN obj' = DOMAIN obj /\ obj'[a] = m
      /\ \A i \in DOMAIN obj \ {a} : obj'[i] = obj[i]
      /\ obj' = [i \in DOMAIN obj' |-> obj'[i]]
  BY <1>1, <1>2 DEF Types, RowWritten
<1>4. m \in MetaType /\ m.id = a /\ m.schema = obj[a].schema
  BY DEF RowWritten
<1>5. pc'[t] = "idle" /\ cur'[t] = NoCall /\ \A u \in Threads \ {t} : pc'[u] = pc[u] /\ cur'[u] = cur[u]
  BY <1>1 DEF Types
<1>6. committed'[a] = C /\ \A i \in TableIds \ {a} : committed'[i] = committed[i]
  BY <1>1, <1>2 DEF Types, RowWritten
<1>7. Types'
  <2>1. pc' \in [Threads -> {"idle", "checked", "allocated", "resolved", "changed", "snapshot"}]
        /\ cur' \in [Threads -> [name : Names \cup {NoImage}, id : 0 .. MaxTables, root : Page]]
    BY <1>1, NoCallIs DEF Types
  <2>2. MetaType' = MetaType
    BY DEF MetaType
  <2>3. \A i \in DOMAIN obj' : obj'[i] \in MetaType
    BY <1>1, <1>3, <1>4 DEF Types
  <2>4. committed' \in [TableIds -> SUBSET RowIds]
    BY <1>1 DEF Types, RowWritten
  <2>5. pages' = [p \in Page |-> pages'[p]] /\ numPages' \in 0 .. MaxPages
    BY DEF RowWritten
  <2>6. ImageTypes'
    BY <1>1, ImageTypesKept DEF Types
  <2> QED BY <1>1, <1>3, <2>1, <2>2, <2>3, <2>4, <2>5, <2>6 DEF Types
<1>8. Trees'
  <2>1. ObjRoots' = Moved(DOMAIN obj, ObjRoots, a, m.root)
    BY <1>2, <1>3 DEF ObjRoots, Moved
  <2>2. Forest(MaxRow, DOMAIN obj', pages', ObjRoots', numPages')
    BY <1>3, <2>1 DEF RowWritten
  <2>3. \A i \in DOMAIN obj : i < nextId
    BY <1>1 DEF Trees
  <2>4. /\ obj'[a].id = a /\ RowsFrom(pages', obj'[a].root) \subseteq committed'[a]
        /\ crashes = 0 => /\ RowsFrom(pages', obj'[a].root) = committed'[a]
                          /\ obj'[a].count = Cardinality(committed'[a])
                          /\ \A x \in committed'[a] : x < obj'[a].next
    BY <1>3, <1>4, <1>6 DEF RowWritten
  <2>5. ASSUME NEW i \in DOMAIN obj \ {a}
        PROVE  /\ obj'[i].id = i /\ RowsFrom(pages', obj'[i].root) \subseteq committed'[i]
               /\ crashes = 0 => /\ RowsFrom(pages', obj'[i].root) = committed'[i]
                                 /\ obj'[i].count = Cardinality(committed'[i])
                                 /\ \A x \in committed'[i] : x < obj'[i].next
    <3>1. obj'[i] = obj[i] /\ committed'[i] = committed[i] /\ RowsFrom(pages', obj[i].root) = RowsFrom(pages, obj[i].root)
      BY <1>1, <1>3, <1>6 DEF Types, RowWritten
    <3> QED BY <1>1, <3>1 DEF Trees, Exact
  <2> QED BY <1>3, <2>2, <2>3, <2>4, <2>5 DEF Trees, Exact
<1>9. Grows(obj, pages, obj', pages')
  BY <1>2, <1>3 DEF Grows, RowWritten
<1>10. MapOK'
  BY <1>1, <1>3 DEF MapOK
<1>11. Calls'
  <2>1. ASSUME NEW u \in Threads \ {t}, pc[u] = "allocated" PROVE Allocated(u)'
    <3>1. Allocated(u) /\ cur'[u] = cur[u]
      BY <1>1, <1>5, <2>1 DEF Calls
    <3>2. cur[u].root \in 1 .. numPages - 1 /\ cur[u].root \notin PagesFrom(pages, obj[a].root)
      BY <1>2, <3>1 DEF Allocated
    <3>3. pages'[cur[u].root] = pages[cur[u].root]
      BY <3>2 DEF RowWritten
    <3>4. ~(cur[u].root >= numPages)
      BY <1>1, <3>2, BoundsAssumption DEF Types
    <3>5. cur[u].root \notin PagesFrom(pages', obj'[a].root)
      BY <1>3, <3>2, <3>4 DEF RowWritten
    <3>6. \A i \in DOMAIN obj : cur[u].root \notin PagesFrom(pages', obj'[i].root)
      BY <1>3, <3>1, <3>5 DEF RowWritten, Allocated
    <3>7. numPages' \in Nat /\ numPages' >= numPages
      BY BoundsAssumption DEF RowWritten
    <3> QED BY <1>1, <1>3, <3>1, <3>3, <3>6, <3>7, AllocatedKept
  <2> QED BY <1>1, <1>3, <1>5, <2>1, CallsKept
<1>12. \A u \in Threads : SnapOK(u)'
  <2>1. \A u \in Threads : pc[u] = "snapshot" => pc'[u] = "snapshot"
    BY <1>5
  <2> QED BY <1>9, <2>1, SnapsKept DEF CatalogInv
<1>13. ImagesOK'
  BY <1>9, ImagesKept DEF CatalogInv
<1>14. GateOK'
  <2>1. \A n \in DOMAIN tables : obj'[tables[n]].id = obj[tables[n]].id
                                 /\ obj'[tables[n]].schema = obj[tables[n]].schema
    BY <1>1, <1>2, <1>3, <1>4 DEF MapOK, Trees
  <2> QED BY <2>1, GateKept DEF Changing
<1> QED BY <1>7, <1>8, <1>10, <1>11, <1>12, <1>13, <1>14 DEF CatalogInv, Down

LEMMA RowIdsFinite ==
    ASSUME NEW S, S \subseteq RowIds
    PROVE  IsFiniteSet(S) /\ Cardinality(S) \in Nat /\ Cardinality(S) <= MaxRow
<1>1. IsFiniteSet(RowIds) /\ Cardinality(RowIds) = MaxRow
  BY BoundsAssumption, FS_Interval DEF RowIds
<1>2. IsFiniteSet(S) /\ Cardinality(S) <= Cardinality(RowIds)
  BY <1>1, FS_Subset
<1> QED BY <1>1, <1>2, FS_CardinalityType

LEMMA OverIsOver == ASSUME NEW w, NEW v PROVE IsOver(Over(w, v), w, v)
BY DEF Over, IsOver

\* A new row goes into the tree, the count and next_rowid follow.
LEMMA AddWrites ==
    ASSUME CatalogInv, NEW t \in Threads, pc[t] = "resolved", NEW a, a = cur[t].id,
           NEW x \in RowIds, x \notin RowsFrom(pages, obj[a].root),
           NEW nxt \in 1 .. MaxRow + 1, nxt > x, nxt >= obj[a].next, Add(t, x, nxt)
    PROVE  \E m, C : RowWritten(a, m, C)
<1>1. Types /\ Trees /\ Calls
  BY DEF CatalogInv
<1>2. a \in DOMAIN obj /\ a \in TableIds
  BY <1>1 DEF Calls, Types
<1> DEFINE w == TreeInsert(pages, obj[a].root, x, numPages)
           m == [obj[a] EXCEPT !.root = w.root, !.count = (obj[a].count + 1) % CountMod, !.next = nxt]
           C == committed[a] \cup {x}
           I == DOMAIN obj
           R == ObjRoots
           q == w.root
           n2 == numPages + w.allocated
<1>3. /\ n2 <= MaxPages /\ pages' = Over(w.writes, pages) /\ numPages' = n2
      /\ obj' = [obj EXCEPT ![a] = m] /\ committed' = [committed EXCEPT ![a] = C]
  <2>1. n2 <= MaxPages /\ pages' = Over(w.writes, pages) /\ numPages' = n2
    BY DEF Add, Meta
  <2>2. obj' = [obj EXCEPT ![a] = m]
    BY DEF Add, Meta
  <2>3. committed' = [committed EXCEPT ![a] = @ \cup {x}]
    BY DEF Add
  <2> QED BY <2>1, <2>2, <2>3
<1>4. Forest(MaxRow, I, pages, R, numPages) /\ R[a] = obj[a].root /\ a \in I
  BY <1>1, <1>2 DEF Trees, ObjRoots
<1>5. MaxRow \in Nat /\ MaxPages \in Nat /\ numPages \in Nat /\ x \in 1 .. MaxRow
  BY <1>1, BoundsAssumption DEF Types, RowIds
<1>6. numPages > 0
  <2>1. R[a] \in PagesFrom(pages, R[a]) /\ PagesFrom(pages, R[a]) \subseteq 1 .. numPages - 1
    BY <1>4 DEF Forest, PagesFrom
  <2> QED BY <1>5, <2>1
<1>7. IsOver(pages', w.writes, pages)
  <2> HIDE DEF w
  <2> QED BY <1>3, OverIsOver
<1>8. ForestInserted(MaxRow, I, pages, R, numPages, a, x, pages')
  <2>1. IsOver(pages', TreeInsert(pages, R[a], x, numPages).writes, pages)
    BY <1>4, <1>7
  <2> HIDE DEF R, I
  <2> QED BY <1>4, <1>5, <1>6, <2>1, ForestInsert
<1>9. /\ w.allocated \in Nat /\ q \in Nat
      /\ Forest(MaxRow, I, pages', Moved(I, R, a, q), n2)
      /\ RowsFrom(pages', q) = RowsFrom(pages, obj[a].root) \cup {x}
      /\ PagesFrom(pages', q) = PagesFrom(pages, obj[a].root) \cup (numPages .. n2 - 1)
      /\ DOMAIN w.writes \subseteq PagesFrom(pages', q)
      /\ \A b \in I \ {a} : /\ RowsFrom(pages', R[b]) = RowsFrom(pages, R[b])
                            /\ PagesFrom(pages', R[b]) = PagesFrom(pages, R[b])
  <2>1. /\ w.allocated \in Nat /\ q \in Nat
        /\ Forest(MaxRow, I, pages', Moved(I, R, a, q), n2)
        /\ RowsFrom(pages', q) = RowsFrom(pages, R[a]) \cup {x}
        /\ PagesFrom(pages', q) = PagesFrom(pages, R[a]) \cup (numPages .. numPages + w.allocated - 1)
        /\ DOMAIN w.writes \subseteq PagesFrom(pages', q)
        /\ \A b \in I \ {a} : /\ RowsFrom(pages', R[b]) = RowsFrom(pages, R[b])
                              /\ PagesFrom(pages', R[b]) = PagesFrom(pages, R[b])
    BY <1>4, <1>8 DEF ForestInserted
  <2> HIDE DEF w
  <2>2. numPages .. numPages + w.allocated - 1 = numPages .. n2 - 1
    BY <2>1, <1>5
  <2> HIDE DEF q, n2, I, R
  <2> QED BY <1>4, <2>1, <2>2
<1>10. \A b \in I : R[b] = obj[b].root
  BY DEF ObjRoots
<1>11. obj[a] \in MetaType
  BY <1>1, <1>2 DEF Types
<1> HIDE DEF w, I, R
<1>12. PagesFrom(pages', q) \subseteq 1 .. n2 - 1 /\ q \in PagesFrom(pages', q)
  <2>1. Moved(I, R, a, q)[a] = q
    BY <1>4 DEF Moved
  <2>2. TreeOK(MaxRow, pages', q) /\ PagesFrom(pages', q) \subseteq 1 .. n2 - 1
    BY <1>4, <1>9, <2>1 DEF Forest
  <2> QED BY <2>2, <1>5, TreePages
<1>13. n2 \in Nat /\ n2 >= numPages /\ n2 \in 0 .. MaxPages /\ q \in Page
  <2>1. n2 \in Nat /\ n2 >= numPages /\ n2 \in 0 .. MaxPages
    BY <1>3, <1>5, <1>9
  <2> QED BY <1>3, <1>5, <1>12, <2>1 DEF Page
<1>14. pages' = [p \in Page |-> pages'[p]]
  <2>1. DOMAIN w.writes \subseteq Page
    BY <1>3, <1>5, <1>9, <1>12, <1>13 DEF Page
  <2>2. DOMAIN pages = Page
    BY <1>1 DEF Types
  <2> QED BY <1>3, <2>1, <2>2 DEF Over
<1>15. CountMod \in Nat \ {0} /\ obj[a].count \in 0 .. CountMod - 1
  BY <1>5, <1>11 DEF MetaType, CountMod
<1>16. /\ m \in MetaType /\ m.id = a /\ m.schema = obj[a].schema /\ m.root = q /\ m.next = nxt
       /\ m.count = (obj[a].count + 1) % CountMod
  <2>1. (obj[a].count + 1) % CountMod \in 0 .. CountMod - 1
    BY <1>15, CountUp
  <2>2. PICK c \in 0 .. CountMod - 1 : c = (obj[a].count + 1) % CountMod
    BY <2>1
  <2>3. m = [obj[a] EXCEPT !.root = q, !.count = c, !.next = nxt]
    BY <2>2
  <2>4. obj[a].id = a
    BY <1>1, <1>2 DEF Trees
  <2> HIDE DEF m
  <2> QED BY <1>11, <1>13, <2>2, <2>3, <2>4 DEF MetaType
<1>17. C \subseteq RowIds /\ RowsFrom(pages', q) \subseteq C
  BY <1>1, <1>2, <1>9 DEF Types, Trees
<1>18. ASSUME crashes = 0 PROVE RowsFrom(pages', q) = C /\ m.count = Cardinality(C) /\ \A y \in C : y < nxt
  <2>1. /\ RowsFrom(pages, obj[a].root) = committed[a] /\ obj[a].count = Cardinality(committed[a])
        /\ \A y \in committed[a] : y < obj[a].next
    BY <1>1, <1>2, <1>18 DEF Trees, Exact
  <2>2. committed[a] \subseteq RowIds
    BY <1>1, <1>2 DEF Types
  <2>3. IsFiniteSet(committed[a]) /\ Cardinality(committed[a]) \in Nat /\ Cardinality(committed[a]) <= MaxRow
    BY <2>2, RowIdsFinite
  <2>4. Cardinality(C) = Cardinality(committed[a]) + 1
    BY <2>1, <2>3, FS_AddElement
  <2>5. obj[a].count + 1 < CountMod
    BY <1>5, <2>1, <2>3 DEF CountMod
  <2>6. (obj[a].count + 1) % CountMod = obj[a].count + 1
    BY <1>15, <2>5, CountUp
  <2>7. \A y \in C : y < nxt
    <3>1. obj[a].next \in Nat /\ \A y \in C : y \in Nat
      BY <1>5, <1>11, <1>17 DEF MetaType, RowIds
    <3> QED BY <2>1, <3>1, <1>5
  <2> QED BY <1>9, <1>16, <2>1, <2>4, <2>6, <2>7
<1> HIDE DEF m, C, q, n2
<1>19. \A p \in PagesFrom(pages', q) : p \in PagesFrom(pages, obj[a].root) \/ p >= numPages
  <2>1. \A p \in numPages .. n2 - 1 : p >= numPages
    BY <1>5, <1>13
  <2> QED BY <1>9, <2>1
<1>20. \A p \in 1 .. numPages - 1 : p \notin PagesFrom(pages, obj[a].root) => pages'[p] = pages[p]
  <2> SUFFICES ASSUME NEW p \in 1 .. numPages - 1, p \notin PagesFrom(pages, obj[a].root) PROVE pages'[p] = pages[p]
    OBVIOUS
  <2>1. ~(p >= numPages) /\ p \notin PagesFrom(pages', q)
    BY <1>5, <1>19
  <2>2. p \in DOMAIN pages
    BY <1>1, <1>3, <1>5, <1>13 DEF Types, Page
  <2> QED BY <1>7, <1>9, <2>1, <2>2 DEF IsOver
<1>21. \A i \in DOMAIN obj \ {a} : /\ PagesFrom(pages', obj[i].root) = PagesFrom(pages, obj[i].root)
                                   /\ RowsFrom(pages', obj[i].root) = RowsFrom(pages, obj[i].root)
  BY <1>9, <1>10 DEF I
<1>22. Forest(MaxRow, DOMAIN obj, pages', Moved(DOMAIN obj, ObjRoots, a, m.root), numPages')
  BY <1>3, <1>9, <1>16 DEF I, R
<1>23. PagesFrom(pages, obj[a].root) \subseteq PagesFrom(pages', q)
  BY <1>9
<1>24. RowWritten(a, m, C)
  BY <1>3, <1>13, <1>14, <1>16, <1>17, <1>18, <1>19, <1>20, <1>21, <1>22, <1>23 DEF RowWritten
<1> QED BY <1>24

LEMMA InsertStep ==
    ASSUME CatalogInv, NEW t \in Threads, Insert(t), UNCHANGED load
    PROVE  CatalogInv'
<1>1. Types /\ Trees /\ Calls
  BY DEF CatalogInv
<1>2. PICK a : a = cur[t].id
  OBVIOUS
<1>3. PICK x : x = obj[a].next
  OBVIOUS
<1>4. /\ pc[t] = "resolved" /\ status = "up" /\ x <= MaxRow
      /\ pc' = [pc EXCEPT ![t] = "idle"] /\ cur' = [cur EXCEPT ![t] = NoCall]
      /\ UNCHANGED <<load, status, tables, nextId, disk, log, snap, todo, crashes, shutdowns>>
  BY <1>2, <1>3 DEF Insert, Resolved, Return, Goto, Meta
<1>5. a \in DOMAIN obj /\ a \in TableIds
  BY <1>1, <1>2, <1>4 DEF Calls, Types
<1>6. obj[a] \in MetaType
  BY <1>1, <1>5 DEF Types
<1>7. x \in RowIds /\ x + 1 \in 1 .. MaxRow + 1 /\ x + 1 > x /\ x + 1 >= obj[a].next
  BY <1>3, <1>4, <1>6, BoundsAssumption DEF MetaType, RowIds
<1>8. CASE x \notin RowsFrom(pages, obj[a].root)
  <2>1. Add(t, x, x + 1)
    BY <1>2, <1>3, <1>8 DEF Insert, Meta
  <2>2. PICK m, C : RowWritten(a, m, C)
    BY <1>2, <1>4, <1>7, <1>8, <2>1, AddWrites
  <2> QED BY <1>2, <1>4, <2>2, RowStep
<1>9. CASE x \in RowsFrom(pages, obj[a].root)
  <2> DEFINE m == [obj[a] EXCEPT !.next = x + 1]
  <2>1. obj' = [obj EXCEPT ![a].next = @ + 1] /\ UNCHANGED <<pages, numPages, committed>>
    BY <1>2, <1>3, <1>9 DEF Insert, Meta
  <2>2. obj' = [obj EXCEPT ![a] = m]
    BY <1>1, <1>3, <1>5, <2>1 DEF Types
  <2>3. /\ m \in MetaType /\ m.id = a /\ m.schema = obj[a].schema /\ m.root = obj[a].root
        /\ m.count = obj[a].count /\ m.next = x + 1
    BY <1>1, <1>5, <1>6, <1>7 DEF MetaType, Trees
  <2> HIDE DEF m
  <2>4. Moved(DOMAIN obj, ObjRoots, a, m.root) = ObjRoots
    BY <2>3 DEF Moved, ObjRoots
  <2>5. committed' = [committed EXCEPT ![a] = committed[a]] /\ committed[a] \subseteq RowIds
    BY <1>1, <1>5, <2>1 DEF Types
  <2>6. crashes = 0 => /\ RowsFrom(pages, obj[a].root) = committed[a] /\ obj[a].count = Cardinality(committed[a])
                       /\ \A y \in committed[a] : y < x + 1
    <3>1. x \in Nat /\ \A y \in committed[a] : y \in Nat
      BY <1>7, <2>5, BoundsAssumption DEF RowIds
    <3>2. crashes = 0 => Exact(a)
      BY <1>1, <1>5 DEF Trees
    <3> QED BY <1>3, <3>1, <3>2 DEF Exact
  <2>7. /\ pages' = [p \in Page |-> pages'[p]] /\ numPages' \in 0 .. MaxPages /\ numPages' >= numPages
    BY <1>1, <2>1, BoundsAssumption DEF Types
  <2>8. RowsFrom(pages, obj[a].root) \subseteq committed[a] /\ Forest(MaxRow, DOMAIN obj, pages, ObjRoots, numPages)
    BY <1>1, <1>5 DEF Trees
  <2>9. RowWritten(a, m, committed[a])
    BY <2>1, <2>2, <2>3, <2>4, <2>5, <2>6, <2>7, <2>8 DEF RowWritten
  <2>10. PICK C : C = committed[a]
    OBVIOUS
  <2>11. PICK k : k = m
    OBVIOUS
  <2>12. RowWritten(a, k, C)
    BY <2>9, <2>10, <2>11
  <2> QED BY <1>2, <1>4, <2>12, RowStep
<1> QED BY <1>8, <1>9

LEMMA InsertWithIdStep ==
    ASSUME CatalogInv, NEW t \in Threads, NEW x \in RowIds, InsertWithId(t, x), UNCHANGED load
    PROVE  CatalogInv'
<1>1. Types /\ Trees /\ Calls
  BY DEF CatalogInv
<1>2. PICK a : a = cur[t].id
  OBVIOUS
<1>3. PICK nxt : nxt = IF x >= obj[a].next THEN x + 1 ELSE obj[a].next
  OBVIOUS
<1>4. /\ pc[t] = "resolved" /\ status = "up" /\ x \notin RowsFrom(pages, obj[a].root) /\ Add(t, x, nxt)
      /\ pc' = [pc EXCEPT ![t] = "idle"] /\ cur' = [cur EXCEPT ![t] = NoCall]
      /\ UNCHANGED <<load, status, tables, nextId, disk, log, snap, todo, crashes, shutdowns>>
  BY <1>2, <1>3 DEF InsertWithId, Resolved, Return, Goto, Meta
<1>5. obj[a] \in MetaType
  BY <1>1, <1>2, <1>4 DEF Calls, Types
<1>6. nxt \in 1 .. MaxRow + 1 /\ nxt > x /\ nxt >= obj[a].next
  BY <1>3, <1>5, BoundsAssumption DEF MetaType, RowIds
<1>7. PICK m, C : RowWritten(a, m, C)
  BY <1>2, <1>4, <1>6, AddWrites
<1> QED BY <1>2, <1>4, <1>7, RowStep

LEMMA DeleteStep ==
    ASSUME CatalogInv, NEW t \in Threads, NEW x \in RowIds, Delete(t, x), UNCHANGED load
    PROVE  CatalogInv'
<1>1. Types /\ Trees /\ Calls
  BY DEF CatalogInv
<1>2. PICK a : a = cur[t].id
  OBVIOUS
<1> DEFINE w == TreeDelete(pages, obj[a].root, x)
           I == DOMAIN obj
           R == ObjRoots
<1>3. /\ pc[t] = "resolved" /\ status = "up" /\ x \in RowsFrom(pages, obj[a].root)
      /\ pages' = Over(w.writes, pages) /\ numPages' = numPages
      /\ obj' = [obj EXCEPT ![a].count = (obj[a].count + CountMod - 1) % CountMod]
      /\ committed' = [committed EXCEPT ![a] = @ \ {x}]
      /\ pc' = [pc EXCEPT ![t] = "idle"] /\ cur' = [cur EXCEPT ![t] = NoCall]
      /\ UNCHANGED <<load, status, tables, nextId, disk, log, snap, todo, crashes, shutdowns>>
  BY <1>2 DEF Delete, Resolved, Return, Goto, Meta
<1>4. a \in DOMAIN obj /\ a \in TableIds
  BY <1>1, <1>2, <1>3 DEF Calls, Types
<1>5. obj[a] \in MetaType
  BY <1>1, <1>4 DEF Types
<1>6. Forest(MaxRow, I, pages, R, numPages) /\ R[a] = obj[a].root /\ a \in I
  BY <1>1, <1>4 DEF Trees, ObjRoots
<1>7. MaxRow \in Nat /\ MaxPages \in Nat /\ numPages \in Nat /\ numPages <= MaxPages /\ x \in 1 .. MaxRow
  BY <1>1, BoundsAssumption DEF Types, RowIds
<1>8. IsOver(pages', w.writes, pages)
  <2> HIDE DEF w
  <2> QED BY <1>3, OverIsOver
<1>9. ForestDeleted(MaxRow, I, pages, R, numPages, a, x, pages')
  <2>1. IsOver(pages', TreeDelete(pages, R[a], x).writes, pages)
    BY <1>6, <1>8
  <2>2. TreeOK(MaxRow, pages, R[a])
    BY <1>6 DEF Forest
  <2>3. x \in pages[LeafOf(pages, R[a], x)].rows
    BY <1>3, <1>6, <1>7, <2>2, LeafFound
  <2> HIDE DEF R, I
  <2> QED BY <1>6, <1>7, <2>1, <2>3, ForestDelete
<1>10. /\ Forest(MaxRow, I, pages', R, numPages)
       /\ RowsFrom(pages', R[a]) = RowsFrom(pages, R[a]) \ {x}
       /\ \A b \in I : PagesFrom(pages', R[b]) = PagesFrom(pages, R[b])
       /\ \A b \in I \ {a} : RowsFrom(pages', R[b]) = RowsFrom(pages, R[b])
       /\ DOMAIN w.writes \subseteq PagesFrom(pages, R[a])
  BY <1>6, <1>9 DEF ForestDeleted
<1>11. \A b \in I : R[b] = obj[b].root
  BY DEF ObjRoots
<1> HIDE DEF w
<1>12. CountMod \in Nat \ {0} /\ obj[a].count \in 0 .. CountMod - 1
  BY <1>5, <1>7 DEF MetaType, CountMod
<1>a. PICK c : c = (obj[a].count + CountMod - 1) % CountMod
  OBVIOUS
<1>13. c \in 0 .. CountMod - 1 /\ (obj[a].count > 0 => c = obj[a].count - 1)
  BY <1>12, <1>a, CountDown
<1> DEFINE m == [obj[a] EXCEPT !.count = c]
           C == committed[a] \ {x}
<1>14. obj' = [obj EXCEPT ![a] = m] /\ committed' = [committed EXCEPT ![a] = C]
  <2>1. committed' = [committed EXCEPT ![a] = C]
    BY <1>3
  <2>2. obj' = [obj EXCEPT ![a].count = c]
    BY <1>3, <1>a
  <2>3. obj' = [obj EXCEPT ![a] = m]
    BY <1>1, <1>4, <2>2 DEF Types
  <2> QED BY <2>1, <2>3
<1>15. /\ m \in MetaType /\ m.id = a /\ m.schema = obj[a].schema /\ m.root = obj[a].root
       /\ m.count = c /\ m.next = obj[a].next
  BY <1>1, <1>4, <1>5, <1>13 DEF MetaType, Trees
<1>16. Moved(DOMAIN obj, ObjRoots, a, m.root) = ObjRoots
  BY <1>15 DEF Moved, ObjRoots
<1>17. pages' = [p \in Page |-> pages'[p]]
  <2>1. DOMAIN pages = Page
    BY <1>1 DEF Types
  <2>2. DOMAIN w.writes \subseteq Page
    BY <1>6, <1>7, <1>10 DEF Forest, Page
  <2> QED BY <1>3, <2>1, <2>2 DEF Over
<1>18. C \subseteq RowIds /\ RowsFrom(pages', obj[a].root) \subseteq C
  BY <1>1, <1>4, <1>6, <1>10 DEF Types, Trees
<1>19. ASSUME crashes = 0
       PROVE  RowsFrom(pages', obj[a].root) = C /\ c = Cardinality(C) /\ \A y \in C : y < obj[a].next
  <2>1. /\ RowsFrom(pages, obj[a].root) = committed[a] /\ obj[a].count = Cardinality(committed[a])
        /\ \A y \in committed[a] : y < obj[a].next
    BY <1>1, <1>4, <1>19 DEF Trees, Exact
  <2>2. committed[a] \subseteq RowIds
    BY <1>1, <1>4 DEF Types
  <2>3. IsFiniteSet(committed[a]) /\ Cardinality(committed[a]) \in Nat
    BY <2>2, RowIdsFinite
  <2>4. x \in committed[a] /\ Cardinality(C) = Cardinality(committed[a]) - 1
    <3>1. x \in committed[a]
      BY <1>3, <2>1
    <3>2. PICK S : S = committed[a]
      OBVIOUS
    <3>3. Cardinality(S \ {x}) = Cardinality(S) - 1
      BY <2>3, <3>1, <3>2, FS_RemoveElement
    <3> QED BY <3>1, <3>2, <3>3
  <2>5. Cardinality(C) \in Nat
    BY <1>18, RowIdsFinite
  <2>6. obj[a].count > 0
    BY <2>1, <2>3, <2>4, <2>5
  <2>7. c = Cardinality(C)
    BY <1>13, <2>1, <2>3, <2>4, <2>5, <2>6
  <2>8. RowsFrom(pages', obj[a].root) = C /\ \A y \in C : y < obj[a].next
    BY <1>6, <1>10, <2>1
  <2> QED BY <2>7, <2>8
<1>20. \A p \in 1 .. numPages - 1 : p \notin PagesFrom(pages, obj[a].root) => pages'[p] = pages[p]
  <2> SUFFICES ASSUME NEW p \in 1 .. numPages - 1, p \notin PagesFrom(pages, obj[a].root) PROVE pages'[p] = pages[p]
    OBVIOUS
  <2>1. p \in DOMAIN pages
    BY <1>1, <1>7 DEF Types, Page
  <2> QED BY <1>6, <1>8, <1>10, <2>1 DEF IsOver
<1> HIDE DEF m, C
<1>21. \A i \in DOMAIN obj \ {a} : /\ PagesFrom(pages', obj[i].root) = PagesFrom(pages, obj[i].root)
                                   /\ RowsFrom(pages', obj[i].root) = RowsFrom(pages, obj[i].root)
  BY <1>10, <1>11
<1>22. PagesFrom(pages', obj[a].root) = PagesFrom(pages, obj[a].root)
  BY <1>6, <1>10
<1>23. numPages' \in 0 .. MaxPages /\ numPages' >= numPages
  BY <1>3, <1>7
<1>24. RowWritten(a, m, C)
  BY <1>3, <1>10, <1>14, <1>15, <1>16, <1>17, <1>18, <1>19, <1>20, <1>21, <1>22, <1>23 DEF RowWritten
<1>25. PICK k, S : RowWritten(a, k, S)
  BY <1>24
<1> QED BY <1>2, <1>3, <1>25, RowStep

-----------------------------------------------------------------------------
(* Snapshots of the registry. *)

\* An image without tables.
LEMMA EmptyIs ==
    ASSUME NEW k \in 1 .. MaxTables + 1, NEW im, im = [next |-> k, metas |-> <<>>], NEW o, NEW v
    PROVE  IsImage(im) /\ IdsOf(im) /\ Known(im, o, v) /\ DOMAIN im.metas = {}
<1>1. im.metas = <<>> /\ im.next = k /\ DOMAIN im.metas = {}
  OBVIOUS
<1>2. im.metas = [n \in DOMAIN im.metas |-> im.metas[n]]
  BY <1>1
<1> QED BY <1>1, <1>2 DEF IsImage, ImageOK, IdsOf, Known

\* Images that satisfy IsImage before a step do so after it.
LEMMA SnapTypes ==
    ASSUME ImageTypes, load' = load, IsImage(disk'), log' = NoImage \/ IsImage(log'),
           DOMAIN snap' = Threads, \A t \in Threads : IsImage(snap'[t])
    PROVE  ImageTypes'
<1>1. MetaType' = MetaType
  BY DEF MetaType
<1> QED BY <1>1 DEF ImageTypes, IsImage, ImageOK

\* snapshot_table_metas begins.
LEMMA SnapBeginStep ==
    ASSUME CatalogInv, NEW t \in Threads, SnapBegin(t), UNCHANGED load
    PROVE  CatalogInv'
<1>1. Types /\ Trees /\ MapOK /\ Calls
  BY DEF CatalogInv
<1>2. PICK s : s = [next |-> nextId, metas |-> <<>>]
  OBVIOUS
<1>3. /\ pc[t] = "changed" /\ status = "up" /\ snap' = [snap EXCEPT ![t] = s]
      /\ todo' = [todo EXCEPT ![t] = DOMAIN tables] /\ pc' = [pc EXCEPT ![t] = "snapshot"]
      /\ UNCHANGED <<load, status, tables, obj, nextId, pages, numPages, disk, log, cur, committed,
                     crashes, shutdowns>>
  BY <1>2 DEF SnapBegin, Goto, mem
<1>4. nextId \in 1 .. MaxTables + 1
  BY <1>1 DEF Types
<1>5. IsImage(s) /\ IdsOf(s) /\ Known(s, obj, pages) /\ DOMAIN s.metas = {} /\ s.next = nextId
  BY <1>2, <1>4, EmptyIs
<1>6. /\ pc'[t] = "snapshot" /\ snap'[t] = s /\ todo'[t] = DOMAIN tables
      /\ \A u \in Threads \ {t} : pc'[u] = pc[u] /\ snap'[u] = snap[u] /\ todo'[u] = todo[u]
      /\ DOMAIN snap' = Threads
  BY <1>1, <1>3 DEF Types, ImageTypes
<1>7. Types'
  <2>1. ImageTypes'
    BY <1>1, <1>3, <1>5, <1>6, SnapTypes DEF Types, ImageTypes
  <2>2. /\ todo' = [u \in Threads |-> todo'[u]]
        /\ pc' \in [Threads -> {"idle", "checked", "allocated", "resolved", "changed", "snapshot"}]
    BY <1>1, <1>3 DEF Types
  <2>3. MetaType' = MetaType
    BY <1>3 DEF MetaType
  <2> QED BY <1>1, <1>3, <2>1, <2>2, <2>3 DEF Types
<1>8. Trees' /\ Grows(obj, pages, obj', pages')
  BY <1>1, <1>3, TreesKept
<1>9. MapOK'
  BY <1>1, <1>3 DEF MapOK
<1>10. Calls'
  <2>1. \A u \in Threads \ {t} : pc[u] = "allocated" => Allocated(u)'
    BY <1>1, <1>3 DEF Calls, Allocated
  <2> QED BY <1>1, <1>3, <1>6, <2>1, CallsKept
<1>11. ASSUME NEW u \in Threads PROVE SnapOK(u)'
  <2>1. CASE u # t
    <3>1. SnapOK(u)
      BY DEF CatalogInv
    <3>2. /\ snap'[u] = snap[u] /\ todo'[u] = todo[u] /\ pc'[u] = pc[u] /\ obj' = obj /\ pages' = pages
          /\ tables' = tables
      BY <1>3, <1>6, <2>1
    <3> QED BY <3>1, <3>2 DEF SnapOK
  <2>2. CASE u = t
    <3>1. \A n \in DOMAIN tables : tables[n] < nextId
      BY <1>1 DEF MapOK, Trees
    <3>2. /\ IdsOf(snap'[t]) /\ Known(snap'[t], obj', pages') /\ DOMAIN snap'[t].metas = {}
          /\ snap'[t].next = nextId /\ todo'[t] \subseteq DOMAIN tables' /\ pc'[t] = "snapshot"
      BY <1>3, <1>5, <1>6
    <3> QED BY <1>3, <2>2, <3>1, <3>2 DEF SnapOK
  <2> QED BY <2>1, <2>2
<1>12. ImagesOK'
  BY <1>3, <1>8, ImagesKept DEF CatalogInv
<1>13. GateOK'
  <2> SUFFICES ASSUME load.gated PROVE GateOK'
    BY <1>3 DEF GateOK
  <2>1. \A u \in Threads \ {t} : pc[u] = "idle" /\ pc'[u] = "idle"
    BY <1>3, <1>6, Alone DEF CatalogInv
  <2>2. DOMAIN snap'[t].metas = {} /\ DOMAIN tables' \ todo'[t] = {}
    BY <1>3, <1>5, <1>6
  <2> QED BY <1>6, <2>1, <2>2 DEF GateOK, Changing
<1> QED BY <1>3, <1>7, <1>8, <1>9, <1>10, <1>11, <1>12, <1>13 DEF CatalogInv, Down

\* It clones one table's metadata.
LEMMA SnapOneStep ==
    ASSUME CatalogInv, NEW t \in Threads, NEW n \in Names, SnapOne(t, n), UNCHANGED load
    PROVE  CatalogInv'
<1>1. Types /\ Trees /\ MapOK /\ Calls /\ SnapOK(t)
  BY DEF CatalogInv
<1>2. /\ pc[t] = "snapshot" /\ n \in todo[t] /\ status = "up"
      /\ snap' = [snap EXCEPT ![t].metas = With(@, n, obj[tables[n]])]
      /\ todo' = [todo EXCEPT ![t] = @ \ {n}]
      /\ UNCHANGED <<load, status, tables, obj, nextId, pages, numPages, disk, log, pc, cur, committed,
                     crashes, shutdowns>>
  BY DEF SnapOne, mem
<1>3. PICK s, d : s = snap'[t] /\ d = snap[t]
  OBVIOUS
<1>4. IsImage(d) /\ IdsOf(d) /\ Known(d, obj, pages)
  BY <1>1, <1>3 DEF Types, ImageTypes, SnapOK
<1>5. s.next = d.next /\ s.metas = With(d.metas, n, obj[tables[n]]) /\ s = [next |-> s.next, metas |-> s.metas]
  <2>1. d = [next |-> d.next, metas |-> d.metas] /\ DOMAIN snap = Threads
    BY <1>1, <1>4 DEF IsImage, Types, ImageTypes
  <2>2. s = [d EXCEPT !.metas = With(d.metas, n, obj[tables[n]])]
    BY <1>2, <1>3, <2>1
  <2> QED BY <2>1, <2>2
<1>6. /\ n \in DOMAIN tables /\ tables[n] \in DOMAIN obj /\ obj[tables[n]].id = tables[n] /\ tables[n] < d.next
      /\ \A k \in DOMAIN d.metas : k \in DOMAIN tables /\ d.metas[k].id = tables[k]
      /\ \A k \in DOMAIN tables : tables[k] < d.next
  BY <1>1, <1>2, <1>3 DEF SnapOK, MapOK, Trees
<1>7. /\ DOMAIN s.metas = DOMAIN d.metas \cup {n} /\ s.metas[n] = obj[tables[n]]
      /\ \A k \in DOMAIN d.metas : k # n => s.metas[k] = d.metas[k]
      /\ s.metas = [k \in DOMAIN s.metas |-> s.metas[k]]
  <2>1. IsWith(s.metas, d.metas, n, obj[tables[n]])
    BY <1>5, WithIs
  <2> QED BY <2>1 DEF IsWith
<1>8. \A k \in DOMAIN s.metas : k \in DOMAIN tables /\ s.metas[k].id = tables[k]
  BY <1>6, <1>7
<1>9. IsImage(s)
  <2>1. obj[tables[n]] \in MetaType /\ n \in Names
    BY <1>1, <1>6 DEF Types
  <2> QED BY <1>4, <1>5, <1>7, <2>1 DEF IsImage, ImageOK
<1>10. IdsOf(s)
  <2>1. \A k \in DOMAIN tables : tables[k] < s.next
    BY <1>5, <1>6
  <2>2. \A k \in DOMAIN s.metas : s.metas[k].id < s.next
    BY <1>8, <2>1
  <2>3. \A k, l \in DOMAIN tables : tables[k] = tables[l] => k = l
    BY <1>1 DEF MapOK
  <2>4. \A k, l \in DOMAIN s.metas : s.metas[k].id = s.metas[l].id => k = l
    BY <1>8, <2>3
  <2> QED BY <2>2, <2>4 DEF IdsOf
<1>11. Known(s, obj, pages)
  <2>1. \A k \in DOMAIN s.metas : k # n => k \in DOMAIN d.metas /\ s.metas[k] = d.metas[k]
    BY <1>7
  <2>2. obj[tables[n]].root \in PagesFrom(pages, obj[tables[n]].root)
    BY DEF PagesFrom
  <2> QED BY <1>4, <1>6, <1>7, <2>1, <2>2 DEF Known
<1>12. /\ DOMAIN snap' = Threads /\ todo'[t] = todo[t] \ {n}
       /\ \A u \in Threads \ {t} : snap'[u] = snap[u] /\ todo'[u] = todo[u]
  BY <1>1, <1>2 DEF Types, ImageTypes
<1>13. Types'
  <2>1. \A u \in Threads : IsImage(snap'[u])
    BY <1>1, <1>3, <1>9, <1>12 DEF Types, ImageTypes
  <2>2. ImageTypes'
    BY <1>1, <1>2, <1>12, <2>1, SnapTypes DEF Types, ImageTypes
  <2>3. todo' = [u \in Threads |-> todo'[u]]
    BY <1>1, <1>2 DEF Types
  <2>4. MetaType' = MetaType
    BY <1>2 DEF MetaType
  <2> QED BY <1>1, <1>2, <2>2, <2>3, <2>4 DEF Types
<1>14. Trees' /\ Grows(obj, pages, obj', pages')
  BY <1>1, <1>2, TreesKept
<1>15. MapOK'
  BY <1>1, <1>2 DEF MapOK
<1>16. Calls'
  <2>1. \A u \in Threads \ {t} : pc[u] = "allocated" => Allocated(u)'
    BY <1>1, <1>2 DEF Calls, Allocated
  <2> QED BY <1>1, <1>2, <2>1, CallsKept
<1>17. ASSUME NEW u \in Threads PROVE SnapOK(u)'
  <2>1. CASE u # t
    <3>1. SnapOK(u)
      BY DEF CatalogInv
    <3>2. /\ snap'[u] = snap[u] /\ todo'[u] = todo[u] /\ pc'[u] = pc[u] /\ obj' = obj /\ pages' = pages
          /\ tables' = tables
      BY <1>2, <1>12, <2>1
    <3> QED BY <3>1, <3>2 DEF SnapOK
  <2>2. CASE u = t
    <3>1. IdsOf(snap'[t]) /\ Known(snap'[t], obj', pages') /\ pc'[t] = "snapshot"
      BY <1>2, <1>3, <1>10, <1>11
    <3>2. todo'[t] \subseteq DOMAIN tables'
      BY <1>1, <1>2, <1>12 DEF SnapOK
    <3>3. /\ \A k \in DOMAIN snap'[t].metas : k \in DOMAIN tables' /\ snap'[t].metas[k].id = tables'[k]
          /\ \A k \in DOMAIN tables' : tables'[k] < snap'[t].next
      <4>1. snap'[t] = s /\ tables' = tables
        BY <1>2, <1>3
      <4>2. \A k \in DOMAIN tables : tables[k] < s.next
        BY <1>5, <1>6
      <4> QED BY <1>8, <4>1, <4>2
    <3> QED BY <2>2, <3>1, <3>2, <3>3 DEF SnapOK
  <2> QED BY <2>1, <2>2
<1>18. ImagesOK'
  BY <1>2, <1>14, ImagesKept DEF CatalogInv
<1>19. GateOK'
  <2> SUFFICES ASSUME load.gated PROVE GateOK'
    BY <1>2 DEF GateOK
  <2>1. \A u \in Threads \ {t} : pc[u] = "idle" /\ pc'[u] = "idle"
    BY <1>2, Alone DEF CatalogInv
  <2>2. /\ DOMAIN d.metas = DOMAIN tables \ todo[t]
        /\ \A k \in DOMAIN d.metas : d.metas[k].id = obj[tables[k]].id /\ d.metas[k].schema = obj[tables[k]].schema
    BY <1>2, <1>3 DEF CatalogInv, GateOK
  <2>3. DOMAIN s.metas = DOMAIN tables \ todo'[t]
    BY <1>2, <1>6, <1>7, <1>12, <2>2
  <2>4. \A k \in DOMAIN s.metas : s.metas[k].id = obj[tables[k]].id /\ s.metas[k].schema = obj[tables[k]].schema
    BY <1>7, <2>2
  <2>5. /\ DOMAIN snap'[t].metas = DOMAIN tables' \ todo'[t]
        /\ \A k \in DOMAIN snap'[t].metas : /\ snap'[t].metas[k].id = obj'[tables'[k]].id
                                            /\ snap'[t].metas[k].schema = obj'[tables'[k]].schema
    BY <1>2, <1>3, <2>3, <2>4
  <2>6. pc'[t] = "snapshot"
    BY <1>2
  <2> QED BY <2>1, <2>5, <2>6 DEF GateOK, Changing
<1> QED BY <1>2, <1>13, <1>14, <1>15, <1>16, <1>17, <1>18, <1>19 DEF CatalogInv, Down

\* persist_registry: the clones become the image that a crash brings back.
LEMMA PersistRegistryStep ==
    ASSUME CatalogInv, NEW t \in Threads, PersistRegistry(t), UNCHANGED load
    PROVE  CatalogInv'
<1>1. Types /\ Trees /\ MapOK /\ Calls /\ SnapOK(t)
  BY DEF CatalogInv
<1>2. /\ pc[t] = "snapshot" /\ todo[t] = {} /\ status = "up"
      /\ log' = snap[t] /\ numPages' = FirstFree
      /\ pc' = [pc EXCEPT ![t] = "idle"] /\ cur' = [cur EXCEPT ![t] = NoCall]
      /\ snap' = [snap EXCEPT ![t] = EmptyImage]
      /\ UNCHANGED <<load, status, tables, obj, nextId, pages, disk, todo, committed, crashes, shutdowns>>
  BY DEF PersistRegistry, Return, Goto, mem
<1>3. PICK s : s = snap[t]
  OBVIOUS
<1>4. IsImage(s) /\ IdsOf(s) /\ Known(s, obj, pages) /\ s # NoImage
  BY <1>1, <1>3, ImageIsNot DEF Types, ImageTypes, SnapOK
<1>5. Recovered' = s
  BY <1>2, <1>3, <1>4 DEF Recovered
<1>6. /\ pc'[t] = "idle" /\ snap'[t] = EmptyImage /\ cur'[t] = NoCall /\ DOMAIN snap' = Threads
      /\ \A u \in Threads \ {t} : pc'[u] = pc[u] /\ snap'[u] = snap[u] /\ cur'[u] = cur[u]
  BY <1>1, <1>2 DEF Types, ImageTypes
<1>7. IsImage(EmptyImage) /\ IdsOf(EmptyImage) /\ Known(EmptyImage, obj, pages)
  <2>1. 1 \in 1 .. MaxTables + 1
    BY BoundsAssumption
  <2> QED BY <2>1, EmptyIs DEF EmptyImage
<1>8. /\ Grows(obj, pages, obj, pages) /\ numPages' \in 0 .. MaxPages
  BY BoundsAssumption, <1>1, <1>2 DEF Grows, Types, FirstFree
<1>9. Trees'
  <2>1. numPages \in Nat /\ numPages' \in Nat /\ numPages <= numPages'
    BY <1>1, <1>2, BoundsAssumption DEF Types, FirstFree
  <2>2. ObjRoots' = ObjRoots
    BY <1>2 DEF ObjRoots
  <2>3. Forest(MaxRow, DOMAIN obj, pages, ObjRoots, numPages)
    BY <1>1 DEF Trees
  <2>4. \A p \in DOMAIN pages : p \in 1 .. numPages - 1 => p \in DOMAIN pages /\ pages[p] = pages[p]
    OBVIOUS
  <2>5. Forest(MaxRow, DOMAIN obj, pages, ObjRoots, numPages')
    BY <2>1, <2>3, <2>4, ForestFresh, BoundsAssumption
  <2> QED BY <1>1, <1>2, <2>2, <2>5 DEF Trees, Exact
<1>10. Types'
  <2>1. \A u \in Threads : IsImage(snap'[u])
    BY <1>1, <1>6, <1>7 DEF Types, ImageTypes
  <2>2. ImageTypes'
    BY <1>1, <1>2, <1>3, <1>4, <1>6, <2>1, SnapTypes DEF Types, ImageTypes
  <2>3. MetaType' = MetaType
    BY <1>2 DEF MetaType
  <2>4. /\ pc' \in [Threads -> {"idle", "checked", "allocated", "resolved", "changed", "snapshot"}]
        /\ cur' \in [Threads -> [name : Names \cup {NoImage}, id : 0 .. MaxTables, root : Page]]
    BY <1>1, <1>2, NoCallIs DEF Types
  <2> QED BY <1>1, <1>2, <1>8, <2>2, <2>3, <2>4 DEF Types
<1>11. MapOK'
  BY <1>1, <1>2 DEF MapOK
<1>12. Calls'
  <2>1. \A u \in Threads \ {t} : pc[u] = "allocated" => Allocated(u)'
    <3> SUFFICES ASSUME NEW u \in Threads \ {t}, pc[u] = "allocated" PROVE Allocated(u)'
      OBVIOUS
    <3>1. Allocated(u)
      BY <1>1 DEF Calls
    <3>2. numPages \in Nat /\ numPages' \in Nat /\ numPages' >= numPages
      BY <1>1, <1>2, BoundsAssumption DEF Types, FirstFree
    <3>3. cur'[u] = cur[u] /\ obj' = obj /\ pages' = pages /\ nextId' = nextId
      BY <1>2, <1>6
    <3>4. \A i \in DOMAIN obj : cur[u].root \notin PagesFrom(pages', obj'[i].root)
      BY <3>1, <3>3 DEF Allocated
    <3> QED BY <1>1, <3>1, <3>2, <3>3, <3>4, AllocatedKept
  <2> QED BY <1>1, <1>2, <1>6, <2>1, CallsKept
<1>13. ASSUME NEW u \in Threads PROVE SnapOK(u)'
  <2>1. CASE u # t
    <3>1. SnapOK(u)
      BY DEF CatalogInv
    <3>2. /\ snap'[u] = snap[u] /\ todo'[u] = todo[u] /\ pc'[u] = pc[u] /\ obj' = obj /\ pages' = pages
          /\ tables' = tables
      BY <1>2, <1>6, <2>1
    <3> QED BY <3>1, <3>2 DEF SnapOK
  <2>2. CASE u = t
    <3>1. snap'[t] = EmptyImage /\ todo'[t] = {} /\ obj' = obj /\ pages' = pages
      BY <1>2, <1>6
    <3> QED BY <1>7, <2>2, <3>1 DEF SnapOK
  <2> QED BY <2>1, <2>2
<1>14. ImagesOK'
  BY <1>2, <1>4, <1>5 DEF ImagesOK
<1>15. GateOK'
  <2> SUFFICES ASSUME load.gated PROVE GateOK'
    BY <1>2 DEF GateOK
  <2>1. \A u \in Threads \ {t} : pc[u] = "idle" /\ pc'[u] = "idle"
    BY <1>2, <1>6, Alone DEF CatalogInv
  <2>2. /\ DOMAIN s.metas = DOMAIN tables
        /\ \A n \in DOMAIN s.metas : s.metas[n].id = obj[tables[n]].id /\ s.metas[n].schema = obj[tables[n]].schema
    BY <1>2, <1>3 DEF CatalogInv, GateOK
  <2>3. Current' = Current /\ DOMAIN Current.metas = DOMAIN tables
        /\ \A n \in DOMAIN tables : Current.metas[n] = obj[tables[n]]
    BY <1>2 DEF Current
  <2>4. SameShape(s, Current)
    BY <2>2, <2>3 DEF SameShape
  <2>5. SameShape(Recovered', Current')
    BY <1>5, <2>3, <2>4
  <2>6. \A u \in Threads : pc'[u] = "idle"
    BY <1>6, <2>1
  <2> QED BY <2>5, <2>6 DEF GateOK
<1> QED BY <1>2, <1>9, <1>10, <1>11, <1>12, <1>13, <1>14, <1>15 DEF CatalogInv, Down

-----------------------------------------------------------------------------
(* Drop, crash and open. *)

\* A step of BoogyDb's Drop: the threads are idle and memory is as it was.
LEMMA DropStep ==
    ASSUME CatalogInv, status \in {"up", "flushed"}, AllIdle, status' \in {"flushed", "closed"},
           UNCHANGED <<load, tables, obj, nextId, pages, pc, cur, snap, todo, committed, crashes>>,
           numPages' \in {numPages, FirstFree}, disk' = Current,
           log' = log \/ log' = NoImage, Recovered' = Recovered \/ Recovered' = Current,
           status' = "closed" => log' = NoImage
    PROVE  CatalogInv'
<1>1. Types /\ Trees /\ MapOK /\ Calls /\ ImagesOK
  BY DEF CatalogInv
<1>2. IsImage(Current) /\ IdsOf(Current) /\ Known(Current, obj, pages)
  BY <1>1, CurrentIs
<1>3. IdsOf(Recovered) /\ Known(Recovered, obj, pages)
  BY <1>1 DEF ImagesOK
<1>4. Current' = Current
  BY DEF Current
<1>5. PICK r : r = Recovered'
  OBVIOUS
<1>6. IdsOf(r) /\ Known(r, obj, pages)
  BY <1>2, <1>3, <1>5
<1>7. ImagesOK'
  <2>1. disk' = Current'
    BY <1>4
  <2> QED BY <1>5, <1>6, <2>1 DEF ImagesOK
<1>8. numPages \in Nat /\ numPages' \in Nat /\ numPages <= numPages' /\ numPages' \in 0 .. MaxPages
  BY <1>1, BoundsAssumption DEF Types, FirstFree
<1>9. Trees'
  <2>1. ObjRoots' = ObjRoots
    BY DEF ObjRoots
  <2>2. Forest(MaxRow, DOMAIN obj, pages, ObjRoots, numPages)
    BY <1>1 DEF Trees
  <2>3. \A p \in DOMAIN pages : p \in 1 .. numPages - 1 => p \in DOMAIN pages /\ pages[p] = pages[p]
    OBVIOUS
  <2>4. Forest(MaxRow, DOMAIN obj, pages, ObjRoots, numPages')
    BY <1>8, <2>2, <2>3, ForestFresh, BoundsAssumption
  <2> QED BY <1>1, <2>1, <2>4 DEF Trees, Exact
<1>10. Types'
  <2>1. IsImage(disk') /\ (log' = NoImage \/ IsImage(log'))
    BY <1>1, <1>2 DEF Types, ImageTypes
  <2>2. ImageTypes'
    BY <1>1, <2>1, SnapTypes DEF Types, ImageTypes
  <2>3. MetaType' = MetaType
    BY DEF MetaType
  <2> QED BY <1>1, <1>8, <2>2, <2>3 DEF Types
<1>11. MapOK'
  BY <1>1 DEF MapOK
<1>12. \A t \in Threads : pc[t] = "idle"
  BY DEF AllIdle
<1>13. Calls' /\ AllIdle'
  BY <1>12 DEF Calls, AllIdle
<1>14. \A t \in Threads : SnapOK(t)'
  BY DEF CatalogInv, SnapOK
<1>15. GateOK' /\ Down'
  BY <1>13 DEF GateOK, Down
<1> QED BY <1>7, <1>9, <1>10, <1>11, <1>13, <1>14, <1>15 DEF CatalogInv

LEMMA FlushStep == ASSUME CatalogInv, Flush, UNCHANGED load PROVE CatalogInv'
<1>1. /\ status = "up" /\ AllIdle /\ disk' = Current /\ status' = "flushed" /\ numPages' = FirstFree
      /\ UNCHANGED <<load, tables, obj, nextId, pages, log, pc, cur, snap, todo, committed, crashes>>
  BY DEF Flush, mem
<1>2. Recovered' = Recovered \/ Recovered' = Current
  BY <1>1 DEF Recovered
<1> QED BY <1>1, <1>2, DropStep

LEMMA TruncateWalStep == ASSUME CatalogInv, TruncateWal, UNCHANGED load PROVE CatalogInv'
<1>1. /\ status = "flushed" /\ log' = NoImage /\ status' = "closed"
      /\ UNCHANGED <<load, tables, obj, nextId, pages, numPages, disk, pc, cur, snap, todo, committed, crashes>>
  BY DEF TruncateWal, mem
<1>2. AllIdle /\ disk = Current
  BY <1>1 DEF CatalogInv, Down, ImagesOK
<1>3. Recovered' = Current /\ disk' = Current
  BY <1>1, <1>2 DEF Recovered
<1> QED BY <1>1, <1>2, <1>3, DropStep

\* A process crash: what open() will find is good.
LEMMA CrashStep == ASSUME CatalogInv, Crash, UNCHANGED load PROVE CatalogInv'
<1>1. Types /\ Trees /\ ImagesOK
  BY DEF CatalogInv
<1>2. /\ status' = "crashed" /\ crashes' = crashes + 1
      /\ pc' = [t \in Threads |-> "idle"] /\ cur' = [t \in Threads |-> NoCall]
      /\ snap' = [t \in Threads |-> EmptyImage] /\ todo' = [t \in Threads |-> {}]
      /\ tables' = <<>> /\ obj' = <<>> /\ nextId' = 1
      /\ UNCHANGED <<load, pages, numPages, disk, log, committed>>
  BY DEF Crash
<1>3. PICK r : r = Recovered
  OBVIOUS
<1>4. IdsOf(r) /\ Good(r, pages, numPages, committed) /\ Recovered' = r
  BY <1>1, <1>2, <1>3, RecoveredIs DEF Recovered
<1>5. ImagesOK'
  <2>1. Good(r, pages', numPages', committed')
    BY <1>2, <1>4
  <2>2. crashes' > 0
    BY <1>1, <1>2 DEF Types
  <2> QED BY <1>2, <1>4, <2>1, <2>2 DEF ImagesOK
<1>6. DOMAIN tables' = {} /\ DOMAIN obj' = {}
  BY <1>2
<1>7. 1 \in 1 .. MaxTables + 1
  BY BoundsAssumption
<1>8. IsImage(EmptyImage) /\ IdsOf(EmptyImage) /\ Known(EmptyImage, obj', pages')
  BY <1>7, EmptyIs DEF EmptyImage
<1>9. Types'
  <2>1. \A t \in Threads : IsImage(snap'[t])
    BY <1>2, <1>8
  <2>2. DOMAIN snap' = Threads
    BY <1>2
  <2>3. ImageTypes'
    BY <1>1, <1>2, <2>1, <2>2, SnapTypes DEF Types, ImageTypes
  <2>4. tables' = [n \in DOMAIN tables' |-> tables'[n]] /\ obj' = [i \in DOMAIN obj' |-> obj'[i]]
    BY <1>2
  <2>5. cur' \in [Threads -> [name : Names \cup {NoImage}, id : 0 .. MaxTables, root : Page]]
    BY <1>2, NoCallIs
  <2>6. /\ pc' \in [Threads -> {"idle", "checked", "allocated", "resolved", "changed", "snapshot"}]
        /\ todo' = [t \in Threads |-> todo'[t]]
    BY <1>2
  <2> QED BY <1>1, <1>2, <1>6, <1>7, <2>3, <2>4, <2>5, <2>6 DEF Types
<1>10. Trees'
  <2>1. DOMAIN ObjRoots' = {}
    BY <1>6 DEF ObjRoots
  <2> QED BY <1>6 DEF Trees, Forest
<1>11. MapOK' /\ Calls' /\ AllIdle'
  BY <1>2, <1>6 DEF MapOK, Calls, AllIdle
<1>12. ASSUME NEW t \in Threads PROVE SnapOK(t)'
  <2>1. snap'[t] = EmptyImage /\ todo'[t] = {} /\ pc'[t] = "idle"
    BY <1>2
  <2> QED BY <1>8, <2>1 DEF SnapOK
<1>13. GateOK' /\ Down'
  BY <1>2, <1>11 DEF GateOK, Down
<1> QED BY <1>5, <1>9, <1>10, <1>11, <1>12, <1>13 DEF CatalogInv

\* The registry that open() builds from image im.
Opened(o, im) ==
    /\ o = [i \in DOMAIN o |-> o[i]]
    /\ \A n \in DOMAIN im.metas : im.metas[n].id \in DOMAIN o /\ o[im.metas[n].id] = im.metas[n]
    /\ \A i \in DOMAIN o : \E n \in DOMAIN im.metas : im.metas[n].id = i

LEMMA OpenedIs ==
    ASSUME NEW im, IdsOf(im), NEW o,
           o = [i \in {im.metas[n].id : n \in DOMAIN im.metas} |->
                   im.metas[CHOOSE n \in DOMAIN im.metas : im.metas[n].id = i]]
    PROVE  Opened(o, im)
<1>1. DOMAIN o = {im.metas[n].id : n \in DOMAIN im.metas} /\ o = [i \in DOMAIN o |-> o[i]]
  OBVIOUS
<1>2. ASSUME NEW n \in DOMAIN im.metas PROVE im.metas[n].id \in DOMAIN o /\ o[im.metas[n].id] = im.metas[n]
  <2> DEFINE k == CHOOSE l \in DOMAIN im.metas : im.metas[l].id = im.metas[n].id
  <2>1. im.metas[n].id \in DOMAIN o /\ o[im.metas[n].id] = im.metas[k]
    BY <1>1
  <2>2. k \in DOMAIN im.metas /\ im.metas[k].id = im.metas[n].id
    OBVIOUS
  <2>3. k = n
    BY <2>2 DEF IdsOf
  <2> QED BY <2>1, <2>3
<1>3. \A i \in DOMAIN o : \E n \in DOMAIN im.metas : im.metas[n].id = i
  BY <1>1
<1>4. o = [i \in DOMAIN o |-> o[i]]
  BY <1>1
<1> QED BY <1>2, <1>3, <1>4 DEF Opened

\* The tables of a good image, taken by their ids.
LEMMA ForestRenamed ==
    ASSUME NEW im, NEW v, NEW n, NEW c, Good(im, v, n, c), NEW o, Opened(o, im), NEW R,
           \A i \in DOMAIN o : R[i] = o[i].root
    PROVE  /\ Forest(MaxRow, DOMAIN o, v, R, n)
           /\ \A i \in DOMAIN o : RowsFrom(v, o[i].root) \subseteq c[i]
<1>1. /\ \A k \in DOMAIN im.metas : /\ TreeOK(MaxRow, v, im.metas[k].root)
                                    /\ PagesFrom(v, im.metas[k].root) \subseteq 1 .. n - 1
      /\ \A k, l \in DOMAIN im.metas : k # l => PagesFrom(v, im.metas[k].root) \cap PagesFrom(v, im.metas[l].root) = {}
      /\ \A k \in DOMAIN im.metas : RowsFrom(v, im.metas[k].root) \subseteq c[im.metas[k].id]
  <2>1. \A k \in DOMAIN im.metas : RootsOf(im)[k] = im.metas[k].root
    BY DEF RootsOf
  <2> QED BY <2>1 DEF Good, Forest
<1>2. \A i \in DOMAIN o : \E k \in DOMAIN im.metas : im.metas[k].id = i /\ o[i] = im.metas[k]
  BY DEF Opened
<1>3. \A i \in DOMAIN o : /\ TreeOK(MaxRow, v, o[i].root) /\ PagesFrom(v, o[i].root) \subseteq 1 .. n - 1
                          /\ RowsFrom(v, o[i].root) \subseteq c[i]
  BY <1>1, <1>2
<1>4. ASSUME NEW i \in DOMAIN o, NEW j \in DOMAIN o, i # j
      PROVE  PagesFrom(v, o[i].root) \cap PagesFrom(v, o[j].root) = {}
  <2>1. PICK k \in DOMAIN im.metas : im.metas[k].id = i /\ o[i] = im.metas[k]
    BY <1>2
  <2>2. PICK l \in DOMAIN im.metas : im.metas[l].id = j /\ o[j] = im.metas[l]
    BY <1>2
  <2>3. k # l
    BY <1>4, <2>1, <2>2
  <2> QED BY <1>1, <2>1, <2>2, <2>3
<1> QED BY <1>3, <1>4 DEF Forest

\* BoogyDb::open.
LEMMA OpenStep == ASSUME CatalogInv, Open, UNCHANGED load PROVE CatalogInv'
<1>1. Types /\ Trees /\ MapOK /\ ImagesOK /\ Down
  BY DEF CatalogInv
<1>2. PICK im : im = Recovered
  OBVIOUS
<1>3. /\ status \in {"closed", "crashed"} /\ disk' = im /\ log' = NoImage /\ nextId' = im.next
      /\ tables' = [n \in DOMAIN im.metas |-> im.metas[n].id]
      /\ obj' = [i \in {im.metas[n].id : n \in DOMAIN im.metas} |->
                    im.metas[CHOOSE n \in DOMAIN im.metas : im.metas[n].id = i]]
      /\ status' = "up"
      /\ UNCHANGED <<load, pages, numPages, pc, cur, snap, todo, committed, crashes>>
  BY <1>2 DEF Open
<1>4. IsImage(im) /\ IdsOf(im) /\ Good(im, pages, numPages, committed)
  BY <1>1, <1>2, RecoveredIs
<1>5. Opened(obj', im)
  BY <1>3, <1>4, OpenedIs
<1>6. /\ DOMAIN tables' = DOMAIN im.metas
      /\ \A n \in DOMAIN im.metas : tables'[n] = im.metas[n].id /\ tables'[n] \in DOMAIN obj' /\ obj'[tables'[n]] = im.metas[n]
      /\ \A i \in DOMAIN obj' : \E n \in DOMAIN im.metas : im.metas[n].id = i /\ obj'[i] = im.metas[n]
  BY ZenonT(30), <1>3, <1>5 DEF Opened
<1>7. Recovered' = im
  BY <1>3 DEF Recovered
<1>8. AllIdle /\ \A t \in Threads : pc[t] = "idle" /\ pc'[t] = "idle"
  BY <1>1, <1>3 DEF Down, AllIdle
<1>9. Types'
  <2>1. ImageTypes'
    BY <1>1, <1>3, <1>4, SnapTypes DEF Types, ImageTypes
  <2>2. \A i \in DOMAIN obj' : obj'[i] \in MetaType
    BY <1>4, <1>6 DEF IsImage, ImageOK
  <2>3. \A n \in DOMAIN im.metas : im.metas[n].id \in TableIds
    BY <1>4, MetaIs DEF MetaFields, TableIds, IsImage, ImageOK
  <2>4. DOMAIN obj' \subseteq TableIds
    BY <1>6, <2>3
  <2>5. obj' = [i \in DOMAIN obj' |-> obj'[i]] /\ tables' = [n \in DOMAIN tables' |-> tables'[n]]
    BY <1>3, <1>5 DEF Opened
  <2>6. DOMAIN tables' \subseteq Names /\ nextId' \in 1 .. MaxTables + 1
    BY <1>3, <1>4, <1>6 DEF IsImage, ImageOK
  <2>7. MetaType' = MetaType
    BY <1>3 DEF MetaType
  <2>8. \A i \in DOMAIN obj' : obj'[i] \in MetaType'
    BY <2>2, <2>7
  <2>9. /\ load' \in Workloads /\ status' \in {"up", "flushed", "closed", "crashed"}
        /\ numPages' \in 0 .. MaxPages /\ pages' = [p \in Page |-> pages'[p]]
        /\ pc' \in [Threads -> {"idle", "checked", "allocated", "resolved", "changed", "snapshot"}]
        /\ cur' \in [Threads -> [name : Names \cup {NoImage}, id : 0 .. MaxTables, root : Page]]
        /\ todo' = [t \in Threads |-> todo'[t]]
        /\ committed' \in [TableIds -> SUBSET RowIds]
        /\ crashes' \in Nat
    BY <1>1, <1>3 DEF Types
  <2> QED BY <2>1, <2>4, <2>5, <2>6, <2>8, <2>9 DEF Types
<1>10. Trees'
  <2>1. PICK r : r = ObjRoots'
    OBVIOUS
  <2>2. \A i \in DOMAIN obj' : r[i] = obj'[i].root
    BY <2>1 DEF ObjRoots
  <2>3. /\ Forest(MaxRow, DOMAIN obj', pages, r, numPages)
        /\ \A i \in DOMAIN obj' : RowsFrom(pages, obj'[i].root) \subseteq committed[i]
    BY <1>4, <1>5, <2>2, ForestRenamed
  <2>4. \A i \in DOMAIN obj' : obj'[i].id = i /\ i < nextId'
    BY <1>3, <1>4, <1>6 DEF IdsOf
  <2>5. ASSUME crashes = 0, NEW i \in DOMAIN obj' PROVE i \in DOMAIN obj /\ obj'[i] = obj[i]
    <3>1. im = Current
      BY <1>1, <1>2, <1>3, <2>5 DEF ImagesOK, Recovered
    <3>2. PICK n \in DOMAIN im.metas : im.metas[n].id = i /\ obj'[i] = im.metas[n]
      BY <1>6
    <3>3. n \in DOMAIN tables /\ im.metas[n] = obj[tables[n]] /\ im.metas[n].id = tables[n]
      BY <1>1, <3>1, <3>2, CurrentIs
    <3> QED BY <1>1, <3>2, <3>3 DEF MapOK
  <2>6. \A i \in DOMAIN obj' : crashes = 0 =>
           /\ RowsFrom(pages, obj'[i].root) = committed[i]
           /\ obj'[i].count = Cardinality(committed[i])
           /\ \A x \in committed[i] : x < obj'[i].next
    BY <1>1, <2>5 DEF Trees, Exact
  <2>7. Forest(MaxRow, DOMAIN obj', pages', ObjRoots', numPages')
    BY <1>3, <2>1, <2>3
  <2>8. \A i \in DOMAIN obj' : /\ obj'[i].id = i /\ i < nextId'
                               /\ RowsFrom(pages', obj'[i].root) \subseteq committed'[i]
    BY <1>3, <2>3, <2>4
  <2>9. \A i \in DOMAIN obj' : crashes' = 0 =>
           /\ RowsFrom(pages', obj'[i].root) = committed'[i]
           /\ obj'[i].count = Cardinality(committed'[i])
           /\ \A x \in committed'[i] : x < obj'[i].next
    BY ZenonT(30), <1>3, <2>6
  <2> QED BY <2>7, <2>8, <2>9 DEF Trees, Exact
<1>11. MapOK'
  BY <1>4, <1>6 DEF MapOK, IdsOf
<1>12. Calls'
  BY <1>8 DEF Calls
<1>13. ASSUME NEW t \in Threads PROVE SnapOK(t)'
  <2>1. snap'[t] = EmptyImage /\ todo'[t] = {}
    BY <1>3, <1>8 DEF CatalogInv, SnapOK
  <2>2. 1 \in 1 .. MaxTables + 1
    BY BoundsAssumption
  <2>3. IdsOf(EmptyImage) /\ Known(EmptyImage, obj', pages')
    BY <2>2, EmptyIs DEF EmptyImage
  <2> QED BY <1>8, <2>1, <2>3 DEF SnapOK
<1>14. ImagesOK'
  <2>1. Known(im, obj', pages')
    BY <1>5 DEF Known, Opened, PagesFrom
  <2> QED BY <1>3, <1>4, <1>7, <2>1 DEF ImagesOK
<1>15. GateOK'
  <2>1. /\ DOMAIN Current'.metas = DOMAIN im.metas
        /\ \A n \in DOMAIN im.metas : Current'.metas[n] = im.metas[n]
    BY <1>6 DEF Current
  <2>2. SameShape(Recovered', Current')
    BY <1>7, <2>1 DEF SameShape
  <2> QED BY <1>8, <2>2 DEF GateOK
<1> QED BY <1>3, <1>9, <1>10, <1>11, <1>12, <1>13, <1>14, <1>15 DEF CatalogInv, Down

-----------------------------------------------------------------------------
(* The invariant holds in every reachable state. *)

LEMMA CatalogInit == ASSUME Init PROVE CatalogInv
<1>1. load \in Workloads /\ status = "up" /\ tables = <<>> /\ obj = <<>> /\ nextId = 1
      /\ pages = [p \in Page |-> Hole] /\ numPages = 0 /\ disk = EmptyImage /\ log = NoImage
      /\ pc = [t \in Threads |-> "idle"] /\ cur = [t \in Threads |-> NoCall]
      /\ snap = [t \in Threads |-> EmptyImage] /\ todo = [t \in Threads |-> {}]
      /\ committed = [i \in TableIds |-> {}] /\ crashes = 0
  BY DEF Init
<1>2. DOMAIN tables = {} /\ DOMAIN obj = {}
  BY <1>1
<1>3. 1 \in 1 .. MaxTables + 1
  BY BoundsAssumption
<1>4. IsImage(EmptyImage) /\ IdsOf(EmptyImage) /\ Known(EmptyImage, obj, pages) /\ DOMAIN EmptyImage.metas = {}
  BY <1>3, EmptyIs DEF EmptyImage
<1>5. Types
  <2>1. ImageTypes
    BY <1>1, <1>4 DEF ImageTypes
  <2>2. cur \in [Threads -> [name : Names \cup {NoImage}, id : 0 .. MaxTables, root : Page]]
    BY <1>1, NoCallIs
  <2>3. tables = [n \in DOMAIN tables |-> tables[n]] /\ obj = [i \in DOMAIN obj |-> obj[i]]
    BY <1>1
  <2>4. numPages \in 0 .. MaxPages /\ crashes \in Nat
    BY <1>1, BoundsAssumption
  <2> QED BY <1>1, <1>2, <1>3, <2>1, <2>2, <2>3, <2>4 DEF Types
<1>6. Trees
  <2>1. DOMAIN ObjRoots = {}
    BY <1>2 DEF ObjRoots
  <2> QED BY <1>2 DEF Trees, Forest
<1>7. MapOK /\ Calls /\ Down
  BY <1>1, <1>2 DEF MapOK, Calls, Down
<1>8. \A t \in Threads : SnapOK(t)
  BY <1>1, <1>2, <1>4 DEF SnapOK
<1>9. ImagesOK
  BY <1>1, <1>4 DEF ImagesOK, Recovered
<1>10. GateOK
  <2>1. DOMAIN Current.metas = {} /\ Recovered = EmptyImage
    BY <1>1, <1>2 DEF Current, Recovered
  <2> QED BY <1>1, <1>4, <2>1 DEF GateOK, SameShape
<1> QED BY <1>5, <1>6, <1>7, <1>8, <1>9, <1>10 DEF CatalogInv

LEMMA CatalogStutter == ASSUME CatalogInv, UNCHANGED vars PROVE CatalogInv'
<1>1. UNCHANGED <<status, tables, obj, nextId, pages, numPages, disk, log, pc, cur, snap, todo,
                  committed, crashes, load>>
  BY DEF vars, mem
<1>2. Types /\ Trees /\ MapOK /\ Calls /\ ImagesOK /\ Down /\ GateOK /\ \A t \in Threads : SnapOK(t)
  BY DEF CatalogInv
<1>3. Types'
  <2>1. MetaType' = MetaType
    BY <1>1 DEF MetaType
  <2>2. ImageTypes'
    BY <1>1, <1>2, ImageTypesKept DEF Types
  <2> QED BY <1>1, <1>2, <2>1, <2>2 DEF Types
<1>4. Trees'
  BY <1>1, <1>2, TreesKept
<1>5. MapOK' /\ Calls' /\ Down' /\ \A t \in Threads : SnapOK(t)'
  BY <1>1, <1>2 DEF MapOK, Calls, Allocated, Down, AllIdle, SnapOK
<1>6. Recovered' = Recovered /\ Current' = Current
  BY <1>1 DEF Recovered, Current
<1>7. ImagesOK'
  BY <1>1, <1>2, <1>6 DEF ImagesOK
<1>8. GateOK'
  BY <1>1, <1>2, <1>6 DEF GateOK, Changing, SameShape
<1> QED BY <1>3, <1>4, <1>5, <1>7, <1>8 DEF CatalogInv

LEMMA CatalogStep == ASSUME CatalogInv, [Next]_vars PROVE CatalogInv'
<1>1. CASE UNCHANGED vars
  BY <1>1, CatalogStutter
<1>2. CASE Next
  <2>1. load.threads \subseteq Threads /\ load.names \subseteq Names
    BY WorkloadAssumption DEF CatalogInv, Types
  <2>2. UNCHANGED load /\ Step
    BY <1>2 DEF Next
  <2>3. ASSUME NEW t \in Threads, NEW n \in Names,
               CreateCheck(t, n) \/ DropTable(t, n) \/ Resolve(t, n) \/ SnapOne(t, n)
        PROVE  CatalogInv'
    BY <2>2, <2>3, CreateCheckStep, DropTableStep, ResolveStep, SnapOneStep
  <2>4. ASSUME NEW t \in Threads, NEW x \in RowIds, InsertWithId(t, x) \/ Delete(t, x)
        PROVE  CatalogInv'
    BY <2>2, <2>4, InsertWithIdStep, DeleteStep
  <2>5. ASSUME NEW t \in Threads, CreateAllocate(t) \/ CreateRegister(t) \/ Alter(t) \/ Insert(t)
        PROVE  CatalogInv'
    BY <2>2, <2>5, CreateAllocateStep, CreateLostStep, CreateRegisterStep, AlterStep, InsertStep
  <2>6. ASSUME NEW t \in Threads, SnapBegin(t) \/ PersistRegistry(t) PROVE CatalogInv'
    BY <2>2, <2>6, SnapBeginStep, PersistRegistryStep
  <2>7. ASSUME Flush \/ TruncateWal \/ Crash \/ Open PROVE CatalogInv'
    BY <2>2, <2>7, FlushStep, TruncateWalStep, CrashStep, OpenStep
  <2> QED BY <2>1, <2>2, <2>3, <2>4, <2>5, <2>6, <2>7 DEF Step
<1> QED BY <1>1, <1>2

\* Through races, shutdowns and crashes memory, the snapshots in progress and
\* the image in page 0 name only tables whose trees are whole and apart.
THEOREM CatalogInvariant == Spec => []CatalogInv
<1>1. Init => CatalogInv
  BY CatalogInit
<1>2. CatalogInv /\ [Next]_vars => CatalogInv'
  BY CatalogStep
<1> QED BY <1>1, <1>2, PTL DEF Spec

-----------------------------------------------------------------------------
(* What it means for the callers. *)

\* The values of the registry have their types in every reachable state, and a
\* snapshot in progress only names registered tables (snapshot_table_metas
\* keeps the map's read lock).
THEOREM CatalogTypes == Spec => []TypeOK
<1>1. CatalogInv => TypeOK
  <2> SUFFICES ASSUME CatalogInv PROVE TypeOK
    OBVIOUS
  <2>1. Types /\ MapOK /\ \A t \in Threads : SnapOK(t)
    BY DEF CatalogInv
  <2>2. ImageOK(disk) /\ (log = NoImage \/ ImageOK(log)) /\ \A t \in Threads : ImageOK(snap[t])
    BY <2>1 DEF Types, ImageTypes, IsImage
  <2>3. \A t \in Threads : /\ pc[t] \in {"idle", "checked", "allocated", "resolved", "changed", "snapshot"}
                           /\ todo[t] \subseteq DOMAIN tables
    BY <2>1 DEF Types, SnapOK
  <2> QED BY <2>1, <2>2, <2>3 DEF TypeOK, Types, MapOK
<1> QED BY <1>1, CatalogInvariant, PTL

\* Whatever create_table and drop_table calls raced, no two tables share a
\* table id or a page, in memory and in the registry a crash would bring back.
THEOREM TablesApart == Spec => []TablesSeparate
<1>1. CatalogInv => TablesSeparate
  <2> SUFFICES ASSUME CatalogInv PROVE TablesSeparate
    OBVIOUS
  <2>1. Types /\ Trees /\ MapOK /\ ImagesOK
    BY DEF CatalogInv
  <2>2. Separate(Recovered)
    BY <2>1, RecoveredIs, GoodSeparate
  <2>3. Separate(Current)
    <3>1. IdsOf(Current) /\ Known(Current, obj, pages)
      BY <2>1, CurrentIs
    <3>2. Forest(MaxRow, DOMAIN obj, pages, [i \in DOMAIN obj |-> obj[i].root], numPages)
      BY <2>1 DEF Trees, ObjRoots
    <3>3. \A i \in DOMAIN obj : RowsFrom(pages, obj[i].root) \subseteq committed[i]
      BY <2>1 DEF Trees
    <3>4. Good(Current, pages, numPages, committed)
      BY <3>1, <3>2, <3>3, KnownGood
    <3> QED BY <3>1, <3>4, GoodSeparate
  <2> QED BY <2>2, <2>3 DEF TablesSeparate
<1> QED BY <1>1, CatalogInvariant, PTL

\* Behind the write gate a crash between two calls brings back exactly the
\* tables and schemas that the callers were told of.
THEOREM SchemaChangesDurable == Spec => []DdlDurable
<1>1. CatalogInv => DdlDurable
  <2> SUFFICES ASSUME CatalogInv, load.gated, status = "up", AllIdle PROVE Shape(Recovered) = Shape(Current)
    BY DEF DdlDurable
  <2>1. \A t \in Threads : ~Changing(t)
    BY DEF AllIdle, Changing
  <2>2. SameShape(Recovered, Current)
    BY <2>1 DEF CatalogInv, GateOK
  <2> QED BY <2>2 DEF SameShape, Shape
<1> QED BY <1>1, CatalogInvariant, PTL

\* A lookup by id (get, update, delete) from an old root page that open took from
\* page 0 never finds a row whose insert was not reported as done or whose delete
\* was, nor a row of another table.
THEOREM NoRowResurrected == Spec => []NoResurrection
<1>1. CatalogInv => NoResurrection
  BY DEF CatalogInv, NoResurrection, Trees, MapOK
<1> QED BY <1>1, CatalogInvariant, PTL

\* As long as the process has not crashed, every committed row can be reached
\* from root_page, row_count counts the rows and next_rowid is above them.
THEOREM RowCountsExact == Spec => []RowsExact
<1>1. CatalogInv => RowsExact
  <2> SUFFICES ASSUME CatalogInv, crashes = 0, NEW n \in DOMAIN tables
               PROVE  /\ RowsFrom(pages, obj[tables[n]].root) = committed[obj[tables[n]].id]
                      /\ obj[tables[n]].count = Cardinality(committed[obj[tables[n]].id])
                      /\ \A x \in committed[obj[tables[n]].id] : x < obj[tables[n]].next
    BY DEF RowsExact
  <2>1. tables[n] \in DOMAIN obj
    BY DEF CatalogInv, MapOK
  <2>2. obj[tables[n]].id = tables[n] /\ Exact(tables[n])
    BY <2>1 DEF CatalogInv, Trees
  <2> QED BY <2>2 DEF Exact
<1> QED BY <1>1, CatalogInvariant, PTL

\* open() after a clean shutdown restores the registry as it was in memory.
THEOREM ReopenIsClean == Spec => CleanReopen
<1>1. CatalogInv /\ [Next]_vars => [status = "closed" /\ status' = "up" => Current' = Current]_vars
  <2> SUFFICES ASSUME CatalogInv, Next, status = "closed", status' = "up" PROVE Current' = Current
    BY DEF vars, mem, Current
  <2>1. Open
    BY DEF Next, Step, CreateCheck, DropTable, Resolve, SnapOne, InsertWithId, Delete, CreateAllocate,
           CreateRegister, Alter, Insert, SnapBegin, PersistRegistry, Flush, TruncateWal, Crash, MayCall,
           Resolved
  <2>2. Types /\ Trees /\ MapOK /\ ImagesOK
    BY DEF CatalogInv
  <2>3. PICK im : im = Recovered
    OBVIOUS
  <2>4. im = Current /\ IdsOf(im)
    BY <2>2, <2>3, CurrentIs DEF ImagesOK, Recovered
  <2>5. /\ nextId' = im.next /\ tables' = [n \in DOMAIN im.metas |-> im.metas[n].id]
        /\ obj' = [i \in {im.metas[n].id : n \in DOMAIN im.metas} |->
                      im.metas[CHOOSE n \in DOMAIN im.metas : im.metas[n].id = i]]
    BY <2>1, <2>3 DEF Open
  <2>6. Opened(obj', im)
    <3>1. PICK o : o = obj'
      OBVIOUS
    <3>2. o = [i \in {im.metas[n].id : n \in DOMAIN im.metas} |->
                  im.metas[CHOOSE n \in DOMAIN im.metas : im.metas[n].id = i]]
      BY ONLY <2>5, <3>1
    <3>3. IdsOf(im)
      BY <2>4
    <3>4. Opened(o, im)
      BY ONLY <3>2, <3>3, OpenedIs
    <3> QED BY ONLY <3>1, <3>4
  <2>7. \A n \in DOMAIN im.metas : obj'[tables'[n]] = im.metas[n]
    BY ZenonT(30), <2>5, <2>6 DEF Opened
  <2>8. im = [next |-> im.next, metas |-> im.metas] /\ im.metas = [n \in DOMAIN im.metas |-> im.metas[n]]
    BY <2>2, <2>4, CurrentIs DEF IsImage
  <2>9. Current' = [next |-> im.next, metas |-> [n \in DOMAIN im.metas |-> im.metas[n]]]
    <3>1. nextId' = im.next /\ DOMAIN tables' = DOMAIN im.metas
      BY <2>5
    <3>2. [n \in DOMAIN tables' |-> obj'[tables'[n]]] = [n \in DOMAIN im.metas |-> im.metas[n]]
      BY <2>7, <3>1
    <3> QED BY <3>1, <3>2 DEF Current
  <2> QED BY <2>4, <2>8, <2>9
<1> QED BY <1>1, CatalogInvariant, PTL DEF CleanReopen, Spec

\* While the database is open no create_table replaces a registered table.
THEOREM NamesAreTaken == Spec => TablesNotReplaced
<1>1. [Next]_vars => [status = "up" /\ status' = "up" =>
                        \A n \in DOMAIN tables \cap DOMAIN tables' : tables'[n] = tables[n]]_vars
  <2> SUFFICES ASSUME Next, status = "up", status' = "up", NEW n \in DOMAIN tables \cap DOMAIN tables'
               PROVE  tables'[n] = tables[n]
    OBVIOUS
  <2>1. CASE \E t \in load.threads : CreateRegister(t)
    <3>1. PICK t : CreateRegister(t)
      BY <2>1
    <3>2. CASE cur[t].name \in DOMAIN tables
      BY <3>1, <3>2 DEF CreateRegister
    <3>3. CASE cur[t].name \notin DOMAIN tables
      <4>1. tables' = With(tables, cur[t].name, cur[t].id)
        BY <3>1, <3>3 DEF CreateRegister
      <4> QED BY <3>3, <4>1 DEF With
    <3> QED BY <3>2, <3>3
  <2>2. CASE \E t \in load.threads, k \in load.names : DropTable(t, k)
    BY <2>2 DEF DropTable, Without
  <2>3. ASSUME NEW t \in load.threads, NEW k \in load.names, CreateCheck(t, k) \/ Resolve(t, k) \/ SnapOne(t, k)
        PROVE  tables' = tables
    BY <2>3 DEF CreateCheck, Resolve, SnapOne, mem
  <2>4. ASSUME NEW t \in load.threads, NEW x \in RowIds, InsertWithId(t, x) \/ Delete(t, x) PROVE tables' = tables
    BY <2>4 DEF InsertWithId, Delete, Add
  <2>5. ASSUME NEW t \in load.threads, \/ CreateAllocate(t) \/ Alter(t) \/ Insert(t)
                                     \/ SnapBegin(t) \/ PersistRegistry(t)
        PROVE  tables' = tables
    BY <2>5 DEF CreateAllocate, Alter, Insert, Add, SnapBegin, PersistRegistry, mem
  <2>6. ~Flush /\ ~TruncateWal /\ ~Open /\ ~Crash
    BY DEF Flush, TruncateWal, Open, Crash
  <2> QED BY <2>1, <2>2, <2>3, <2>4, <2>5, <2>6 DEF Next, Step
<1> QED BY <1>1, PTL DEF TablesNotReplaced, Spec
==============================================================================
