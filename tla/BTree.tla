--------------------------------- MODULE BTree ---------------------------------
(***************************************************************************)
(* One table's B+ tree (btree.rs) with its overflow chains (overflow.rs),  *)
(* an index over it (index.rs, module IndexTree), the row operations of    *)
(* db.rs that drive both, and a client paging through the table with       *)
(* scan_batch, in row or in index order, while the table changes between   *)
(* two batches.                                                            *)
(*                                                                         *)
(* A row is its id and its size; its size is also its content, so reading  *)
(* a row back means reassembling its size, and it is the indexed column.   *)
(* Sizes are in units of page space, slot entry included: a leaf holds Cap *)
(* units, and the page's checksum the Checksum units after them.  A row    *)
(* written into the checksum's place loses its last bytes: `altered' keeps *)
(* the ids of such rows, whose size is still read but not their content.   *)
(* An altered row still decodes, and the indexed column is not the one a   *)
(* row ends with.  Each action is one operation under the table lock and   *)
(* the write mutex.                                                        *)
(***************************************************************************)
EXTENDS IndexTree

CONSTANTS MaxId,      \* row ids are 1 .. MaxId
          Cap,        \* units a leaf page holds
          Checksum,   \* units at the end of a page that its checksum takes
          MaxKeys,    \* separators a branch page holds
          Trailer,    \* units the overflow trailer takes from the inline part
          Payload,    \* units an overflow page holds
          MaxPages,   \* page numbers of the table's tree are 1 .. MaxPages
          Workloads   \* what the callers do: [ids, sizes, limits, bulk, order, grow], where
                      \*   ids     the row ids in use
                      \*   sizes   the sizes a row may have
                      \*   limits  batch sizes of the paging client ({} = no client)
                      \*   bulk    update_where and delete_where are called
                      \*   order   the client pages by "row" or by "index"; in the second
                      \*           case the table has an index, in the first it has none
                      \*   grow    bound: nothing that allocates starts beyond this page of its tree

Ids == 1 .. MaxId
PageNo == 1 .. MaxPages

ASSUME SpaceAssumption ==
    /\ MaxId \in Nat \ {0} /\ MaxPages \in Nat \ {0} /\ MaxKeys \in Nat \ {0}
    /\ Cap \in Nat /\ Trailer \in 1 .. Cap - 1 /\ Payload \in Nat \ {0}
    /\ Checksum \in Nat /\ Checksum < Cap
    /\ \A w \in Workloads : \A size \in w.sizes : Checksum < size
    /\ \A w \in Workloads : w.ids \subseteq Ids /\ w.sizes \subseteq Nat \ {0} /\ IsFiniteSet(w.sizes)
                             /\ w.limits \subseteq Nat \ {0} /\ w.bulk \in BOOLEAN /\ w.grow \in PageNo

VARIABLES pages,     \* page number -> node
          free,      \* the next page number allocate_page returns
          root,      \* TableMeta.root_page
          rows,      \* what the table should hold: id -> size, 0 = absent
          index,     \* the index tree and IndexMeta.root_page
          altered,   \* the rows whose last bytes a checksum overwrote
          panicked,  \* <<>>, or the leaf whose split ran past the end of a page
          scan,      \* the paging client
          load       \* the workload of this behaviour

vars == <<pages, free, root, rows, index, altered, panicked, scan, load>>

LeafPage(s, prev, next) == [kind |-> "leaf", rows |-> s, prev |-> prev, next |-> next]
OverflowPage(len, next) == [kind |-> "overflow", len |-> len, next |-> next]

------------------------------------------------------------------------------
(* Reading *)

\* Mutant: `rowid <= key' instead of `rowid < key'.
ChildIndexInclusive(b, x) == FirstOf(Len(b.keys), {i \in DOMAIN b.keys : x <= b.keys[i]})
\* find_child: the first separator above the row id, else the last child.
ChildIndex(b, x) == FirstOf(Len(b.keys), {i \in DOMAIN b.keys : x < b.keys[i]})

\* The pages from the root to the leaf that holds, or would hold, row x.
PathTo(P, r, x) ==
    Follow([p \in PageNo |-> IF P[p].kind = "branch" THEN P[p].kids[ChildIndex(P[p], x)] ELSE 0],
           r, MaxPages)
LeafFor(P, r, x) == Last(PathTo(P, r, x))

\* find_leftmost_leaf / find_rightmost_leaf (routes u64::MAX).
EndLeaf(P, r, dir) ==
    IF dir = "desc" THEN LeafFor(P, r, MaxId + 1)
    ELSE Last(Follow([p \in PageNo |-> IF P[p].kind = "branch" THEN P[p].kids[1] ELSE 0], r, MaxPages))

\* The leaf chain from p, in scan direction.
Chain(P, p, dir) ==
    Follow([q \in PageNo |-> IF P[q].kind # "leaf" THEN 0
                             ELSE IF dir = "asc" THEN P[q].next ELSE P[q].prev],
           p, MaxPages)

\* Mutant: the trailer is taken for row content.
KeepTrailer(P, e) ==
    LET tail[p \in 0 .. MaxPages] ==
            IF p = 0 \/ P[p].kind # "overflow" THEN 0 ELSE P[p].len + tail[P[p].next]
    IN  IF e.first = 0 THEN e.w ELSE e.w + tail[e.first]
\* reassemble_row: the inline part without its trailer, then the chain.
Reassemble(P, e) ==
    LET tail[p \in 0 .. MaxPages] ==
            IF p = 0 \/ P[p].kind # "overflow" THEN 0 ELSE P[p].len + tail[P[p].next]
    IN  IF e.first = 0 THEN e.w ELSE e.w - Trailer + tail[e.first]

\* BTreeReader::search.
Search(P, r, x) ==
    LET s == P[LeafFor(P, r, x)].rows
        hits == {i \in DOMAIN s : s[i].id = x}
    IN  IF hits = {} THEN 0 ELSE Reassemble(P, s[CHOOSE i \in hits : TRUE])

\* The exclusive resume bound; the mutant makes it inclusive.
AtOrBeyond(x, after, dir) == after = 0 \/ (IF dir = "asc" THEN x >= after ELSE x <= after)
Beyond(x, after, dir) == after = 0 \/ (IF dir = "asc" THEN x > after ELSE x < after)

\* scan_from: walk the chain from the leaf of the exclusive bound (0 = None),
\* collect up to limit rows, and give a resume token only when another
\* candidate was met after the batch was full.
ScanFrom(P, r, after, dir, limit, keep) ==
    LET start == IF after = 0 THEN EndLeaf(P, r, dir) ELSE LeafFor(P, r, after)
        ids(p) == LET s == P[p].rows
                      t == IF dir = "asc" THEN s ELSE Reverse(s)
                  IN  [i \in DOMAIN t |-> t[i].id]
        leaves == Chain(P, start, dir)
        met == FlattenSeq([i \in DOMAIN leaves |-> ids(leaves[i])])
        candidates == Picked(met, {i \in DOMAIN met : Beyond(met[i], after, dir)})
        kept == Picked(candidates, {i \in DOMAIN candidates : candidates[i] \in keep})
        batch == SubSeq(kept, 1, Min({limit, Len(kept)}))
    IN  IF limit = 0 THEN [ids |-> <<>>, last |-> 0]
        ELSE [ids |-> batch,
              last |-> IF Len(batch) = limit /\ Last(batch) # Last(candidates)
                       THEN Last(batch) ELSE 0]

------------------------------------------------------------------------------
(* Writing *)

Weight(s) == LET sum[n \in 0 .. Len(s)] == IF n = 0 THEN 0 ELSE sum[n - 1] + s[n].w
             IN  sum[Len(s)]
Fits(s) == Weight(s) <= Cap

\* write_overflow_row: the chain is built from its last chunk to its first.
Spill(t, x, size) ==
    IF size <= Cap THEN [t |-> t, entry |-> [id |-> x, w |-> size, first |-> 0]]
    ELSE LET rest == size - (Cap - Trailer)
             n == (rest + Payload - 1) \div Payload
             chunk(j) == OverflowPage(IF j = 0 THEN rest - (n - 1) * Payload ELSE Payload,
                                      IF j = 0 THEN 0 ELSE t.free + j - 1)
         IN  [t |-> [t EXCEPT !.pages = [p \in PageNo |->
                                           IF p \in t.free .. t.free + n - 1
                                           THEN chunk(p - t.free) ELSE @[p]],
                              !.free = @ + n],
              entry |-> [id |-> x, w |-> Cap, first |-> t.free + n - 1]]

\* Mutant: the middle, as for a plain split.
Middle(s) == Len(s) \div 2
\* find_overflow_split_point: the longest left part that fits, if the right
\* part fits too; else the first point where both fit; else the middle.
OverflowSplitPoint(s) ==
    LET mids == 1 .. Len(s) - 1
        Left(m) == SubSeq(s, 1, m)
        Right(m) == SubSeq(s, m + 1, Len(s))
        longest == {m \in mids : Fits(Left(m))}
        best == IF longest = {} THEN 1 ELSE CHOOSE m \in longest : \A k \in longest : k <= m
        both == {m \in mids : Fits(Left(m)) /\ Fits(Right(m))}
    IN  IF Fits(Right(best)) THEN best
        ELSE IF both # {} THEN CHOOSE m \in both : \A k \in both : m <= k
        ELSE Len(s) \div 2

\* A plain split halves the rows by number.
SplitPoint(s, overflowing) == IF overflowing THEN OverflowSplitPoint(s) ELSE Len(s) \div 2

\* Mutant: the old neighbour keeps its prev.
NoFixup(P, p, q, left, right) ==
    [P EXCEPT ![p] = LeafPage(left, P[p].prev, q), ![q] = LeafPage(right, p, P[p].next)]
\* The right half goes to page q, linked in after page p; the old neighbour's
\* prev is fixed up.
SplitLeaf(P, p, q, left, right) ==
    LET next == P[p].next
    IN  [n \in PageNo |-> CASE n = p -> LeafPage(left, P[p].prev, q)
                            [] n = q -> LeafPage(right, p, next)
                            [] n = next -> [P[n] EXCEPT !.prev = q]
                            [] OTHER -> P[n]]

\* write_leaf_with_insert: the new entry at the place find_insertion_point gives.
WithInsert(s, e) == InsertAt(s, FirstOf(Len(s), {i \in DOMAIN s : s[i].id >= e.id}), e)

\* write_leaf_range copies a half without comparing it with the room left: only
\* past the end of the page does it panic.
Overruns(s) == Weight(s) > Cap + Checksum

\* update_checksum writes over the bytes before the end of the page, where a half
\* that does not fit has the end of its last row.
Torn(P) == {Last(P[p].rows).id : p \in {p \in PageNo : P[p].kind = "leaf" /\ ~Fits(P[p].rows)}}

\* insert_into_leaf on page p.  `up' is what the parent has to add, if the leaf
\* was split; `bad' is the leaf whose half runs past the end of its page, if one
\* does.
IntoLeaf(t0, p, x, size) ==
    LET old == t0.pages[p]
        sp == Spill(t0, x, size)
        t == sp.t
        all == WithInsert(old.rows, sp.entry)
        mid == SplitPoint(all, size > Cap)
        left == SubSeq(all, 1, mid)
        right == SubSeq(all, mid + 1, Len(all))
    IN  IF Fits(all)
        THEN [t |-> [t EXCEPT !.pages[p].rows = all], up |-> <<>>, bad |-> <<>>]
        ELSE IF Overruns(left) \/ Overruns(right)
        THEN [t |-> t, up |-> <<>>, bad |-> <<[leaf |-> all, overflowing |-> size > Cap]>>]
        ELSE [t |-> [t EXCEPT !.pages = SplitLeaf(@, p, t.free, left, right), !.free = @ + 1],
              up |-> <<[key |-> right[1].id, page |-> t.free]>>, bad |-> <<>>]

\* A writer's result: the tree, the leaf that could not be split, if any, and the
\* rows a checksum has cut into.
Done(t) == [tree |-> t, bad |-> <<>>, cut |-> Torn(t.pages)]
\* Bound: no operation allocates beyond the last page number.
Outgrown(t) == t.free > MaxPages + 1

\* BTreeWriter::insert of an absent row: down the path, splits back up, and a
\* new root when the old one was split.
TreeInsert(t, x, size) ==
    LET path == PathTo(t.pages, t.root, x)
        leaf == IntoLeaf(t, Last(path), x, size)
    IN  IF leaf.bad # <<>> THEN [tree |-> t, bad |-> leaf.bad, cut |-> {}]
        ELSE Done(Grown([t |-> leaf.t, up |-> leaf.up], path,
                        [i \in DOMAIN path |-> ChildIndex(t.pages[path[i]], x)], MaxKeys))

Without(s, S) == Picked(s, {i \in DOMAIN s : s[i].id \notin S})

\* BTreeWriter::delete: the row leaves its leaf; nothing is merged and overflow
\* pages are leaked.
TreeDelete(t, x) == [t EXCEPT !.pages[LeafFor(t.pages, t.root, x)].rows = Without(@, {x})]

\* update and update_where: delete, then insert under the same id.
TreeReplace(t, x, size) == TreeInsert(TreeDelete(t, x), x, size)

\* delete_matching and update_matching walk the whole leaf chain.  Which rows
\* match is the caller's choice here: the code evaluates the predicate on the
\* bytes in the leaf, of an overflowing row the inline part and its trailer.
AllLeaves(t) == LET s == Chain(t.pages, EndLeaf(t.pages, t.root, "asc"), "asc")
                IN  {s[i] : i \in DOMAIN s}

TreeDeleteWhere(t, S) ==
    LET L == AllLeaves(t)
    IN  [t EXCEPT !.pages = [p \in PageNo |->
            IF p \in L THEN [t.pages[p] EXCEPT !.rows = Without(@, S)] ELSE t.pages[p]]]

Replaced(s, S, size) ==
    [i \in DOMAIN s |-> IF s[i].id \in S THEN [id |-> s[i].id, w |-> size, first |-> 0] ELSE s[i]]

\* update_matching: in each leaf all matching rows are patched in place, or none
\* if they would not fit.
InPlace(t, S, size) == {p \in AllLeaves(t) : Fits(Replaced(t.pages[p].rows, S, size))}
Ascending(S) == Picked([x \in Ids |-> x], S)
\* The rows it leaves to its caller, in id order.
Moved(t, S, size) ==
    Ascending(S \cap UNION {{t.pages[p].rows[i].id : i \in DOMAIN t.pages[p].rows}
                               : p \in AllLeaves(t) \ InPlace(t, S, size)})

\* update_where: those are then deleted and re-inserted.
TreeUpdateWhere(t, S, size) ==
    LET here == InPlace(t, S, size)
        patched == [t EXCEPT !.pages = [p \in PageNo |->
                       IF p \in here THEN [t.pages[p] EXCEPT !.rows = Replaced(@, S, size)]
                       ELSE t.pages[p]]]
        moved == Moved(t, S, size)
        after[n \in 0 .. Len(moved)] ==
            IF n = 0 THEN Done(patched)
            ELSE IF after[n - 1].bad # <<>> \/ Outgrown(after[n - 1].tree) THEN after[n - 1]
            ELSE [TreeReplace(after[n - 1].tree, moved[n], size)
                    EXCEPT !.cut = @ \cup (after[n - 1].cut \ {moved[n]})]
    IN  after[Len(moved)]

------------------------------------------------------------------------------
NoScan == [at |-> "idle"]
Tree == [pages |-> pages, free |-> free, root |-> root]

\* create: one empty leaf.
Init ==
    /\ pages = [p \in PageNo |-> IF p = 1 THEN LeafPage(<<>>, 0, 0) ELSE Unused]
    /\ free = 2 /\ root = 1
    /\ rows = [x \in Ids |-> 0] /\ index = NewIndex
    /\ panicked = <<>> /\ altered = {}
    /\ scan = NoScan
    /\ load \in Workloads

\* Bound: MaxPages - load.grow is more than any one operation allocates.
Room == free <= load.grow /\ index.free <= load.grow

Indexed == load.order = "index"

\* Mutant: the old key stays when the row changes.
KeepOldKey(present, touched) ==
    LET add(t, x) == IF present[x] = 0 THEN IndexDelete(t, <<rows[x], x>>) ELSE IndexInsert(t, <<present[x], x>>)
        after[n \in 0 .. Len(touched)] == IF n = 0 THEN index ELSE add(after[n - 1], touched[n])
    IN  IF Indexed THEN after[Len(touched)] ELSE index
\* index_update_row for each row touched: its old key out, its new key in.
Reindexed(present, touched) ==
    LET drop(t, x) == IF rows[x] = 0 THEN t ELSE IndexDelete(t, <<rows[x], x>>)
        add(t, x) == IF present[x] = 0 THEN t ELSE IndexInsert(t, <<present[x], x>>)
        after[n \in 0 .. Len(touched)] ==
            IF n = 0 THEN index
            ELSE IF IndexOutgrown(after[n - 1]) THEN after[n - 1]
            ELSE add(drop(after[n - 1], touched[n]), touched[n])
    IN  IF Indexed THEN after[Len(touched)] ELSE index

\* Where a scan meets the rows of keep: at their ids, or at their index keys.
Positions(present, keep) ==
    LET ids == {x \in keep : present[x] # 0}
    IN  IF Indexed THEN {<<present[x], x>> : x \in ids} ELSE ids

\* Install the tree an operation produced, with the index entries of the rows
\* it touched, in that order.  A page copied past its end panics:
\* the operation never commits, and the poisoned write mutex stops every later
\* writer.  An altered row stays so until it is deleted: an update merges the new
\* values into the bytes it reads.
Apply(result, present, touched) ==
    \E t \in {result.tree}, ix \in {Reindexed(present, touched)} :
        /\ panicked' = result.bad
        /\ ~Outgrown(t) /\ ~IndexOutgrown(ix)
        /\ IF result.bad = <<>>
           THEN /\ pages' = t.pages /\ free' = t.free /\ root' = t.root
                /\ rows' = present
                /\ altered' = {x \in Ids : x \in altered \cup result.cut /\ present[x] # 0}
                /\ index' = ix
                /\ scan' = IF scan.at = "idle" THEN scan
                           ELSE [scan EXCEPT !.must = @ \cap Positions(present, Ids)]
           ELSE UNCHANGED <<pages, free, root, rows, index, altered, scan>>

Present == {x \in Ids : rows[x] # 0}
Live == panicked = <<>>

\* insert / insert_with_id.
Insert(x, size) ==
    /\ Live /\ Room /\ x \notin Present
    /\ Apply(TreeInsert(Tree, x, size), [rows EXCEPT ![x] = size], <<x>>)

Delete(x) ==
    /\ Live /\ x \in Present
    /\ Apply(Done(TreeDelete(Tree, x)), [rows EXCEPT ![x] = 0], <<x>>)

Update(x, size) ==
    /\ Live /\ Room /\ x \in Present
    /\ Apply(TreeReplace(Tree, x, size), [rows EXCEPT ![x] = size], <<x>>)

UpdateWhere(S, size) ==
    /\ load.bulk /\ Live /\ Room /\ S # {} /\ S \subseteq Present
    /\ LET moved == Moved(Tree, S, size)
       IN  Apply(TreeUpdateWhere(Tree, S, size), [x \in Ids |-> IF x \in S THEN size ELSE rows[x]],
                 Ascending(S \ ToSet(moved)) \o moved)

DeleteWhere(S) ==
    /\ load.bulk /\ Live /\ S # {} /\ S \subseteq Present
    /\ Apply(Done(TreeDeleteWhere(Tree, S)), [x \in Ids |-> IF x \in S THEN 0 ELSE rows[x]], Ascending(S))

\* A client starts paging: `must' is what it has to be shown.
StartScan(dir, limit, keep) ==
    /\ Live /\ scan.at = "idle"
    /\ scan' = [at |-> "open", dir |-> dir, limit |-> limit, keep |-> keep,
                after |-> IF Indexed THEN <<>> ELSE 0, seen |-> <<>>, must |-> Positions(rows, keep)]
    /\ UNCHANGED <<pages, free, root, rows, index, altered, panicked>>

\* scan_batch in row order: one scan_from under the table read lock.
ScanBatch ==
    /\ Live /\ ~Indexed /\ scan.at = "open"
    /\ LET b == ScanFrom(pages, root, scan.after, scan.dir, scan.limit, scan.keep)
       IN  scan' = [scan EXCEPT !.seen = @ \o b.ids, !.after = b.last,
                                !.at = IF b.last = 0 THEN "done" ELSE "open"]
    /\ UNCHANGED <<pages, free, root, rows, index, altered, panicked>>

\* scan_batch in index order: one scan_from_key, each key's row looked up in the
\* table and tested; the token is the last key, shown or not, and there is none
\* when the index gave fewer keys than asked for.
ScanIndexBatch ==
    /\ Live /\ Indexed /\ scan.at = "open"
    /\ LET keys == ScanFromKey(index, scan.after, scan.dir, scan.limit)
           shown == Picked(keys, {i \in DOMAIN keys : Search(pages, root, keys[i][2]) # 0
                                                       /\ keys[i][2] \in scan.keep})
           last == IF Len(keys) < scan.limit THEN <<>> ELSE Last(keys)
       IN  scan' = [scan EXCEPT !.seen = @ \o shown, !.after = last,
                                !.at = IF last = <<>> THEN "done" ELSE "open"]
    /\ UNCHANGED <<pages, free, root, rows, index, altered, panicked>>

EndScan ==
    /\ scan.at = "done"
    /\ scan' = NoScan
    /\ UNCHANGED <<pages, free, root, rows, index, altered, panicked>>

Change == \/ \E x \in load.ids : Delete(x) \/ \E size \in load.sizes : Insert(x, size) \/ Update(x, size)
          \/ \E S \in SUBSET load.ids : DeleteWhere(S) \/ \E size \in load.sizes : UpdateWhere(S, size)

Page == \/ \E dir \in {"asc", "desc"}, limit \in load.limits, keep \in {Ids, {x \in Ids : x % 2 = 0}} :
              StartScan(dir, limit, keep)
        \/ ScanBatch \/ ScanIndexBatch \/ EndScan

Next == (Change \/ Page) /\ UNCHANGED load

Spec == Init /\ [][Next]_vars

------------------------------------------------------------------------------
(* Properties *)

\* Every reachable page, with the number of steps from the root; a path meets
\* each branch page at most once.
Branches == {p \in PageNo : pages[p].kind = "branch"}
Depth ==
    LET d[n \in 0 .. Cardinality(Branches)] ==
            IF n = 0 THEN {<<root, 0>>}
            ELSE d[n - 1] \cup UNION {{<<pages[q[1]].kids[i], q[2] + 1>> : i \in DOMAIN pages[q[1]].kids}
                                        : q \in {q \in d[n - 1] : q[1] \in Branches}}
    IN  d[Cardinality(Branches)]
Reachable == {q[1] : q \in Depth}
Leaves == {p \in Reachable : pages[p].kind = "leaf"}
LeafIds(p) == {pages[p].rows[i].id : i \in DOMAIN pages[p].rows}

\* Types of the variables.
TypeOK ==
    /\ DOMAIN pages = PageNo /\ root \in PageNo /\ free \in 2 .. MaxPages + 1
    /\ load \in Workloads /\ rows \in [Ids -> load.sizes \cup {0}]
    /\ scan.at \in {"idle", "open", "done"} /\ altered \subseteq Ids
    /\ \A p \in PageNo : (pages[p] = Unused) = (p >= free)

\* search, get and every point lookup find exactly the rows the operations
\* left, and those no checksum was written over with their whole content
\* reassembled from the overflow chain, through any sequence of leaf, branch and
\* root splits.
LookupsExact ==
    \A x \in Ids : LET found == Search(pages, root, x)
                   IN  IF x \in altered THEN found # 0 ELSE found = rows[x]

\* All leaves are equally deep, each page is referenced once, and each row lies
\* in the leaf its separators lead to.
SearchTree ==
    /\ LET d == Depth
       IN  \A q, s \in d : /\ pages[q[1]].kind = "leaf" /\ pages[s[1]].kind = "leaf" => q[2] = s[2]
                           /\ q[1] = s[1] => q = s
    /\ \A p \in Leaves : \A x \in LeafIds(p) : LeafFor(pages, root, x) = p
    /\ \A p \in Reachable \cap Branches :
          /\ Len(pages[p].kids) = Len(pages[p].keys) + 1
          /\ \A q \in Reachable \cap Branches : \A i \in DOMAIN pages[p].kids, j \in DOMAIN pages[q].kids :
                pages[p].kids[i] = pages[q].kids[j] => p = q /\ i = j

\* The leaf chain, read forwards from the leftmost leaf and backwards from the
\* rightmost, visits every leaf once, in the same order, with ascending ids:
\* split fixes up next, prev and the old neighbour's prev together.
ChainIntact ==
    LET fwd == Chain(pages, EndLeaf(pages, root, "asc"), "asc")
        bwd == Chain(pages, EndLeaf(pages, root, "desc"), "desc")
        ids == FlattenSeq([i \in DOMAIN fwd |-> [j \in DOMAIN pages[fwd[i]].rows |->
                                                   pages[fwd[i]].rows[j].id]])
    IN  /\ Len(fwd) = Cardinality(Leaves) /\ {fwd[i] : i \in DOMAIN fwd} = Leaves
        /\ bwd = Reverse(fwd)
        /\ \A i, j \in DOMAIN ids : i < j => ids[i] < ids[j]

\* Paging with scan_batch in either direction, by row or by index, shows every
\* matching row that stayed in the table, and in the index under the same key,
\* once, in order, however leaves split, empty or lose the resume row between
\* two batches.
ScanTiles ==
    LET precedes(a, b) == IF Indexed THEN Before(a, b) ELSE a < b
    IN  scan.at # "idle" =>
            /\ \A i, j \in DOMAIN scan.seen : i < j =>
                  IF scan.dir = "asc" THEN precedes(scan.seen[i], scan.seen[j])
                  ELSE precedes(scan.seen[j], scan.seen[i])
            /\ scan.at = "done" => scan.must \subseteq ToSet(scan.seen)

\* scan_prefix, count_prefix and scan_prefix_limit give exactly the rows with
\* that value, in id order, through every split of the index and with keys that
\* came and went: no separator leads past a key and no stale key is left.
IndexLookupsExact ==
    Indexed => \A v \in load.sizes :
        LET ids == Ascending({x \in Ids : rows[x] = v})
            keys == [i \in DOMAIN ids |-> <<v, ids[i]>>]
        IN  /\ ScanPrefix(index, v, MaxId) = keys
            /\ CountPrefix(index, v) = Len(keys)
            /\ \A max \in 1 .. MaxId : ScanPrefix(index, v, max) = SubSeq(keys, 1, Min({max, Len(keys)}))

\* When storing an overflowing row fails, there was no way to cut the leaf in
\* two: find_overflow_split_point misses no valid split point.
OverflowSplitComplete ==
    \A i \in DOMAIN panicked : panicked[i].overflowing =>
        LET s == panicked[i].leaf
        IN  \A m \in 1 .. Len(s) - 1 : ~(Fits(SubSeq(s, 1, m)) /\ Fits(SubSeq(s, m + 1, Len(s))))
=============================================================================
