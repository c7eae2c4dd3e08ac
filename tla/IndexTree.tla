------------------------------- MODULE IndexTree -------------------------------
(***************************************************************************)
(* The B+ tree of one index (index.rs): its pages hold keys instead of     *)
(* rows.  A key is <<value, row id>>, the order of tuples that of the      *)
(* encoded bytes; a bare prefix is <<value, 0>>, before all of its keys.   *)
(* Keys have one length, as those of an Integer or Real column, so a leaf  *)
(* holds IndexCap of them, and are no longer than the 36 bytes a branch    *)
(* page keeps of a separator.                                              *)
(*                                                                         *)
(* A tree is a record [pages, free, root]; the operators map trees to      *)
(* trees and to the answers of the readers.  The page numbers are the      *)
(* tree's own: that allocate_page hands out a number once is PageStore's   *)
(* subject.                                                                *)
(***************************************************************************)
EXTENDS BPlusTree

CONSTANTS IndexCap,    \* keys a leaf page holds
          IndexKeys,   \* separators a branch page holds
          IndexPages   \* bound: page numbers are 1 .. IndexPages

ASSUME IndexAssumption == IndexCap \in Nat \ {0} /\ IndexKeys \in Nat \ {0} /\ IndexPages \in Nat \ {0}

IndexPage == 1 .. IndexPages

IndexLeaf(s, prev, next) == [kind |-> "leaf", keys |-> s, prev |-> prev, next |-> next]

\* IndexTreeWriter::create: one empty leaf.
NewIndex == [pages |-> [p \in IndexPage |-> IF p = 1 THEN IndexLeaf(<<>>, 0, 0) ELSE Unused],
             free |-> 2, root |-> 1]

Before(a, b) == a[1] < b[1] \/ (a[1] = b[1] /\ a[2] < b[2])

\* find_idx_child: the first separator above the key, else the last child.
IndexChild(b, k) == FirstOf(Len(b.keys), {i \in DOMAIN b.keys : Before(k, b.keys[i])})

\* The pages from the root to the leaf that holds, or would hold, key k.
IndexPath(t, k) ==
    Follow([p \in IndexPage |-> IF t.pages[p].kind = "branch"
                                THEN t.pages[p].kids[IndexChild(t.pages[p], k)] ELSE 0],
           t.root, IndexPages)
FindLeafForKey(t, k) == Last(IndexPath(t, k))

\* find_leftmost_leaf and find_rightmost_leaf.
IndexEnd(t, dir) ==
    Last(Follow([p \in IndexPage |-> IF t.pages[p].kind # "branch" THEN 0
                                     ELSE IF dir = "asc" THEN t.pages[p].kids[1]
                                     ELSE Last(t.pages[p].kids)],
                t.root, IndexPages))

\* The keys met on the way from leaf p to the end of the chain.
KeysFrom(t, p, dir) ==
    LET leaves == Follow([q \in IndexPage |-> IF t.pages[q].kind # "leaf" THEN 0
                                              ELSE IF dir = "asc" THEN t.pages[q].next
                                              ELSE t.pages[q].prev],
                         p, IndexPages)
        read(q) == IF dir = "asc" THEN t.pages[q].keys ELSE Reverse(t.pages[q].keys)
    IN  FlattenSeq([i \in DOMAIN leaves |-> read(leaves[i])])

\* scan_prefix, and with a bound scan_prefix_limit: from the leaf of the prefix
\* along the chain, the first run of keys with the prefix.
ScanPrefix(t, v, max) ==
    LET met == KeysFrom(t, FindLeafForKey(t, <<v, 0>>), "asc")
        hits == {i \in DOMAIN met : met[i][1] = v}
        run == {i \in hits : \A j \in hits, n \in DOMAIN met : j < n /\ n < i => n \in hits}
    IN  IF hits = {} THEN <<>>
        ELSE SubSeq(met, Min(hits), Min({Max(run), Min(hits) + max - 1}))
CountPrefix(t, v) == Len(ScanPrefix(t, v, IndexPages * IndexCap))

\* The exclusive bound of scan_from_key.
PastBound(k, after, dir) == after = <<>> \/ (IF dir = "asc" THEN Before(after, k) ELSE Before(k, after))

\* scan_from_key: up to limit keys past the bound (<<>> = None), from the leaf
\* the bound leads to.
ScanFromKey(t, after, dir, limit) ==
    LET start == IF after = <<>> THEN IndexEnd(t, dir) ELSE FindLeafForKey(t, after)
        met == KeysFrom(t, start, dir)
        past == Picked(met, {i \in DOMAIN met : PastBound(met[i], after, dir)})
    IN  SubSeq(past, 1, Min({limit, Len(past)}))

------------------------------------------------------------------------------
(* Writing *)

\* Bound: no operation allocates beyond the last page number.
IndexOutgrown(t) == t.free > IndexPages + 1

\* The separator of a split leaf: the first key of its right half.
Separator(left, right) == right[1]

\* insert_into_leaf: into its place, or the leaf is halved by number, the right
\* half linked in on a new page and the old neighbour's prev set to it.
IntoIndexLeaf(t, p, k) ==
    LET old == t.pages[p]
        at == FirstOf(Len(old.keys), {i \in DOMAIN old.keys : ~Before(old.keys[i], k)})
        all == InsertAt(old.keys, at, k)
        mid == Len(all) \div 2
        left == SubSeq(all, 1, mid)
        right == SubSeq(all, mid + 1, Len(all))
        linked == [n \in IndexPage |-> CASE n = p -> IndexLeaf(left, old.prev, t.free)
                                         [] n = t.free -> IndexLeaf(right, p, old.next)
                                         [] n = old.next -> [t.pages[n] EXCEPT !.prev = t.free]
                                         [] OTHER -> t.pages[n]]
    IN  IF Len(all) <= IndexCap
        THEN [t |-> [t EXCEPT !.pages[p].keys = all], up |-> <<>>]
        ELSE [t |-> [t EXCEPT !.pages = linked, !.free = @ + 1],
              up |-> <<[key |-> Separator(left, right), page |-> t.free]>>]

\* IndexTreeWriter::insert: down the path, splits back up, a new root over a
\* split one.
IndexInsert(t, k) ==
    LET path == IndexPath(t, k)
    IN  Grown(IntoIndexLeaf(t, Last(path), k), path,
              [i \in DOMAIN path |-> IndexChild(t.pages[path[i]], k)], IndexKeys)

\* IndexTreeWriter::delete: the key leaves its leaf; pages are never merged.
IndexDelete(t, k) ==
    [t EXCEPT !.pages[FindLeafForKey(t, k)].keys = Picked(@, {i \in DOMAIN @ : @[i] # k})]
=============================================================================
