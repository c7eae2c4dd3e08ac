------------------------------- MODULE SmallTree -------------------------------
(***************************************************************************)
(* The row tree of btree.rs, as far as its callers in db.rs depend on it:  *)
(* which pages a write touches, how many it allocates, and which page is   *)
(* the root afterwards; reads are searches by id.  Rows carry only their   *)
(* id.  A tree is one leaf, or a branch over leaves.  Row sizes, overflow  *)
(* chains, scans and deeper trees are the module BTree's.                  *)
(***************************************************************************)
EXTENDS Integers, Sequences, FiniteSets

CONSTANT Cap    \* rows a leaf holds

ASSUME CapAssumption == Cap \in Nat \ {0}

Hole == [rows |-> {}, kids |-> <<>>, keys |-> <<>>]
Leaf(R) == [rows |-> R, kids |-> <<>>, keys |-> <<>>]
Branch(K, S) == [rows |-> {}, kids |-> K, keys |-> S]
IsLeaf(c) == c.kids = <<>>

(* The tree operations, on a view v of the pages. *)

Smallest(R, n) == {x \in R : Cardinality({y \in R : y < x}) < n}
Least(R) == CHOOSE x \in R : \A y \in R : x <= y

\* find_child: the first separator above the row id, else the last child.
ChildIndex(c, x) == IF \E i \in DOMAIN c.keys : x < c.keys[i]
                    THEN CHOOSE i \in DOMAIN c.keys :
                            x < c.keys[i] /\ \A j \in 1 .. i - 1 : x >= c.keys[j]
                    ELSE Len(c.kids)

LeafOf(v, r, x) == IF IsLeaf(v[r]) THEN r ELSE v[r].kids[ChildIndex(v[r], x)]

\* The rows that a search by id finds below a root: each lies in the leaf its
\* separators lead to.  Scans follow next_leaf from the leftmost leaf instead and
\* find the same rows below a table's current root; below a leaf that was the root
\* until it was split (what open finds in page 0 after a crash) they also reach the
\* leaves split off from it, which no search by id does.
RowsFrom(v, r) == v[r].rows \cup UNION {v[v[r].kids[i]].rows : i \in DOMAIN v[r].kids}
\* The pages below a root.
PagesFrom(v, r) == {r} \cup {v[r].kids[i] : i \in DOMAIN v[r].kids}

\* Pages w over a view v: the overlay of a write guard, or a commit.
Over(w, v) == [p \in DOMAIN w \cup DOMAIN v |-> IF p \in DOMAIN w THEN w[p] ELSE v[p]]

InsertAt(s, i, e) == SubSeq(s, 1, i - 1) \o <<e>> \o SubSeq(s, i, Len(s))

\* BTreeWriter::insert of row x under root r; f is the next free page number.
\* Gives the pages written, the number allocated and the new root.
TreeInsert(v, r, x, f) ==
    LET leaf == LeafOf(v, r, x)
        all == v[leaf].rows \cup {x}
        low == Smallest(all, Cardinality(all) \div 2)
        high == all \ low
    IN  IF Cardinality(all) <= Cap
        THEN [writes |-> [p \in {leaf} |-> Leaf(all)], allocated |-> 0, root |-> r]
        ELSE IF leaf = r
        THEN [writes |-> [p \in {r, f, f + 1} |->
                            IF p = r THEN Leaf(low) ELSE IF p = f THEN Leaf(high)
                            ELSE Branch(<<r, f>>, <<Least(high)>>)],
              allocated |-> 2, root |-> f + 1]
        ELSE LET i == ChildIndex(v[r], x)
             IN  [writes |-> [p \in {leaf, f, r} |->
                                IF p = leaf THEN Leaf(low) ELSE IF p = f THEN Leaf(high)
                                ELSE Branch(InsertAt(v[r].kids, i + 1, f), InsertAt(v[r].keys, i, Least(high)))],
                  allocated |-> 1, root |-> r]

\* BTreeWriter::delete: the leaf loses the row; nothing is merged.
TreeDelete(v, r, x) ==
    LET leaf == LeafOf(v, r, x)
    IN  [writes |-> [p \in {leaf} |-> Leaf(v[leaf].rows \ {x})], allocated |-> 0, root |-> r]
==============================================================================
