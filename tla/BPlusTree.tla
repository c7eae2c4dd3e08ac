------------------------------- MODULE BPlusTree -------------------------------
(***************************************************************************)
(* What the row tree (btree.rs) and the index tree (index.rs) do alike:    *)
(* walks along page numbers, the entries of a page that match, and the way *)
(* back up from a split leaf.  A tree is a record [pages, free, root]: its *)
(* pages by number, the next page number allocate_page returns, and the    *)
(* root page.  A walk, a selection or a sum is a recursive function rather *)
(* than a fold, so that the proofs can unfold it.                          *)
(***************************************************************************)
EXTENDS Integers, Sequences, FiniteSets, SequencesExt

Unused == [kind |-> "unused"]
BranchPage(kids, keys) == [kind |-> "branch", kids |-> kids, keys |-> keys]

\* The first place of a page with n entries at which `above' holds, or the
\* place after its last entry.
FirstOf(n, above) == IF above = {} THEN n + 1 ELSE Min(above)

\* The pages met from p on by following link (0 = none), at most n of them.
Follow(link, p, n) ==
    LET walk[k \in 1 .. n] == [q \in DOMAIN link |-> IF k = 1 \/ link[q] = 0 THEN <<q>>
                                                    ELSE <<q>> \o walk[k - 1][link[q]]]
    IN  walk[n][p]

\* The entries of s at the places in I.
Picked(s, I) ==
    LET pick[n \in 0 .. Len(s)] ==
            IF n = 0 THEN <<>> ELSE IF n \in I THEN Append(pick[n - 1], s[n]) ELSE pick[n - 1]
    IN  pick[Len(s)]

\* insert_into_branch on page p, of at most max separators: its child number i
\* was split.  A result is [t, up]: the tree, and what the parent has to add.
IntoBranch(r, p, i, max) ==
    LET t == r.t
        keys == InsertAt(t.pages[p].keys, i, r.up[1].key)
        kids == InsertAt(t.pages[p].kids, i + 1, r.up[1].page)
        mid == Len(keys) \div 2 + 1
    IN  IF Len(keys) <= max
        THEN [t |-> [t EXCEPT !.pages[p] = BranchPage(kids, keys)], up |-> <<>>]
        ELSE [t |-> [t EXCEPT !.pages[p] = BranchPage(SubSeq(kids, 1, mid), SubSeq(keys, 1, mid - 1)),
                              !.pages[t.free] = BranchPage(SubSeq(kids, mid + 1, Len(kids)),
                                                           SubSeq(keys, mid + 1, Len(keys))),
                              !.free = @ + 1],
              up |-> <<[key |-> keys[mid], page |-> t.free]>>]

\* Mutant: the new root's page is used but not counted as allocated.
RootNotAllocated(t, up) ==
    [t EXCEPT !.pages[t.free] = BranchPage(<<t.root, up.page>>, <<up.key>>), !.root = t.free]
\* The root was split: a new root over the two halves.
NewRoot(t, up) ==
    [t EXCEPT !.pages[t.free] = BranchPage(<<t.root, up.page>>, <<up.key>>),
              !.root = t.free, !.free = @ + 1]

\* insert_recursive, from the result at the leaf back up the path: slot[i] is
\* the child number the search took on page path[i].
Climb(leaf, path, slot, max) ==
    LET climb[h \in 0 .. Len(path) - 1] ==
            IF h = 0 THEN leaf
            ELSE LET below == climb[h - 1]
                 IN  IF below.up = <<>> THEN below
                     ELSE IntoBranch(below, path[Len(path) - h], slot[Len(path) - h], max)
    IN  climb[Len(path) - 1]

\* insert, once the leaf has changed.
Grown(leaf, path, slot, max) ==
    LET top == Climb(leaf, path, slot, max)
    IN  IF top.up = <<>> THEN top.t ELSE NewRoot(top.t, top.up[1])
=============================================================================
