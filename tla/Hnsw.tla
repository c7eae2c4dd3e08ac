---------------------------------- MODULE Hnsw ----------------------------------
(***************************************************************************)
(* The layered proximity graph of vector/hnsw.rs over a file image:        *)
(* greedy descent, beam search, neighbour selection and the insert that    *)
(* computes which neighbour lists change.                                  *)
(*                                                                         *)
(* Instances are smaller than the beam: ef_construction and ef_search are  *)
(* above the number of nodes, so a beam never evicts a result or stops     *)
(* early, and a beam search visits all that is reachable.  Distances from  *)
(* one point are pairwise different in the instances, so the order among   *)
(* equal distances, which the heaps leave open, never matters.             *)
(***************************************************************************)
EXTENDS VecFile

Position(m, n) == IF m.slot[n][1] = "vector" THEN m.slot[n][2] ELSE 0
Distance(x, y) == IF x < y THEN y - x ELSE x - y
DistanceTo(m, n, q) == Distance(Position(m, n), q)

\* Nodes in order of their distance from q.
Closer(m, q, a, b) == \/ DistanceTo(m, a, q) < DistanceTo(m, b, q)
                      \/ DistanceTo(m, a, q) = DistanceTo(m, b, q) /\ a < b
ByDistance(m, S, q) == SetToSortSeq(S, LAMBDA a, b : Closer(m, q, a, b))

\* The walk of search_upper_layers on one layer: move to the closest neighbour
\* that is not deleted as long as that is closer.
RECURSIVE Greedy(_, _, _, _)
Greedy(m, n, q, layer) ==
    LET near == {s \in ToSet(Neighbors(m, n, layer)) \ m.dead : DistanceTo(m, s, q) < DistanceTo(m, n, q)}
    IN  IF near = {} THEN n ELSE Greedy(m, ByDistance(m, near, q)[1], q, layer)

\* search_upper_layers: layers top down to target + 1.
RECURSIVE Descend(_, _, _, _, _)
Descend(m, n, q, top, target) ==
    IF top <= target THEN n ELSE Descend(m, Greedy(m, n, q, top), q, top - 1, target)

RECURSIVE Reach(_, _, _)
Reach(m, S, layer) ==
    LET new == UNION {ToSet(Neighbors(m, n, layer)) : n \in S} \ S
    IN  IF new = {} THEN S ELSE Reach(m, S \cup new, layer)

\* search_layer: deleted nodes are walked through and not returned.
SearchLayer(m, ep, q, layer, allowed) == ByDistance(m, (Reach(m, {ep}, layer) \ m.dead) \cap allowed, q)

\* select_neighbors: in order of distance, those closer to the node than to any
\* one selected before; then the closest others, up to max.
SelectNeighbors(m, cands, q, max) ==
    LET diverse(sel, c) == \A s \in ToSet(sel) : Distance(Position(m, c), Position(m, s)) >= DistanceTo(m, c, q)
        first == FoldLeft(LAMBDA sel, c : IF Len(sel) < max /\ diverse(sel, c) THEN Append(sel, c) ELSE sel,
                          <<>>, cands)
    IN  FoldLeft(LAMBDA sel, c : IF Len(sel) < max /\ c \notin ToSet(sel) THEN Append(sel, c) ELSE sel,
                 first, cands)

\* prune_neighbors: deleted ones out, then the same selection.
Prune(m, n, s, max) ==
    SelectNeighbors(m, ByDistance(m, ToSet(s) \ m.dead, Position(m, n)), Position(m, n), max)

\* Mutant: only the new node's own list is written.
OneWay(m, n, layer, selected) == <<>>
\* The lists of the selected nodes with the new node added, pruned if too long.
BackLinks(m, n, layer, selected) ==
    LET with(s) == LET old == Neighbors(m, s, layer) IN IF n \in ToSet(old) THEN old ELSE Append(old, n)
        kept(s) == IF Len(with(s)) > LayerCap(layer) THEN Prune(m, s, with(s), LayerCap(layer)) ELSE with(s)
    IN  [i \in DOMAIN selected |-> <<selected[i], layer, kept(selected[i])>>]

\* The loop of insert, from a layer down to 0.  A recycled node that others
\* still link to is found by its own search.
RECURSIVE Connect(_, _, _, _)
Connect(m, n, ep, layer) ==
    LET q == Position(m, n)
        cands == SearchLayer(m, ep, q, layer, Node)
        selected == SelectNeighbors(m, cands, q, M)
        here == <<<<n, layer, selected>>>> \o BackLinks(m, n, layer, selected)
    IN  IF layer = 0 THEN here
        ELSE here \o Connect(m, n, IF cands = <<>> THEN ep ELSE cands[1], layer - 1)

\* insert: the neighbour lists to write, the entry point and the top layer.
GraphInsert(m, n, level) ==
    IF m.h.ep = None
    THEN [links |-> [l \in 1 .. level + 1 |-> <<n, l - 1, <<>>>>], ep |-> n, max |-> level]
    ELSE LET start == Descend(m, m.h.ep, Position(m, n), m.h.max, level)
             top == IF level < m.h.max THEN level ELSE m.h.max
         IN  [links |-> Connect(m, n, start, top),
              ep |-> IF level > m.h.max THEN n ELSE m.h.ep,
              max |-> IF level > m.h.max THEN level ELSE m.h.max]

\* search: descend to layer 0, search there, keep the first k.
GraphSearch(m, q, k, allowed) ==
    LET found == SearchLayer(m, Descend(m, m.h.ep, q, m.h.max, 0), q, 0, allowed)
    IN  SubSeq(found, 1, IF k < Len(found) THEN k ELSE Len(found))
==================================================================================
