--------------------------------- MODULE VecFile ---------------------------------
(***************************************************************************)
(* The mapped file of a vector collection (vector/mmap.rs): vector slots,  *)
(* deleted flags, the node index and the graph records, and the header     *)
(* that VecFile keeps in memory until flush().                             *)
(*                                                                         *)
(* A file image is a record m = [h, slot, dead, index, words].  Vectors    *)
(* have one dimension, so a slot is one 4-byte word: either a vector or,   *)
(* on the free list, the number of the next free node.  The graph area is  *)
(* the flat array of u32 words it is in the file: a record's layers follow *)
(* each other and the records follow each other, so reading a layer that a *)
(* record does not have reads the words of the next record.                *)
(***************************************************************************)
EXTENDS Integers, Sequences, SequencesExt, FiniteSets

CONSTANTS M,          \* links per node and layer; layer 0 has 2 * M
          Capacity,   \* node_capacity of a new file
          MaxNodes,   \* bound: node ids are 0 .. MaxNodes - 1
          GraphWords  \* bound: words of the graph area

ASSUME LayoutAssumption == /\ M \in Nat \ {0, 1} /\ Capacity \in Nat \ {0}
                           /\ MaxNodes \in Nat /\ GraphWords \in Nat

None == -1                \* NONE_U32 and NONE_U64
Wild == MaxNodes          \* the bits of a vector taken for a node number
Node == 0 .. MaxNodes - 1

VectorSlot(x) == <<"vector", x>>
FreeSlot(n) == <<"next", n>>

\* VecFile::create: everything is zero, the node index is NONE.
NewFile == [h |-> [ep |-> None, count |-> 0, max |-> 0, cap |-> Capacity, free |-> None, len |-> 0],
            slot |-> [n \in Node |-> VectorSlot(0)],
            dead |-> {},
            index |-> [n \in Node |-> None],
            words |-> [a \in 0 .. GraphWords - 1 |-> 0]]

------------------------------------------------------------------------------
(* Graph records: max_layer, then for each layer a count and its slots. *)

LayerCap(layer) == IF layer = 0 THEN 2 * M ELSE M
LayerOffset(layer) == IF layer = 0 THEN 1 ELSE 1 + (1 + 2 * M) + (layer - 1) * (1 + M)
RecordSize(maxLayer) == LayerOffset(maxLayer + 1)

\* Overwrite the words from address a on.
Poke(m, a, s) == [m EXCEPT !.words = [b \in DOMAIN @ |->
                                        IF b \in a .. a + Len(s) - 1 THEN s[b - a + 1] ELSE @[b]]]

\* read_neighbors: no record, no neighbours; the count is clamped to the layer's
\* capacity and NONE entries are skipped.  A count of NONE is the largest u32.
Neighbors(m, n, layer) ==
    IF m.index[n] = None THEN <<>>
    ELSE LET a == m.index[n] + LayerOffset(layer)
             c == IF m.words[a] = None \/ m.words[a] > LayerCap(layer)
                  THEN LayerCap(layer) ELSE m.words[a]
         IN  SelectSeq([i \in 1 .. c |-> m.words[a + i]], LAMBDA w : w # None)

\* One layer: its count, its neighbours and NONE in the other slots.
LayerWords(layer, s) == <<Len(s)>> \o [i \in 1 .. LayerCap(layer) |-> IF i <= Len(s) THEN s[i] ELSE None]

\* write_neighbors: nothing happens without a record, and the layer is not
\* compared with the record's max_layer.
WriteNeighbors(m, n, layer, s) ==
    IF m.index[n] = None THEN m ELSE Poke(m, m.index[n] + LayerOffset(layer), LayerWords(layer, s))

\* allocate_graph_record: append at graph_data_len; old records are not reclaimed.
AllocateRecord(m, n, maxLayer) ==
    LET layers == [l \in 1 .. maxLayer + 1 |-> LayerWords(l - 1, <<>>)]
        at == m.h.len
    IN  [Poke(m, at, <<maxLayer>> \o FlattenSeq(layers))
            EXCEPT !.index[n] = at, !.h.len = at + RecordSize(maxLayer)]

------------------------------------------------------------------------------
(* Nodes and their free list. *)

\* Mutant: the head of the free list is handed out again and again.
KeepHead(m) ==
    IF m.h.free # None THEN [m |-> [m EXCEPT !.dead = @ \ {m.h.free}], node |-> m.h.free]
    ELSE [m |-> [m EXCEPT !.h.count = @ + 1], node |-> m.h.count]

\* grow: twice the capacity.  Every region moves and keeps its content, the new
\* node index entries are NONE and the new flags are clear, as all of Node is here.
Grown(m) == [m EXCEPT !.h.cap = 2 * @]

\* allocate_node: the head of the free list, its next read from its vector
\* slot; else the next number, growing the file at the limit.
AllocateNode(m) ==
    LET head == m.h.free
        s == m.slot[head]
        next == IF s[1] = "next" THEN s[2] ELSE Wild
        wide == IF m.h.count >= m.h.cap THEN Grown(m) ELSE m
    IN  IF head # None
        THEN [m |-> [m EXCEPT !.h.free = next, !.dead = @ \ {head}, !.index[head] = None], node |-> head]
        ELSE [m |-> [wide EXCEPT !.h.count = @ + 1], node |-> m.h.count]

WriteVector(m, n, x) == [m EXCEPT !.slot[n] = VectorSlot(x)]

\* free_node: the vector slot becomes the link of the free list.
FreeNode(m, n) == [m EXCEPT !.slot[n] = FreeSlot(m.h.free), !.dead = @ \cup {n}, !.h.free = n]

\* The free list as allocate_node would walk it, at most MaxNodes + 1 long.
FreeList(m) ==
    LET walk[i \in Nat] ==
            IF i = 0 THEN <<m.h.free>>
            ELSE LET s == walk[i - 1]
                     n == Last(s)
                 IN  IF n \notin Node THEN s
                     ELSE Append(s, IF m.slot[n][1] = "next" THEN m.slot[n][2] ELSE Wild)
    IN  SelectSeq(walk[MaxNodes + 1], LAMBDA n : n # None)
==================================================================================
