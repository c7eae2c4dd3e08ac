-------------------------------- MODULE MCBTree --------------------------------
(* Small instances of BTree for TLC. *)
EXTENDS BTree

\* Two rows to a leaf, and a client that pages through the table.
Paging == [ids |-> 1 .. 5, sizes |-> {4}, limits |-> {1}, bulk |-> FALSE, order |-> "row", grow |-> 8]
\* Small and large rows, of which two may overrun a half by no more than its
\* checksum (2 + 7) or beyond (2 + 8), rows that overflow, and bulk updates.
Mixed == [ids |-> 1 .. 4, sizes |-> {2, 7, 12}, limits |-> {}, bulk |-> TRUE, order |-> "row", grow |-> 8]
\* An index whose values repeat, up to three levels.
Looked == [ids |-> 1 .. 4, sizes |-> {2, 4}, limits |-> {}, bulk |-> TRUE, order |-> "index", grow |-> 7]
\* A client that pages in index order.
Ordered == [Looked EXCEPT !.ids = 1 .. 3, !.limits = {1}, !.bulk = FALSE, !.grow = 4]
MCWorkloads == {Paging, Mixed, Looked, Ordered}
=============================================================================
