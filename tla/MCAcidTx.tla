-------------------------------- MODULE MCAcidTx --------------------------------
(* Small instances of AcidTx for TLC. *)
EXTENDS AcidTx, TLC

CONSTANTS x1, x2, r1, users, posts

MCTxs == {x1, x2}
MCReaders == {r1}
MCNoReaders == {}
MCTables == {users, posts}
MCRootOf == (users :> 1) @@ (posts :> 2)
MCOneTable == {users}
MCOneRoot == users :> 1
=============================================================================
