------------------------------ MODULE MCPageStore ------------------------------
(* Small instances of PageStore for TLC. *)
EXTENDS PageStore, TLC

CONSTANTS t1, t2, r1, users, posts

MCThreads == {t1, t2}
MCReaders == {r1}
MCNoReaders == {}
MCTables == {users, posts}
MCRootOf == (users :> 1) @@ (posts :> 2)
MCOneTable == {users}
MCOneRoot == users :> 1

MCSymmetry == Permutations(MCThreads)
=============================================================================
