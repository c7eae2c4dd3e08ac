------------------------------- MODULE MCCatalog -------------------------------
(* Small instances of Catalog for TLC. *)
EXTENDS Catalog

CONSTANTS t1, t2, users, posts

MCThreads == {t1, t2}
MCNames == {users, posts}

\* Schema changes of two threads racing on the synchronous API, with a crash.
Race == [threads |-> MCThreads, names |-> MCNames, gated |-> FALSE,
         ops |-> {"create_table", "drop_table", "alter"},
         tables |-> 3, alters |-> 1, crashes |-> 1, shutdowns |-> 0]
\* Callers behind the write gate: schema and row changes, a crash, a clean shutdown.
Gate == [threads |-> {t1}, names |-> {users}, gated |-> TRUE,
         ops |-> {"create_table", "drop_table", "alter", "insert", "insert_with_id", "delete"},
         tables |-> 2, alters |-> 1, crashes |-> 1, shutdowns |-> 1]
\* Rows inserted after the last schema change, then a crash.
Splits == [threads |-> {t1}, names |-> {users}, gated |-> TRUE, ops |-> {"create_table", "insert"},
           tables |-> 1, alters |-> 0, crashes |-> 1, shutdowns |-> 0]

MCAll == {Race, Gate}
MCSplits == {Splits}
==============================================================================
