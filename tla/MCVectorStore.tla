------------------------------ MODULE MCVectorStore ------------------------------
(* Small instances of VectorStore for TLC. *)
EXTENDS VectorStore

CONSTANTS t1, t2

MCThreads == {t1, t2}
Owned(a, b) == [t \in MCThreads |-> IF t = t1 THEN a ELSE b]

\* Rows 1 and 2 have one vector each, row 3 is stored with either of two.
Stored == <<{4}, {9}, {1, 11}>>

\* Every call, one at a time behind the gate, with restarts between calls.
Calm == [ops |-> {"insert", "update", "delete", "create", "drop"}, mine |-> Owned(Rows, {}), vectors |-> Stored,
         gated |-> TRUE, sealed |-> FALSE, faults |-> [max |-> 1, any |-> FALSE], limit |-> 18]
\* Failing calls: a batch that meets a known row, an update with a bad vector.
Failing == [ops |-> {"batch", "update_bad"}, mine |-> Owned(Rows, {}), vectors |-> Stored,
            gated |-> TRUE, sealed |-> FALSE, faults |-> [max |-> 0, any |-> FALSE], limit |-> 18]
\* Inserts of two threads, and a death at any step; plain and encrypted.
Dying == [ops |-> {"insert", "batch"}, mine |-> Owned({1, 2}, {3}), vectors |-> Stored,
          gated |-> FALSE, sealed |-> FALSE, faults |-> [max |-> 1, any |-> TRUE], limit |-> 18]
Sealed == [Dying EXCEPT !.sealed = TRUE, !.ops = {"insert"}]
\* One caller that also deletes, and a death at any step.
Reusing == [ops |-> {"insert", "delete"}, mine |-> Owned(Rows, {}), vectors |-> Stored,
            gated |-> TRUE, sealed |-> FALSE, faults |-> [max |-> 1, any |-> TRUE], limit |-> 18]

MCAll == {Calm, Failing, Dying, Sealed}
MCReusing == {Reusing}
==================================================================================
