------------------------------ MODULE AtomicTables ------------------------------
(***************************************************************************)
(* What ACID mode promises (README, "ACID Transactions"): a transaction    *)
(* stages inserts and deletes privately; commit applies all of them to the *)
(* tables in one step; dropping it leaves no trace.                        *)
(***************************************************************************)
CONSTANTS Txs, Tables, RowIds

VARIABLES rows,      \* table -> committed row ids
          staged     \* transaction -> table -> [ins, del]

Nothing == [tb \in Tables |-> [ins |-> {}, del |-> {}]]

\* Types of the two variables.
TypeOK == /\ rows \in [Tables -> SUBSET RowIds]
          /\ staged \in [Txs -> [Tables -> [ins : SUBSET RowIds, del : SUBSET RowIds]]]

Init == /\ rows \in [Tables -> SUBSET RowIds]
        /\ staged = [t \in Txs |-> Nothing]

Insert(t, tb, x) ==
    /\ staged' = [staged EXCEPT ![t][tb] = [ins |-> @.ins \cup {x}, del |-> @.del \ {x}]]
    /\ UNCHANGED rows

Delete(t, tb, x) ==
    /\ x \in (rows[tb] \cup staged[t][tb].ins) \ staged[t][tb].del
    /\ staged' = [staged EXCEPT ![t][tb] = [ins |-> @.ins \ {x}, del |-> @.del \cup {x}]]
    /\ UNCHANGED rows

Commit(t) ==
    /\ rows' = [tb \in Tables |-> (rows[tb] \ staged[t][tb].del) \cup staged[t][tb].ins]
    /\ staged' = [staged EXCEPT ![t] = Nothing]

Rollback(t) ==
    /\ staged' = [staged EXCEPT ![t] = Nothing]
    /\ UNCHANGED rows

Next == \E t \in Txs : \/ \E tb \in Tables, x \in RowIds : Insert(t, tb, x) \/ Delete(t, tb, x)
                       \/ Commit(t) \/ Rollback(t)

Spec == Init /\ [][Next]_<<rows, staged>>
=============================================================================
