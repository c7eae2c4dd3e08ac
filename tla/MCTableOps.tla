------------------------------ MODULE MCTableOps ------------------------------
(* Instances of TableOps and TableTx: a table with the Integer columns a and b. *)
EXTENDS TableTx

I(x) == <<"Integer", x>>
Txt(x) == <<"Text", x>>

IntegerColumn(n) == [name |-> n, type |-> "Integer", default |-> NoDefault, dropped |-> FALSE]
AB == <<IntegerColumn("a"), IntegerColumn("b")>>
OneOrNone == {NoDefault, I(1)}

Both(x, y) == [n \in {"a", "b"} |-> IF n = "a" THEN x ELSE y]
OnlyIn(n, x) == [m \in {n} |-> x]

On(cols, u) == [columns |-> cols, unique |-> u]

Filter(c, op, v) == [col |-> c, op |-> op, value |-> v, list |-> <<>>]
Eq(c, x) == Filter(c, "Eq", I(x))
In(c, s) == [Filter(c, "In", Null) EXCEPT !.list = s]
IsNull(c) == Filter(c, "IsNull", Null)

All(filters) == [filters |-> filters, groups |-> <<>>, sort |-> <<>>, limit |-> NoLimit, offset |-> 0, total |-> FALSE]
OneOf(filters, groups) == [All(filters) EXCEPT !.groups = groups]
By(c, dir) == [col |-> c, dir |-> dir]

\* Full, partial, ill-typed and Null values, and every operation.
Changing ==
    [ops |-> {"insert", "insert_with_id", "insert_many", "update", "update_where", "delete", "delete_where",
              "create_index_ex", "drop_index", "add_column", "rename_column", "drop_column"},
     data |-> {Both(I(1), I(1)), Both(I(1), Null), OnlyIn("b", Txt(1))},
     wheres |-> {<<Eq("a", 1)>>, <<IsNull("b")>>},
     types |-> {"Integer"}, names |-> {"i"},
     defs |-> {On(<<"a">>, TRUE), On(<<"b">>, FALSE), On(<<"b", "a">>, FALSE)},
     rows |-> 2, steps |-> 0, upserts |-> {},
     queries |-> {All(<<Eq("a", 1)>>), All(<<Eq("b", 1)>>), All(<<In("b", <<I(1), Txt(1)>>)>>), All(<<IsNull("a")>>)}]

\* Up to three rows, two indexes, and queries of every form.
Simple == {All(<<Filter(c, op, I(1))>>) : c \in {"a", "b"}, op \in DOMAIN Accepts}
          \cup {All(<<f>>) : f \in {IsNull("b"), Filter("b", "IsNotNull", Null), In("a", <<I(2), I(1), I(2)>>), In("b", <<>>)}}
Compound == {All(<<Eq("a", 1), Eq("b", 2)>>), All(<<Eq("b", 1), In("a", <<I(1), I(2)>>)>>),
             OneOf(<<Eq("a", 1)>>, <<<<Eq("b", 1)>>, <<IsNull("b"), Eq("a", 1)>>>>),
             OneOf(<<>>, <<<<Eq("a", 2)>>, <<Eq("b", 2)>>>>), All(<<>>),
             All(<<Eq("_id", 1)>>), All(<<Filter("_id", "Gt", I(1)), Eq("a", 1)>>),
             [All(<<IsNull("b")>>) EXCEPT !.sort = <<By("_id", "desc")>>]}
PagedBy(q) == {[q EXCEPT !.limit = 1, !.offset = 1, !.sort = s, !.total = b] :
                s \in {<<>>, <<By("b", "asc")>>, <<By("a", "desc"), By("b", "asc")>>}, b \in BOOLEAN}
Querying ==
    [ops |-> {"insert", "update", "update_where", "delete", "create_index_ex", "drop_index"},
     data |-> {Both(I(1), I(1)), Both(I(1), I(2)), Both(I(2), Null), OnlyIn("a", I(1))},
     wheres |-> {<<Filter("b", "Gt", I(1)), Eq("a", 1)>>, <<Filter("a", "Ne", I(1))>>},
     types |-> {}, names |-> {"i", "j"},
     defs |-> {On(<<"a">>, FALSE), On(<<"b">>, FALSE)},
     rows |-> 3, steps |-> 0, upserts |-> {},
     queries |-> Simple \cup Compound
                   \cup UNION {PagedBy(q) : q \in {All(<<Eq("a", 1)>>), All(<<Eq("a", 1), Eq("b", 1)>>), All(<<>>),
                                                 All(<<Filter("b", "Le", I(1))>>), All(<<In("b", <<I(1), I(2)>>)>>)}}]

\* ACID transactions of up to three operations, one after the other, on a table
\* with a unique and a plain index.
Acid ==
    [ops |-> {"create_index_ex", "begin", "tx_insert", "tx_insert_with_id", "tx_insert_many", "tx_update",
              "tx_update_where", "tx_delete", "tx_delete_where", "upsert", "upsert_increment"},
     data |-> {Both(I(1), I(1)), Both(I(2), Null)},
     wheres |-> {<<Eq("b", 1)>>, <<Filter("a", "Ge", I(1))>>},
     types |-> {}, names |-> {"i", "j"},
     defs |-> {On(<<"a">>, TRUE), On(<<"b">>, FALSE)},
     rows |-> 2, steps |-> 3,
     upserts |-> {[key |-> OnlyIn("a", I(1)), set |-> OnlyIn("b", I(1)), counter |-> "b", also |-> <<>>]},
     queries |-> {}]

\* Names used again for a column of another type.
Retyping ==
    [Changing EXCEPT !.ops = {"insert", "update", "delete", "create_index_ex", "add_column", "rename_column", "drop_column"},
                     !.data = {Both(I(1), I(1)), OnlyIn("b", Txt(1))},
                     !.types = {"Integer", "Text"}, !.defs = {On(<<"b">>, TRUE)}, !.rows = 1]

MCWorkloads == [w \in {"changing", "retyping", "querying", "acid"} |->
                   CASE w = "changing" -> Changing [] w = "retyping" -> Retyping
                     [] w = "querying" -> Querying [] OTHER -> Acid]

\* One composite index.
Composite ==
    [w \in {"composite"} |-> [Changing EXCEPT !.ops = {"insert", "create_index_ex"}, !.data = {Both(I(1), I(1)), Both(I(1), I(2))},
                      !.defs = {On(<<"a", "b">>, FALSE)},
                      !.queries = {All(<<Eq(c, x)>>) : c \in {"a", "b"}, x \in {1, 2}}]]
==============================================================================
