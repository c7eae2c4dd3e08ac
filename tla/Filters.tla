-------------------------------- MODULE Filters --------------------------------
(***************************************************************************)
(* Values and the filters over them (value.rs, filter.rs).  A value is a   *)
(* pair <<type, payload>> and Null is the only value of its type.  A       *)
(* filter is a record [col, op, value, list]; value is used by the         *)
(* comparisons and list by In.                                             *)
(*                                                                         *)
(* A filter is evaluated in two ways: on a decoded value (Matches), and on *)
(* the bytes of a column (EvalRaw), which decides only some cases and      *)
(* leaves the others to the first.                                         *)
(***************************************************************************)
EXTENDS Integers, Sequences, FiniteSets, SequencesExt

Null == <<"Null", 0>>
Value == {Null} \cup ({"Integer", "Text"} \X Int)
TypeOf(v) == v[1]

Less == -1
Equal == 0
Greater == 1
Incomparable == 2    \* None

\* Value::compare: Null is below everything; values of two types do not compare.
Compare(a, b) ==
    IF a = b THEN Equal
    ELSE IF a = Null THEN Less
    ELSE IF b = Null THEN Greater
    ELSE IF TypeOf(a) # TypeOf(b) THEN Incomparable
    ELSE IF a[2] < b[2] THEN Less ELSE Greater

\* The outcomes of a comparison that each operator takes.
Accepts == [Eq |-> {Equal}, Ne |-> {Less, Greater}, Lt |-> {Less}, Le |-> {Less, Equal},
            Gt |-> {Greater}, Ge |-> {Equal, Greater}]

\* Filter::matches, eval_filter_op and eval_filter_in.
Matches(f, v) ==
    CASE f.op = "In" -> \E i \in DOMAIN f.list : Compare(v, f.list[i]) = Equal
      [] f.op = "IsNull" -> v = Null
      [] f.op = "IsNotNull" -> v # Null
      [] OTHER -> Compare(v, f.value) \in Accepts[f.op]

\* eval_filter_raw_in: the list is read up to the first hit or the first value
\* of another type.  The verdict is {TRUE}, {FALSE} or undecided, {}.
EvalRawIn(s, v) ==
    LET stops == {i \in DOMAIN s : s[i] = v \/ TypeOf(s[i]) # TypeOf(v)}
    IN  IF s = <<>> THEN {FALSE}
        ELSE IF v = Null THEN {}
        ELSE IF stops = {} THEN {FALSE}
        ELSE IF s[Min(stops)] = v THEN {TRUE} ELSE {}

\* eval_filter_raw_full: the type tag, two integers, or two texts for equality.
EvalRaw(f, v) ==
    CASE f.op = "In" -> EvalRawIn(f.list, v)
      [] f.op = "IsNull" -> {v = Null}
      [] f.op = "IsNotNull" -> {v # Null}
      [] OTHER -> IF TypeOf(v) = "Integer" /\ TypeOf(f.value) = "Integer" THEN {Compare(v, f.value) \in Accepts[f.op]}
                  ELSE IF TypeOf(v) = "Text" /\ TypeOf(f.value) = "Text" /\ f.op = "Eq" THEN {v = f.value}
                  ELSE {}

Passes(f, v) == IF EvalRaw(f, v) = {} THEN Matches(f, v) ELSE TRUE \in EvalRaw(f, v)

\* Value::compare as the sort of find uses it, on columns that may be absent
\* (<<>>): absent first, and values that do not compare count as equal.
SortOrder(a, b) ==
    IF a = b THEN Equal
    ELSE IF a = <<>> THEN Less
    ELSE IF b = <<>> THEN Greater
    ELSE IF Compare(a[1], b[1]) = Incomparable THEN Equal ELSE Compare(a[1], b[1])

\* The elements of a set in an order, each once.
Ordered(S, Before(_, _)) ==
    CHOOSE s \in [1 .. Cardinality(S) -> S] : \A i, j \in DOMAIN s : i < j => Before(s[i], s[j])
=============================================================================
