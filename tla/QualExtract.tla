----------------------------- MODULE QualExtract -----------------------------
(***************************************************************************)
(* What the framework takes from a statement for the wrapper: quals        *)
(* (qual.rs), sorts (sort.rs), LIMIT (limit.rs), and whether the           *)
(* aggregates are the wrapper's to compute (upper.rs).                     *)
(***************************************************************************)
EXTENDS StatementTable

CONSTANT Word     \* the cell String("null") of a NULL test

Qual(field, op, val, arr, useOr, param) ==
  [field |-> field, op |-> op, val |-> val, arr |-> arr, useOr |-> useOr, param |-> param]

CellQual(field, op, val) == Qual(field, op, val, FALSE, FALSE, FALSE)

\* The operator with its operands exchanged; the matching operators have none.
Commutators == [o \in {"=", "<>", "<", "<=", ">", ">="} |->
  CASE o = "<" -> ">" [] o = "<=" -> ">=" [] o = ">" -> "<" [] o = ">=" -> "<=" [] OTHER -> o]

\* Faulty: a NULL constant becomes a cell.
FromOpExprNullToo(c) ==
  IF c.node = "rev"
  THEN IF c.op \notin DOMAIN Commutators THEN {}
       ELSE {CellQual(c.col, Commutators[c.op], c.arg)}
  ELSE {Qual(IF c.node = "json" THEN "j.x" ELSE c.col, c.op, c.arg, FALSE, FALSE, c.node = "param")}

\* Faulty: the operands are swapped and the operator is not.
FromOpExprSwapped(c) ==
  IF c.arg = Null THEN {}
  ELSE {Qual(IF c.node = "json" THEN "j.x" ELSE c.col, c.op, c.arg, FALSE, FALSE, c.node = "param")}

\* The operand is a constant, a stable expression evaluated when planning, or a
\* parameter with its value (ForeignScan has its placeholder and NULL).  NULL is
\* no cell, and no qual is made of it.
FromOpExpr(c) ==
  IF c.arg = Null THEN {}
  ELSE IF c.node = "rev"
  THEN IF c.op \notin DOMAIN Commutators THEN {}
       ELSE {CellQual(c.col, Commutators[c.op], c.arg)}
  ELSE {Qual(IF c.node = "json" THEN "j.x" ELSE c.col, c.op, c.arg, FALSE, FALSE, c.node = "param")}

FromNullTest(c) == {CellQual(c.col, c.op, Word)}

\* The NULLs of the list are left out.
FormArray(list) == Only(list, Range(list) \ {Null})

FromScalarArrayOpExpr(c) == {Qual(c.col, c.op, FormArray(c.arg), TRUE, c.useOr, FALSE)}

FromVar(c)         == {CellQual(c.col, "=", TRUE)}
FromBoolExpr(c)    == {CellQual(c.col, "=", FALSE)}
FromBooleanTest(c) == IF c.arg = Null THEN {} ELSE {CellQual(c.col, c.op, c.arg)}

\* An expression over a column is no qual.
Extracted(c) ==
  CASE c.node \in {"op", "rev", "param", "json"} -> FromOpExpr(c)
    [] c.node = "null" -> FromNullTest(c)
    [] c.node = "list" -> FromScalarArrayOpExpr(c)
    [] c.node = "bool" -> FromVar(c)
    [] c.node = "not"  -> FromBoolExpr(c)
    [] c.node = "test" -> FromBooleanTest(c)
    [] c.node = "expr" -> {}

ExtractQuals(where) ==
  FlattenSeq([i \in DOMAIN where |-> SetToSeq(Extracted(where[i]))])

-----------------------------------------------------------------------------
\* The path keys that are plain columns; the others are left out one by one.
ExtractSorts(sort) == Only(sort, {s \in Range(sort) : s.plain})

NoLimit == [count |-> All, offset |-> 0]

\* clauses that stay local, joins and DISTINCT are not looked at, and an OFFSET
\* that is no constant counts as none.
ExtractLimit(st) ==
  IF st.agg # "none" \/ st.count = All \/ ~st.constCount THEN NoLimit
  ELSE [count |-> st.count, offset |-> IF st.constOffset THEN st.offset ELSE 0]

\* HAVING, FILTER and GROUP BY of an expression stay with Postgres.
ExtractAggregates(st) == ~st.having /\ st.agg \in {"count", "count_v"}
ExtractGroupBy(st)    == ~st.groupExpr

\* Faulty: a clause that is no qual is forgotten.
UpperPathUnchecked(st, quals, supported) ==
  /\ supported /\ st.agg # "none"
  /\ \A i \in DOMAIN quals : ~quals[i].param
  /\ ExtractAggregates(st) /\ ExtractGroupBy(st)

\* get_foreign_upper_paths: nothing filters the rows of an aggregate again.
UpperPath(st, quals, supported) ==
  /\ supported /\ st.agg # "none"
  /\ Len(quals) = Len(st.where)
  /\ \A i \in DOMAIN quals : ~quals[i].param
  /\ ExtractAggregates(st) /\ ExtractGroupBy(st)
=============================================================================
