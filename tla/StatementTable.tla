--------------------------- MODULE StatementTable ---------------------------
(***************************************************************************)
(* A statement over one foreign table and what Postgres makes of it: rows, *)
(* clauses in three-valued logic, ORDER BY, LIMIT and OFFSET, counts.      *)
(* Nothing of this is in the repository; it is what the answers of the     *)
(* wrappers are measured by.                                               *)
(***************************************************************************)
EXTENDS Selection, SequencesExt, FiniteSetsExt

CONSTANTS
  Null,       \* SQL NULL
  All         \* no LIMIT, and the one group of a count without GROUP BY

\* k identifies a row, v is a number, b a truth value, s a text (a sequence of
\* letters), j the text under key x of a jsonb column, t a time.
Columns == {"k", "v", "b", "s", "j", "t"}

\* x occurs in y.
Within(x, y) == \E i \in 0..Len(y) - Len(x) : SubSeq(y, i + 1, i + Len(x)) = x

\* A comparison; a pattern p of LIKE stands for p%, one of ~ for a regular
\* expression without anchors.
Compare(op, x, y) ==
  IF x = Null \/ y = Null THEN Null
  ELSE CASE op = "="   -> x = y
         [] op = "<>"  -> x # y
         [] op = "<"   -> x < y
         [] op = "<="  -> x <= y
         [] op = ">"   -> x > y
         [] op = ">="  -> x >= y
         [] op = "~~"  -> IsPrefix(y, x)
         [] op = "!~~" -> ~IsPrefix(y, x)
         [] op = "~"   -> Within(y, x)
         [] op = "!~"  -> ~Within(y, x)

AnyOf(values) == IF TRUE \in values THEN TRUE ELSE IF Null \in values THEN Null ELSE FALSE
AllOf(values) == IF FALSE \in values THEN FALSE ELSE IF Null \in values THEN Null ELSE TRUE

(***************************************************************************)
(* A clause is a node of the parse tree: an operator with the column on    *)
(* its left (op), on its right (rev) or inside an expression (expr), with  *)
(* a parameter (param), on a jsonb key (json); NULL test; IN and ALL       *)
(* lists; a boolean column, its negation, IS [NOT] TRUE, FALSE, UNKNOWN.   *)
(***************************************************************************)
Value(c, r) ==
  CASE c.node \in {"op", "expr", "param", "json"} -> Compare(c.op, r[c.col], c.arg)
    [] c.node = "rev"  -> Compare(c.op, c.arg, r[c.col])
    [] c.node = "null" -> (r[c.col] = Null) = (c.op = "is")
    [] c.node = "list" ->
         LET each == {Compare(c.op, r[c.col], c.arg[i]) : i \in DOMAIN c.arg}
         IN  IF c.useOr THEN AnyOf(each) ELSE AllOf(each)
    [] c.node = "bool" -> r[c.col]
    [] c.node = "not"  -> IF r[c.col] = Null THEN Null ELSE ~r[c.col]
    [] c.node = "test" -> (r[c.col] = c.arg) = (c.op = "is")

Selected(rows, where) == {r \in rows : \A i \in DOMAIN where : Value(where[i], r) = TRUE}

-----------------------------------------------------------------------------
(* Orders and windows.                                                     *)

\* nulls is where NULLs go: "first", "last", or "low" (below every value).
NullsFirst(o) == o.nulls = "first" \/ (o.nulls = "low" /\ ~o.desc)

KeyBefore(o, x, y) ==
  IF x[o.col] = Null THEN y[o.col] # Null /\ NullsFirst(o)
  ELSE IF y[o.col] = Null THEN ~NullsFirst(o)
  ELSE IF o.desc THEN x[o.col] > y[o.col] ELSE x[o.col] < y[o.col]

Before(order, x, y) ==
  \E i \in DOMAIN order :
    /\ KeyBefore(order[i], x, y)
    /\ \A j \in 1..i - 1 : ~KeyBefore(order[j], x, y) /\ ~KeyBefore(order[j], y, x)

\* The sets that may be the first n rows, ties broken in any way.
Firsts(rows, order, n) ==
  {first \in kSubset(Min({n, Cardinality(rows)}), rows) :
     \A x \in first, y \in rows \ first : ~Before(order, y, x)}

\* What LIMIT and OFFSET leave of the rows.
Windows(rows, order, count, offset) ==
  IF count = All THEN {rows \ skipped : skipped \in Firsts(rows, order, offset)}
  ELSE UNION {{upto \ skipped : skipped \in Firsts(upto, order, offset)} :
                upto \in Firsts(rows, order, offset + count)}

-----------------------------------------------------------------------------
\* count(*), count(v), count(*) FILTER (WHERE b), with or without GROUP BY b.
Counted(agg, r) == CASE agg = "count_v"  -> r.v # Null
                     [] agg = "filtered" -> r.b = TRUE
                     [] OTHER            -> TRUE

Counts(agg, grouped, rows) ==
  [g \in IF grouped THEN {r.b : r \in rows} ELSE {All} |->
     Cardinality({r \in rows : Counted(agg, r) /\ (grouped => r.b = g)})]
=============================================================================
