----------------------------- MODULE SqlDeparse -----------------------------
(***************************************************************************)
(* The wrappers that write SQL: the deparse functions of bigquery,         *)
(* snowflake, clickhouse, mysql, mssql, duckdb and cfd1.                   *)
(***************************************************************************)
EXTENDS RemoteRequest

(***************************************************************************)
(* Quals.                                                                  *)
(***************************************************************************)

\* A list is taken apart with "or"; ALL of a list panics (unreachable!).
Deparsable(q) == q.arr => q.useOr
Deparse(q) ==
  IF q.arr THEN [i \in DOMAIN q.val |-> Atom(q.field, q.op, q.val[i])] ELSE <<AtomOf(q)>>

\* The texts are joined with " and ", without parentheses: "a or b and c".
And(groups, part) ==
  Front(groups) \o <<Append(Last(groups), Head(part))>>
    \o [i \in 1..Len(part) - 1 |-> <<part[i + 1]>>]

JoinAnd(parts) ==
  LET joined[n \in 0..Len(parts)] ==
        IF n = 0 THEN Everything ELSE And(joined[n - 1], parts[n])
  IN  joined[Len(parts)]

\* Nothing stands on one side of an "and", or after a "where" that is written
\* even so.
Malformed(parts, guarded) ==
  (\E i \in DOMAIN parts : parts[i] = <<>>) /\ ~(guarded /\ Len(parts) = 1)

Where(parts) == IF parts = <<<<>>>> THEN Everything ELSE JoinAnd(parts)

\* No such column: the key of a jsonb column.  No such operator: ~ and !~.
Unknown(q) == q.field = "j.x" \/ q.op \in {"~", "!~"}

SqlParts(quals) == [i \in DOMAIN quals |-> Deparse(quals[i])]

Sql(quals, order, lim, guarded) ==
  IF \/ \E i \in DOMAIN quals : ~Deparsable(quals[i]) \/ Unknown(quals[i])
     \/ Malformed(SqlParts(quals), guarded)
     \/ Negative(RealLimit(lim))
  THEN Refused
  ELSE Request(Where(SqlParts(quals)), order, RealLimit(lim), FALSE, {})

(***************************************************************************)
(* Sorts.                                                                  *)
(***************************************************************************)
SortDeparse(sorts) ==
  [i \in DOMAIN sorts |-> [col |-> sorts[i].col, desc |-> sorts[i].desc, nulls |-> sorts[i].nulls]]

\* Without "nulls first" or "nulls last" the remote side has its own order.
SortWithout(sorts, nulls) ==
  [i \in DOMAIN sorts |-> [col |-> sorts[i].col, desc |-> sorts[i].desc, nulls |-> nulls]]

-----------------------------------------------------------------------------
(***************************************************************************)
(* The wrappers.                                                           *)
(***************************************************************************)
BigqueryDeparse(quals, sorts, lim)  == Sql(quals, SortDeparse(sorts), lim, FALSE)
SnowflakeDeparse(quals, sorts, lim) == Sql(quals, SortDeparse(sorts), lim, FALSE)

ClickhouseDeparse(quals, sorts, lim) == Sql(quals, SortDeparse(sorts), lim, TRUE)

\* A table that is a query with ${k}: the value of the first qual of k takes its
\* place, whatever the operator, and the column is filled with it.
ClickhouseParams(quals, sorts, lim) ==
  LET params == {i \in DOMAIN quals : quals[i].field = "k"}
  IN  IF params = {} \/ quals[Min(params)].arr THEN Refused
      ELSE LET value == quals[Min(params)].val
               rest  == Sql(Only(quals, {q \in Range(quals) : q.field # "k"}), SortDeparse(sorts), lim, TRUE)
           IN  IF rest = Refused THEN Refused
               ELSE [rest EXCEPT !.echo = {[field |-> "k", val |-> value]},
                                 !.groups = [i \in DOMAIN @ |-> Append(@[i], Atom("k", "=", value))]]

\* A truth value is written as 1 or 0, which "is" does not take.
MysqlDeparse(quals, sorts, lim) ==
  IF \E i \in DOMAIN quals : quals[i].op \in {"is", "is not"} /\ quals[i].val # Word
  THEN Refused
  ELSE Sql(quals, SortWithout(sorts, "low"), lim, TRUE)

\* "b is not true" is written b <> 1.
MssqlQual(q) ==
  IF q.op \in {"is", "is not"} /\ q.val # Word
  THEN CellQual(q.field, IF q.op = "is" THEN "=" ELSE "<>", q.val)
  ELSE q
MssqlDeparse(quals, sorts, lim) ==
  IF lim.count # All /\ sorts = <<>> THEN Refused
  ELSE Sql([i \in DOMAIN quals |-> MssqlQual(quals[i])], SortWithout(sorts, "low"), lim, TRUE)

\* ~ is there and matches the whole text.
DuckdbQual(q) ==
  IF q.op = "~" THEN [q EXCEPT !.op = "full"]
  ELSE IF q.op = "!~" THEN [q EXCEPT !.op = "notfull"] ELSE q
DuckdbDeparse(quals, sorts, lim) ==
  Sql([i \in DOMAIN quals |-> DuckdbQual(quals[i])], SortWithout(sorts, "last"), lim, TRUE)

\* The values are bound, as texts: lists, truth values and times are errors.
Cfd1Deparse(quals, sorts, lim) ==
  IF \E i \in DOMAIN quals :
       quals[i].arr \/ (quals[i].field \in {"b", "t"} /\ quals[i].val # Word)
  THEN Refused
  ELSE Sql(quals, SortDeparse(sorts), lim, FALSE)

-----------------------------------------------------------------------------
(* deparse_aggregate: the same clauses under the aggregates, no sorts and  *)
(* no limit.  bigquery guards its "where" only here.                       *)
BigqueryAggregate(quals)   == Sql(quals, <<>>, NoLimit, TRUE)
ClickhouseAggregate(quals) == ClickhouseDeparse(quals, <<>>, NoLimit)
MysqlAggregate(quals)      == MysqlDeparse(quals, <<>>, NoLimit)
MssqlAggregate(quals)      == MssqlDeparse(quals, <<>>, NoLimit)
DuckdbAggregate(quals)     == DuckdbDeparse(quals, <<>>, NoLimit)
=============================================================================
