----------------------------- MODULE ApiDeparse -----------------------------
(***************************************************************************)
(* The wrappers that build a filter, a URL or a query of an API out of the *)
(* quals.  What they leave out is filtered by Postgres alone.  k is the    *)
(* column the API calls id, name or number (the partition key of a table), *)
(* s and b the ones it filters by, t its time (the sort key).              *)
(***************************************************************************)
EXTENDS SqlDeparse

Comparisons == {"=", "<>", "<", "<=", ">", ">="}

On(field, q) == [AtomOf(q) EXCEPT !.field = field]

\* Nothing of the sorts and of the limit is sent.
Filtered(groups) == Request(groups, <<>>, All, FALSE, {})

\* The limit is only where the wrapper stops asking for pages.
Paged(groups, lim) == Request(groups, <<>>, RealLimit(lim), TRUE, {})

-----------------------------------------------------------------------------
(* Filters.                                                                *)

IcebergQual(q) ==
  CASE q.field = "j.x" -> <<>>
    [] q.arr -> IF q.useOr /\ q.op = "=" THEN <<Atom(q.field, "in", q.val)>>
                ELSE IF ~q.useOr /\ q.op = "<>" THEN <<Atom(q.field, "not in", q.val)>> ELSE <<>>
    [] q.op \in {"is", "is not"} /\ q.val # Word ->
         <<Atom(q.field, IF q.op = "is" THEN "=" ELSE "<>", q.val)>>
    [] q.op \in {"~", "!~"} -> <<>>
    [] OTHER -> <<AtomOf(q)>>

Iceberg(quals) == Filtered(Every(quals, IcebergQual))

\* $ne and $nin hold of rows without the field; "<> ANY" is taken for "<> ALL".
MongodbQual(q) ==
  LET field == IF q.field = "j.x" THEN "j" ELSE q.field
  IN  IF q.arr
      THEN IF q.useOr /\ q.op = "=" THEN <<Atom(field, "in", q.val)>>
           ELSE IF q.useOr /\ q.op = "<>" THEN <<Atom(field, "other", q.val)>> ELSE <<>>
      ELSE CASE q.op \in {"is", "is not"} -> IF q.val = Word THEN <<On(field, q)>> ELSE <<>>
             [] q.op = "<>" -> <<Atom(field, "other", <<q.val>>)>>
             [] q.op \in Comparisons \ {"<>"} -> <<On(field, q)>>
             [] OTHER -> <<>>

Mongodb(quals, sorts, lim) ==
  Request(Every(quals, MongodbQual), SortWithout(sorts, "low"), RealLimit(lim), FALSE, {})

\* <> holds of items without the attribute, and no item has an attribute "j.x".
DynamodbQual(q) ==
  IF q.field = "j.x" THEN IF q.op = "<>" THEN <<>> ELSE <<Atom("j", "never", q.val)>>
  ELSE IF q.op = "<>" THEN <<Atom(q.field, "other", <<q.val>>)>> ELSE <<AtomOf(q)>>

\* A name or a value that no expression uses is an error.  Once the partition key
\* is given the other conditions on the keys must be one condition on the sort
\* key that follows it.
DynamodbAccepts(quals) ==
  LET given == Cells(quals, {"k"}, {"="})
      sortKey == {i \in DOMAIN quals : quals[i].field = "t"}
  IN  /\ \A i \in DOMAIN quals : ~quals[i].arr /\ quals[i].op \in Comparisons
      /\ given = {} => \A i \in sortKey : quals[i].op # "="
      /\ given # {} => /\ given = {i \in DOMAIN quals : quals[i].field = "k"}
                       /\ Cardinality(given) = 1 /\ Cardinality(sortKey) <= 1
                       /\ \A i \in sortKey : /\ quals[i].op # "<>"
                                             /\ quals[i].op # "=" => \A g \in given : g < i

\* (The OFFSET rows it skips itself are in PagedScan.)
Dynamodb(quals, lim) ==
  IF DynamodbAccepts(quals)
  THEN Request(Every(quals, DynamodbQual), <<>>, RealLimit(lim), FALSE, {})
  ELSE Refused

\* List all, or get some by key; it stops after count rows, whatever the offset.
S3vectors(quals, lim) ==
  CASE quals = <<>> -> Request(Everything, <<>>, lim.count, FALSE, {})
    [] Len(quals) = 1 /\ quals[1].field = "k" /\ quals[1].op = "=" /\ (quals[1].arr => quals[1].useOr) ->
         Request(<<<<Atom("k", "in", IF quals[1].arr THEN quals[1].val ELSE <<quals[1].val>>)>>>>,
                 <<>>, lim.count, FALSE, {})
    [] OTHER -> Refused

-----------------------------------------------------------------------------
(* Queries of logs and metrics.                                            *)

\* A range of whole units; the last bound of each side is the one that counts.
Range0 == [from |-> All, to |-> All]

Bounding(q) == q.field = "t" /\ ~q.arr /\ q.op \in Comparisons

Bounds(quals, Of(_, _)) ==
  LET upTo[n \in 0..Len(quals)] ==
        IF n = 0 THEN Range0
        ELSE IF Bounding(quals[n]) THEN Of(upTo[n - 1], quals[n]) ELSE upTo[n - 1]
  IN  upTo[Len(quals)]

ExtractTsRange(range, q) ==
  LET ms == q.val \div Unit
  IN  CASE q.op = ">=" -> [range EXCEPT !.from = ms]
        [] q.op = ">"  -> [range EXCEPT !.from = ms + 1]
        [] q.op = "<=" -> [range EXCEPT !.to = ms + 1]
        [] q.op = "<"  -> [range EXCEPT !.to = ms]
        [] q.op = "="  -> [from |-> ms, to |-> ms + 1]
        [] OTHER -> range

\* field:"x" finds the texts that contain x, and what is not found includes NULL.
CqlQual(q) ==
  LET field == IF q.field = "j.x" THEN "j" ELSE q.field
      text  == field \in {"s", "j"}
  IN  IF field = "t" \/ q.arr THEN <<>>
      ELSE CASE q.op \in {"is", "is not"} -> IF q.val = Word THEN <<On(field, q)>> ELSE <<>>
             [] q.op = "~~" \/ (q.op = "=" /\ text)   -> <<Atom(field, "contains", q.val)>>
             [] q.op = "!~~" \/ (q.op = "<>" /\ text) -> <<Atom(field, "lacks", q.val)>>
             [] q.op = "<>" /\ ~text -> <<Atom(field, "other", <<q.val>>)>>
             [] q.op \in (Comparisons \ {"<>"}) \ (IF text THEN {"="} ELSE {}) -> <<On(field, q)>>
             [] OTHER -> <<>>

\* The last hour up to now, unless a bound says otherwise.
TencentCls(quals) ==
  LET range == Bounds(quals, ExtractTsRange)
      from  == IF range.from = All THEN Hour ELSE range.from * Unit
      to    == IF range.to = All THEN Now ELSE range.to * Unit
  IN  Filtered(<<<<Atom("t", ">=", from), Atom("t", "<", to)>> \o Every(quals, CqlQual)[1]>>)

\* The same search with the aggregates after it.
TencentAggregate(quals) == TencentCls(quals)

PrometheusTime(range, q) ==
  LET secs == q.val \div Unit
  IN  CASE q.op \in {">=", ">"} -> [range EXCEPT !.from = secs]
        [] q.op \in {"<=", "<"} -> [range EXCEPT !.to = secs]
        [] q.op = "="           -> [from |-> secs, to |-> secs]
        [] OTHER -> range

\* Expressions are anchored, and a series without the label has an empty one.
LabelMatcher(q) ==
  LET label == IF q.field = "j.x" THEN "j" ELSE q.field
  IN  IF q.field \notin {"s", "j.x"} \/ q.arr THEN <<>>
      ELSE CASE q.op = "="  -> <<Atom(label, "=", q.val)>>
             [] q.op = "~"  -> <<Atom(label, "full", q.val)>>
             [] q.op \in {"<>", "!~"} -> <<Atom(label, "other", <<q.val>>)>>
             [] OTHER -> <<>>

\* Without a bound it is an instant query.
Prometheus(quals) ==
  LET names == Cells(quals, {"k"}, {"="})
      range == Bounds(quals, PrometheusTime)
      from  == IF range.from = All THEN Hour ELSE range.from * Unit
      to    == IF range.to = All THEN Now ELSE range.to * Unit
      times == IF range = Range0 THEN <<Atom("t", "=", Now)>>
               ELSE <<Atom("t", ">=", from), Atom("t", "<=", to)>>
  IN  IF names = {} THEN Refused
      ELSE Filtered(<<<<Atom("k", "=", quals[Max(names)].val)>> \o times \o Every(quals, LabelMatcher)[1]>>)

\* The parameters of an endpoint, which the rows repeat.
Logflare(quals) ==
  LET params == {i \in DOMAIN quals : quals[i].field = "k"}
  IN  IF params # Cells(quals, {"k"}, {"="}) THEN Refused
      ELSE [Filtered(Every(quals, LAMBDA q : IF q.field = "k" THEN <<AtomOf(q)>> ELSE <<>>))
              EXCEPT !.echo = {[field |-> "k", val |-> quals[i].val] : i \in params}]
=============================================================================
