--------------------------- MODULE MCForeignModify ---------------------------
(***************************************************************************)
(* Statements for ForeignModify: each writing wrapper with the statements  *)
(* it has operations for, and Iceberg tables of every partition transform. *)
(***************************************************************************)
EXTENDS ForeignModify

Row(id, val) == [id |-> id, val |-> val]

Statement(op) ==
  [op |-> op, rows |-> <<>>, ids |-> {}, column |-> "val", cells |-> <<>>,
   returning |-> FALSE, explain |-> FALSE, rowidOption |-> TRUE]

InsertOf(rows)  == [Statement("insert") EXCEPT !.rows = rows]
UpdateOf(ids, v) == [Statement("update") EXCEPT !.ids = ids, !.cells = <<v>>]
DeleteOf(ids)   == [Statement("delete") EXCEPT !.ids = ids]
RowidUpdate     == [UpdateOf({1}, 9) EXCEPT !.column = "rowid"]

Case(w, col, rowid, rows, rivals, stmt) ==
  [w |-> w, col |-> col, rowid |-> rowid, part |-> "none", order |-> <<>>,
   rows |-> rows, rivals |-> rivals, stmt |-> stmt]

Three == {Row(1, 11), Row(2, 12), Row(3, 13)}
Two   == {Row(1, 11), Row(2, 12)}
Four  == {Row(1, 11), Row(2, 12), Row(3, 13), Row(4, 14)}

\* The type of the column val each wrapper is written to with.
Columns(w) ==
  CASE w \in {"bigquery", "stripe", "paddle", "snowflake"} -> {"int", "uuid"}
    [] w \in {"clerk", "orb", "cal"} -> {"json", "int"}
    [] w = "clickhouse" -> {"int", "uint8"}
    [] w = "dynamodb"   -> {"int", "uuid"}
    [] w = "cfd1"       -> {"text"}
    [] OTHER            -> {"int"}

Sql  == {"bigquery", "clickhouse", "mysql", "mongodb", "snowflake", "cfd1"}
Rest == {"stripe", "clerk", "orb", "paddle", "cal", "dynamodb"}

\* Left out of the rows: NULL for cal, 'null' for cfd1, numbers above the type
\* for clickhouse; see the hazards.
Inserts ==
  {Case(w, col, "text", {Row(1, 11)}, {1}, InsertOf(<<Row(5, 50), Row(6, v)>>)) :
     <<w, col, v>> \in {<<w, col, v>> \in (Sql \cup Rest \cup {"s3vectors"})
                          \X {"int", "uuid", "json", "uint8", "text"} \X {60, Null} :
                        col \in Columns(w) /\ (w = "cal" => v # Null)}}
  \cup {Case("s3vectors", "int", "text", {}, {}, InsertOf([i \in 1..n |-> Row(i, i)])) : n \in 0..5}
  \cup {Case("s3vectors", "int", "int", {}, {}, InsertOf(<<Row(5, 50)>>))}
  \cup {Case("notion", "int", "text", {}, {}, InsertOf(<<Row(5, 50)>>))}

\* Left out: NULL for stripe and paddle, and rivals for dynamodb.
Updates ==
  {Case(w, col, rowid, Three, IF w = "dynamodb" THEN {} ELSE {2}, UpdateOf({1, 2}, v)) :
     <<w, col, rowid, v>> \in {<<w, col, rowid, v>> \in ((Sql \cup Rest) \ {"orb"})
                          \X {"int", "uuid", "json", "uint8", "text"} \X {"int", "text"} \X {20, Null} :
                        col \in Columns(w) /\ (w \in {"stripe", "paddle"} => v # Null)}}
  \cup {Case("orb", col, "text", Two, {2}, UpdateOf({2}, v)) : col \in Columns("orb"), v \in {20, Null}}
  \cup {Case(w, "int", "int", Two, {}, RowidUpdate) : w \in Sql \ {"mongodb"}}
  \cup {Case(w, "int", "int", Three \cup {Row(Null, 10)}, {}, UpdateOf({1, Null}, 20)) :
          w \in {"mysql", "bigquery"}}

\* Left out: more than a page for clerk, and text row ids for cfd1.
Deletes ==
  {Case(w, "int", rowid, Three, {2, 3}, DeleteOf({1, 3})) :
     <<w, rowid>> \in {<<w, rowid>> \in
       ({"s3vectors", "paddle", "cal", "dynamodb", "stripe"} \cup Sql) \X {"int", "text"} :
         w = "cfd1" => rowid = "int"}}
  \cup {Case("mongodb", "int", "int", Four, {}, DeleteOf({1, 2, 3, 4}))}
  \cup {Case(w, "json", rowid, {Row(1, 11)}, {1}, DeleteOf({1})) :
          w \in {"clerk", "orb"}, rowid \in {"int", "text"}}

Framework ==
  {Case("mysql", "int", "int", Two, {}, [DeleteOf({1}) EXCEPT !.returning = TRUE]),
   Case("mysql", "int", "int", Two, {}, [DeleteOf({1}) EXCEPT !.rowidOption = FALSE]),
   Case("mysql", "int", "int", Two, {1}, [DeleteOf({1}) EXCEPT !.explain = TRUE])}

-----------------------------------------------------------------------------
(* Iceberg.  Left out: timestamps before 2000 and dates close to the turn  *)
(* of a year or month, whose keys and partition values differ.             *)

Numbered(vals) == [i \in DOMAIN vals |-> Row(i, vals[i])]

IcebergCase(part, col, order, vals) ==
  [Case("iceberg", col, "text", {}, {}, InsertOf(Numbered(vals)))
     EXCEPT !.part = part, !.order = order]

June2000 == 11123    \* days from 1970 to 2000-06-15

\* A sort field with the NULL order that goes with its direction by default.
By(source, desc) ==
  [source |-> source, desc |-> desc, nulls |-> IF desc THEN "last" ELSE "first",
   transform |-> "identity"]

Unsorted   == <<>>
Ascending  == <<By("val", FALSE)>>
Descending == <<By("val", TRUE)>>
ThenById   == <<By("val", FALSE), By("id", TRUE)>>
ByDay      == [By("val", FALSE) EXCEPT !.transform = "day"]

Iceberg ==
  {IcebergCase("none", "int", order, vals) : order \in {Unsorted, Ascending, Descending, ThenById},
     vals \in {<<>>, <<3, Null, 1>>, <<2, 3, 1, Null, 2>>, <<3, 1, 2, 5, 4, 6, 2>>}}
  \cup {IcebergCase("none", "int", ThenById, <<2, 2, 1, Null, Null>>)}
  \cup {IcebergCase("none", "numeric", order, <<21, 12, -1, 40, Null, 13>>) : order \in {Ascending, Descending}}
  \cup {IcebergCase("identity", "int", order, vals) : order \in {Ascending, Unsorted},
     vals \in {<<1, 2>>, <<1, 2, 1, 2, 1>>, <<1, 2, 3, Null, 4, 1, 1>>, <<1, 1, 2, 2, 1>>}}
  \cup {IcebergCase(part, "date", Ascending, <<June2000, June2000 + 1, Null, June2000 + 365, June2000>>) :
          part \in {"day", "hour", "year", "month", "identity", "bucket"}}
  \cup {IcebergCase(part, "timestamp", order, <<June2000 * 48 + 20, June2000 * 48 + 21, Null,
                                               (June2000 + 31) * 48 + 1, June2000 * 48>>) :
          part \in {"day", "hour", "year", "month", "identity"}, order \in {Descending, <<ByDay>>}}
  \cup {IcebergCase("bucket", "int", Unsorted, <<Null, Null>>)}

\* Left out of AllCases: the sort orders the code does not keep to.
Decimals == {IcebergCase("none", "numeric", Ascending, vals) : vals \in {<<9, 10>>, <<-2, -1>>}}
Days == {IcebergCase("none", "timestamp", <<ByDay, By("id", FALSE)>>,
                     <<June2000 * 48 + 21, June2000 * 48 + 20>>)}
NullsLast == {IcebergCase("none", "int", <<[By("val", FALSE) EXCEPT !.nulls = "last"]>>, <<1, Null>>)}

AllCases == Inserts \cup Updates \cup Deletes \cup Framework \cup Iceberg

\* What the theorems about Implements, FilesInPartition and FilesSorted ask of
\* the statements.
ASSUME InsertsAssumption == \A x \in Inserts \cup Iceberg : WritesRows(x)
ASSUME ChangesAssumption == \A x \in Updates \cup Deletes \cup Framework : ChangesRows(x)
ASSUME KeysAssumption == \A x \in AllCases : ValueFails(x) \/ KeysAgree(x)
ASSUME OrderAssumption == \A x \in AllCases : OrderKept(x)

\* The other cases, left out of AllCases, for what the code does with them: the
\* file of such a statement is out of order.
ASSUME OrderLost ==
  \A x \in Decimals \cup Days \cup NullsLast :
    LET file == sortPartitionRows(x, x.stmt.rows)
    IN  \E i, j \in DOMAIN file : i < j /\ FormatBelow(x, file[j], file[i])
=============================================================================
