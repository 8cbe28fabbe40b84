---------------------------- MODULE MCRemoteQuery ----------------------------
(***************************************************************************)
(* Four rows; texts are sequences of two letters, times count half seconds *)
(* (half milliseconds for tencent_cls).  A wrapper is asked for every      *)
(* clause it answers right, alone and with a second clause, with and       *)
(* without LIMIT and aggregates; the README says what the others show.     *)
(***************************************************************************)
EXTENDS RemoteQuery, TLC

Op(node, col, op, arg) == [node |-> node, col |-> col, op |-> op, arg |-> arg]
List(col, op, arg, useOr) ==
  [node |-> "list", col |-> col, op |-> op, arg |-> arg, useOr |-> useOr]

Row(k, v, b, s, j, t) == [k |-> k, v |-> v, b |-> b, s |-> s, j |-> j, t |-> t]

Rows == {Row(1, Null, TRUE, <<1, 2>>, <<1>>, 2), Row(2, 1, Null, <<2>>, Null, 3),
         Row(3, 2, FALSE, Null, <<2>>, 4), Row(4, 2, TRUE, <<2, 1>>, <<1>>, 5)}

\* Samples are taken on whole seconds, logs are written on whole milliseconds.
MCTable == [u \in Wrappers |->
  IF u \in {"prometheus", "tencent_cls"} THEN {[r EXCEPT !.t = 2 * r.k] : r \in Rows} ELSE Rows]

-----------------------------------------------------------------------------
(* Clauses.                                                                *)

Numbers  == {Op("op", "v", o, 2) : o \in {"=", "<>", ">="}}
              \cup {Op("rev", "v", "<", 1), Op("rev", "v", ">=", 1), Op("param", "v", "=", 1)}
Nulls    == {Op("null", c, o, Null) : c \in {"v", "s"}, o \in {"is", "is not"}}
InList   == {List("v", "=", <<1, 2>>, TRUE), List("v", "=", <<2, Null>>, TRUE),
             List("k", "=", <<4, 1>>, TRUE)}
EmptyList == List("v", "<>", <<>>, FALSE)
OddLists == {List("v", "<>", <<1, 2>>, FALSE), List("v", "<>", <<1, Null>>, FALSE),
             List("v", "<>", <<1, 2>>, TRUE), List("v", "=", <<Null>>, TRUE),
             EmptyList}
Truths   == {Op("bool", "b", "=", TRUE), Op("not", "b", "=", FALSE)}
Tests    == {Op("test", "b", o, a) : o \in {"is", "is not"}, a \in BOOLEAN}
Unknowns == {Op("test", "b", o, Null) : o \in {"is", "is not"}}
KeyIs    == {Op("op", "k", "=", 2), Op("rev", "k", "=", 3)}
KeyRange == {Op("op", "k", o, 2) : o \in {"<>", ">"}}
TextIs   == {Op("op", "s", "=", <<2>>)}
TextNot  == {Op("op", "s", "<>", <<2>>)}
Like     == {Op("op", "s", "~~", <<2>>)}
NotLike  == {Op("op", "s", "!~~", <<2>>)}
Regex    == {Op("op", "s", o, <<1>>) : o \in {"~", "!~"}}
InTexts  == {List("s", "=", <<<<2>>, <<1, 2>>>>, TRUE)}
JsonIs   == {Op("json", "j", "=", <<1>>)}
From     == {Op("op", "t", o, a) : o \in {">", ">="}, a \in {3, 4}}
Until    == {Op("op", "t", o, a) : o \in {"<", "<="}, a \in {3, 4}}
At       == {Op("op", "t", "=", a) : a \in {3, 4}}
Local    == {Op("expr", "v", "=", 2), Op("op", "v", "=", Null)}

AllClauses == UNION {Numbers, Nulls, InList, OddLists, Truths, Tests, Unknowns, KeyIs, KeyRange,
                     TextIs, TextNot, Like, NotLike, Regex, InTexts, JsonIs, From, Until, At, Local}

\* What each answers right: not the operators it ignores, the times it cuts off, the
\* texts it searches in its own way.
Clauses(u) ==
  CASE u \in {"mssql", "iceberg"} -> AllClauses \ Tests
    [] u = "duckdb"               -> AllClauses \ Regex
    [] u = "mongodb"              -> AllClauses \ OddLists
    [] u = "dynamodb"             -> AllClauses \ JsonIs
    [] u = "tencent_cls"          -> AllClauses \ (TextNot \cup NotLike \cup {Op("op", "t", "<", 3)})
    [] u = "prometheus"           -> AllClauses \ Regex
    [] u = "orb"                  -> AllClauses \ (Until \cup At \cup {EmptyList})
    [] u \in {"notion", "infura", "clickhouse_params"} -> AllClauses \ KeyRange
    [] OTHER                      -> AllClauses

\* The columns these want a value of.
Wanted(u) ==
  CASE u \in {"clickhouse_params", "logflare", "infura"} -> {<<c>> : c \in KeyIs}
    [] u = "prometheus" -> {<<c, d>> : c \in KeyIs, d \in {Op("op", "t", ">=", 2), Op("op", "t", "<", 7)}}
    [] OTHER -> {<<>>}

First(u) == {Op("op", "t", ">=", 3), List("v", "=", <<1, 2>>, TRUE)} \cap Clauses(u)

Wheres(u) ==
  {a \o b : a \in Wanted(u), b \in {<<>>} \cup {<<c>> : c \in Clauses(u)}
                                 \cup {<<c, d>> : c \in First(u), d \in Clauses(u)}}

-----------------------------------------------------------------------------
(* Statements.                                                             *)

Plain(where) ==
  [where |-> where, sort |-> <<>>, count |-> All, offset |-> 0, constCount |-> TRUE,
   constOffset |-> TRUE, agg |-> "none", having |-> FALSE, groupExpr |-> FALSE, grouped |-> FALSE]

Key(col, desc, nulls, plain) == [col |-> col, desc |-> desc, nulls |-> nulls, plain |-> plain]

\* Those that send ORDER BY with NULLS FIRST and LAST, and those that do not.
SortingFully == {"bigquery", "snowflake", "clickhouse", "cfd1"}
SortingAs    == ("mysql" :> "first") @@ ("mssql" :> "first") @@ ("mongodb" :> "first") @@ ("duckdb" :> "last")

Sorts(u) ==
  {<<Key("k", TRUE, "first", TRUE)>>}
    \cup (IF u = "mssql" THEN {} ELSE {<<>>})
    \cup {<<Key("v", FALSE, n, TRUE), Key("k", FALSE, "last", TRUE)>> :
             n \in IF u \in DOMAIN SortingAs THEN {SortingAs[u]} ELSE {"first", "last"}}

\* With LIMIT: every clause and every key must be in the request as it stands.
ExactWheres(u) ==
  IF u \in Sorting \ {"clickhouse_params"}
  THEN {<<>>, <<Op("rev", "v", "<", 1)>>, <<List("k", "=", <<4, 1>>, TRUE)>>,
        <<Op("null", "s", "is not", Null), Op("op", "v", ">=", 2)>>}
  ELSE {a \o b : a \in Wanted(u),
                   b \in {<<>>} \cup IF u \in Sorting THEN {} ELSE {<<Op("expr", "v", "=", 2)>>}}

Limited(u) ==
  IF u \in Stopping
  THEN {[Plain(<<>>) EXCEPT !.count = n, !.offset = o] :
          n \in 0..3, o \in IF u = "s3vectors" THEN {0} ELSE 0..2}
  ELSE {[Plain(x) EXCEPT !.sort = y, !.count = n, !.offset = o] :
          x \in ExactWheres(u), y \in Sorts(u), n \in {0, 1, 3}, o \in IF u \in SortingFully THEN {0, 3} ELSE {0, 1}}

\* The planner cannot hand over a LIMIT that is no constant, nor sort for us.
Unsent(u) ==
  {[Plain(x) EXCEPT !.sort = <<Key("v", TRUE, "first", FALSE), Key("k", FALSE, "last", TRUE)>>,
                    !.count = n, !.constCount = FALSE, !.constOffset = FALSE] :
     x \in Wanted(u), n \in {2}}

\* An aggregate that is pushed down wants one list at most and nothing else, or no
\* list.  tencent_cls leaves lists out, finds more texts than asked for, and its
\* NOT finds NULL.
ForCounts(u) ==
  IF u = "tencent_cls" THEN (Numbers \ {Op("op", "v", "<>", 2)}) \cup Local \cup Truths
  ELSE Numbers \cup Local \cup Truths \cup Nulls \cup TextIs \cup From

Aggregated(u) ==
  IF u \notin Aggregating THEN {}
  ELSE {[Plain(x) EXCEPT !.agg = a, !.grouped = g] :
          x \in {<<>>} \cup {<<c>> : c \in ForCounts(u) \cup IF u = "tencent_cls" THEN {} ELSE InList}
                 \cup {<<c, d>> : c \in {Op("bool", "b", "=", TRUE), Op("expr", "v", "=", 2)},
                                 d \in ForCounts(u)},
          a \in {"count", "count_v", "filtered"}, g \in BOOLEAN}
       \cup {[Plain(<<>>) EXCEPT !.agg = "count", !.having = h, !.groupExpr = ~h, !.grouped = TRUE] :
                h \in BOOLEAN}

MCStatements == [u \in Wrappers |->
  {Plain(x) : x \in Wheres(u)} \cup Limited(u) \cup Unsent(u) \cup Aggregated(u)]

\* The run is within the hypothesis of the theorems that generalise it.
ASSUME RunIsAnswerable == StatementsAnswerable
=============================================================================
