----------------------------- MODULE RemoteQuery -----------------------------
(***************************************************************************)
(* One statement over one foreign table: what the framework extracts, what *)
(* the wrapper asks for, what comes back, and what Postgres makes of it.   *)
(* Postgres filters the rows of a scan again and sorts and limits them     *)
(* itself (the paths carry no sort keys); the results of a pushed-down     *)
(* aggregate it takes as they are.                                         *)
(***************************************************************************)
EXTENDS RestDeparse, Functions

CONSTANTS
  Wrappers,
  Table,        \* Table[w]: the rows of the remote table
  Statements    \* Statements[w]: what is asked of w

\* The cells of a column.
Values(col) == CASE col = "b" -> BOOLEAN [] col \in {"s", "j"} -> Seq(Int) [] OTHER -> Int

Known ==
  {"bigquery", "snowflake", "clickhouse", "clickhouse_params", "mysql", "mssql", "duckdb", "cfd1",
   "iceberg", "mongodb", "dynamodb", "s3vectors", "tencent_cls", "prometheus", "logflare",
   "hubspot", "clerk", "shopify", "orb", "paddle", "notion", "infura", "langfuse", "stripe",
   "slack", "openapi", "airtable"}

ASSUME StatementAssumption ==
  /\ Wrappers \subseteq Known /\ DOMAIN Table = Wrappers /\ DOMAIN Statements = Wrappers
  /\ \A u \in Wrappers : \A r \in Table[u] : r = [c \in Columns |-> r[c]]

\* What stands for no value is none, and rows have the types of their columns.
ASSUME CellAssumption ==
  /\ All \notin Int /\ Null \notin Int \cup BOOLEAN /\ Word \notin BOOLEAN \cup {Null}
  /\ \A u \in Wrappers :
       /\ IsFiniteSet(Table[u])
       /\ \A r \in Table[u] : \A c \in Columns : r[c] = Null \/ r[c] \in Values(c)

VARIABLES
  w,        \* the wrapper
  st,       \* the statement
  phase,    \* how far it is
  quals, sorts, lim,   \* what the framework extracted
  pushed,   \* the aggregates are the wrapper's
  req,      \* the request
  got,      \* what came back: rows, or counts
  answer    \* what the statement returns

vars == <<w, st, phase, quals, sorts, lim, pushed, req, got, answer>>

Aggregating == {"bigquery", "clickhouse", "mysql", "mssql", "duckdb", "tencent_cls"}

Ask(u, qs, ss, l) ==
  CASE u = "bigquery"          -> BigqueryDeparse(qs, ss, l)
    [] u = "snowflake"         -> SnowflakeDeparse(qs, ss, l)
    [] u = "clickhouse"        -> ClickhouseDeparse(qs, ss, l)
    [] u = "clickhouse_params" -> ClickhouseParams(qs, ss, l)
    [] u = "mysql"             -> MysqlDeparse(qs, ss, l)
    [] u = "mssql"             -> MssqlDeparse(qs, ss, l)
    [] u = "duckdb"            -> DuckdbDeparse(qs, ss, l)
    [] u = "cfd1"              -> Cfd1Deparse(qs, ss, l)
    [] u = "iceberg"           -> Iceberg(qs)
    [] u = "mongodb"           -> Mongodb(qs, ss, l)
    [] u = "dynamodb"          -> Dynamodb(qs, l)
    [] u = "s3vectors"         -> S3vectors(qs, l)
    [] u = "tencent_cls"       -> TencentCls(qs)
    [] u = "prometheus"        -> Prometheus(qs)
    [] u = "logflare"          -> Logflare(qs)
    [] u = "hubspot"           -> Hubspot(qs, l)
    [] u = "clerk"             -> Clerk(qs)
    [] u = "shopify"           -> Shopify(qs)
    [] u = "orb"               -> Orb(qs, l)
    [] u = "paddle"            -> Paddle(qs)
    [] u = "notion"            -> Notion(qs)
    [] u = "infura"            -> Infura(qs)
    [] u = "langfuse"          -> Langfuse(qs, l)
    [] u = "stripe"            -> Stripe(qs, l)
    [] u = "slack"             -> Slack(qs)
    [] u = "openapi"           -> Openapi(qs, l)
    [] u = "airtable"          -> PushesNothing

AskAggregate(u, qs) ==
  CASE u = "bigquery"    -> BigqueryAggregate(qs)
    [] u = "clickhouse"  -> ClickhouseAggregate(qs)
    [] u = "mysql"       -> MysqlAggregate(qs)
    [] u = "mssql"       -> MssqlAggregate(qs)
    [] u = "duckdb"      -> DuckdbAggregate(qs)
    [] u = "tencent_cls" -> TencentAggregate(qs)

-----------------------------------------------------------------------------
Init ==
  /\ w \in Wrappers /\ st \in Statements[w]
  /\ phase = "parsed"
  /\ quals = <<>> /\ sorts = <<>> /\ lim = NoLimit /\ pushed = FALSE
  /\ req = Refused /\ got = {} /\ answer = {}

GetForeignRelSize ==
  /\ phase = "parsed" /\ phase' = "sized"
  /\ quals' = ExtractQuals(st.where)
  /\ sorts' = ExtractSorts(st.sort)
  /\ lim' = ExtractLimit(st)
  /\ UNCHANGED <<w, st, pushed, req, got, answer>>

\* The planner takes the path of the aggregate when it is offered, or not.
Plan ==
  /\ phase = "sized" /\ phase' = "planned"
  /\ \/ pushed' = FALSE
     \/ UpperPath(st, quals, w \in Aggregating) /\ pushed' = TRUE
  /\ UNCHANGED <<w, st, quals, sorts, lim, req, got, answer>>

\* begin_scan or begin_aggregate_scan.
BeginScan ==
  /\ phase = "planned"
  /\ req' = IF pushed THEN AskAggregate(w, quals) ELSE Ask(w, quals, sorts, lim)
  /\ phase' = IF req' = Refused THEN "failed" ELSE "begun"
  /\ UNCHANGED <<w, st, quals, sorts, lim, pushed, got, answer>>

IterScan ==
  /\ phase = "begun" /\ phase' = "scanned"
  /\ \E rows \in Answers(req, Table[w]) :
       got' = IF pushed THEN Counts(st.agg, st.grouped, rows) ELSE rows
  /\ UNCHANGED <<w, st, quals, sorts, lim, pushed, req, answer>>

\* The clauses again, then the aggregate, or ORDER BY with LIMIT and OFFSET.
ExecScan ==
  /\ phase = "scanned" /\ phase' = "answered"
  /\ IF pushed THEN answer' = got
     ELSE LET rows == Selected(got, st.where)
          IN  IF st.agg = "none" THEN answer' \in Windows(rows, st.sort, st.count, st.offset)
              ELSE answer' = Counts(st.agg, st.grouped, rows)
  /\ UNCHANGED <<w, st, quals, sorts, lim, pushed, req, got>>

Next == GetForeignRelSize \/ Plan \/ BeginScan \/ IterScan \/ ExecScan

Spec == Init /\ [][Next]_vars

-----------------------------------------------------------------------------
\* Quals carry values and never NULL, and the remote side is never asked for a
\* negative number of rows (offset + count wraps around in 64 bits).
TypeOK ==
  /\ w \in Wrappers /\ pushed \in BOOLEAN
  /\ phase \in {"parsed", "sized", "planned", "begun", "scanned", "answered", "failed"}
  /\ \A i \in DOMAIN quals :
       /\ quals[i].field \in Columns \cup {"j.x"}
       /\ IF quals[i].arr THEN Null \notin Range(quals[i].val) ELSE quals[i].val # Null
  /\ Range(sorts) \subseteq Range(st.sort)
  /\ req # Refused => req.max = All \/ req.max \in 0..MaxInt

\* What the statement would return if Postgres held the rows itself.
Reference ==
  LET rows == Selected(Table[w], st.where)
  IN  IF st.agg = "none" THEN Windows(rows, st.sort, st.count, st.offset)
      ELSE {Counts(st.agg, st.grouped, rows)}

\* Pushing down quals, sorts and the limit never changes the rows of a statement:
\* what the wrapper leaves out, Postgres would not have returned either.
RowsComplete == phase = "answered" /\ st.agg = "none" => answer \in Reference

\* An aggregate that the wrapper computes is the one Postgres would have computed:
\* every clause is in the request as it stands in the statement.
AggregatesExact == phase = "answered" /\ st.agg # "none" => answer \in Reference

-----------------------------------------------------------------------------
(* The statements a wrapper answers right.  The README says what the ones  *)
(* left out show.                                                          *)

Applies(op, col) ==
  \/ op \in {"=", "<>"}
  \/ op \in {"<", "<=", ">", ">="} /\ col \in {"k", "v", "t"}
  \/ op \in {"~~", "!~~", "~", "!~"} /\ col \in {"s", "j"}

IsClause(c) ==
  /\ c.col \in Columns
  /\ CASE c.node \in {"op", "rev", "param", "json", "expr"} ->
              /\ Applies(c.op, c.col) /\ (c.arg = Null \/ c.arg \in Values(c.col))
              /\ c.node # "expr" => (c.node = "json") = (c.col = "j")
       [] c.node = "null" -> c.op \in {"is", "is not"} /\ c.col # "j"
       [] c.node = "list" -> /\ Applies(c.op, c.col) /\ c.useOr \in BOOLEAN /\ c.col # "j"
                             /\ c.arg \in Seq(Values(c.col) \cup {Null})
       [] c.node = "test" -> /\ c.col = "b" /\ c.op \in {"is", "is not"}
                             /\ c.arg \in BOOLEAN \cup {Null}
       [] OTHER -> c.node \in {"bool", "not"} /\ c.col = "b"

IsStatement(s) ==
  /\ s.where \in Seq(Range(s.where)) /\ \A i \in DOMAIN s.where : IsClause(s.where[i])
  /\ s.sort \in Seq(Range(s.sort))
  /\ s.count = All \/ s.count \in 0..MaxInt
  /\ s.offset \in 0..MaxInt

\* A wrapper writes the qual as a condition that no row it selects fails.
Translates(u, q) ==
  CASE u \in {"mssql", "iceberg"} -> q.op = "is not" => q.val = Word
    [] u = "duckdb"      -> q.op \notin {"~", "!~"}
    [] u = "mongodb"     -> q.arr /\ q.useOr => q.op # "<>"
    [] u = "dynamodb"    -> q.field = "j.x" => q.op = "<>"
    [] u = "tencent_cls" -> /\ q.field \in {"s", "j.x"} /\ ~q.arr => q.op \notin {"<>", "!~~"}
                            /\ Bounding(q) /\ q.op = "<" => q.val % Unit = 0
    [] u = "prometheus"  -> q.field \in {"s", "j.x"} /\ ~q.arr => q.op # "~"
    [] u = "orb"         -> /\ Bounding(q) /\ q.op \in {"<", "<=", "="} => q.val % Unit = 0
                            /\ q.arr /\ ~q.useOr => q.val # <<>>
    [] u \in {"clickhouse_params", "notion", "infura"} -> q.field = "k" /\ ~q.arr => q.op = "="
    [] OTHER -> TRUE

\* What these find without such a qual is not the whole table.
Bounded(u, qs) ==
  CASE u = "infura"     -> \E i \in DOMAIN qs : qs[i].field = "k" /\ ~qs[i].arr /\ qs[i].val # Word
    [] u = "prometheus" -> \E i \in DOMAIN qs : Bounding(qs[i]) /\ qs[i].op # "<>"
    [] OTHER -> TRUE

\* The times of logs and samples are whole units within the default range.
Timed(u) ==
  u \in {"tencent_cls", "prometheus"} =>
    \A r \in Table[u] : r.t \in Hour..Now /\ r.t % Unit = 0 /\ (u = "tencent_cls" => r.t < Now)

\* Those that send ORDER BY with LIMIT, and those that stop after so many rows.
Sorting  == {"bigquery", "snowflake", "clickhouse", "clickhouse_params", "mysql", "mssql", "duckdb",
             "cfd1", "mongodb"}
Stopping == {"dynamodb", "s3vectors", "hubspot", "orb", "langfuse", "stripe", "openapi"}

NullTest(q) == q.op \in {"is", "is not"} /\ q.val = Word

\* Every clause is a qual and every qual a condition no other row meets.
Exact(u, where) ==
  LET qs == ExtractQuals(where)
      cell(i) == ~qs[i].arr
  IN  /\ Len(qs) = Len(where)
      /\ CASE u = "mongodb" ->
                 \A i \in DOMAIN qs :
                   IF cell(i) THEN qs[i].op \in Comparisons \ {"<>"} \/ NullTest(qs[i])
                   ELSE qs[i].useOr /\ qs[i].op = "="
           [] u = "tencent_cls" ->
                 \A i \in DOMAIN qs :
                   /\ cell(i) /\ qs[i].field \in {"k", "v", "b"}
                   /\ qs[i].op \in Comparisons \ {"<>"} \/ NullTest(qs[i])
           [] u = "clickhouse_params" ->
                 /\ \A i \in DOMAIN qs : cell(i)
                 /\ \A i, j \in DOMAIN qs : qs[i].field = "k" /\ qs[j].field = "k" => i = j
           [] OTHER -> \/ \A i \in DOMAIN qs : cell(i)
                       \/ Len(qs) = 1 /\ qs[1].val # <<>>

\* Where the remote side has the NULLs of a key.
NullsOf(u, o) ==
  CASE u \in {"mysql", "mssql", "mongodb"} -> "low" [] u = "duckdb" -> "last" [] OTHER -> o.nulls

KeyKept(u, o) ==
  /\ o.plain
  /\ \/ NullsFirst([col |-> o.col, desc |-> o.desc, nulls |-> NullsOf(u, o)]) = NullsFirst(o)
     \/ \A r \in Table[u] : r[o.col] # Null

Limitable(u, s) ==
  /\ s.constOffset
  /\ u \in Sorting => /\ Exact(u, s.where)
                      /\ \A i \in DOMAIN s.sort : KeyKept(u, s.sort[i])
  /\ u \in Stopping => s.where = <<>> /\ s.sort = <<>>
  /\ u \in Stopping \cup {"mongodb"} => s.offset + s.count <= MaxInt
  /\ u = "s3vectors" => s.offset = 0

Answerable(u, s) ==
  LET qs == ExtractQuals(s.where)
  IN  /\ IsStatement(s) /\ Timed(u)
      /\ \A i \in DOMAIN qs : Translates(u, qs[i])
      /\ Bounded(u, qs)
      /\ u \in Sorting \cup Stopping /\ ExtractLimit(s).count # All => Limitable(u, s)
      /\ u \in Aggregating /\ s.agg # "none" /\ Len(qs) = Len(s.where) => Exact(u, s.where)

StatementsAnswerable == \A u \in Wrappers : \A s \in Statements[u] : Answerable(u, s)
=============================================================================
