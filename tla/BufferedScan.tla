---------------------------- MODULE BufferedScan ----------------------------
(***************************************************************************)
(* The wrappers that read the whole remote result in begin_scan and hand   *)
(* it out row by row: mssql, prometheus, stripe, duckdb, redis (sets,      *)
(* hashes and the multi_* sources), airtable, firebase and logflare, under *)
(* wrappers/src/fdw/.  They differ in what begin_scan, re_scan and         *)
(* end_scan do to the buffer and to the index into it.                     *)
(***************************************************************************)
EXTENDS Integers, Sequences, Functions

CONSTANTS
  Wrappers,   \* the wrappers of this instance
  Rescanned,  \* those the executor rescans with unchanged parameters
  Restarted,  \* those restart_scan of the framework begins a second time
  Asks,       \* what a scan may be begun with
  Rows,
  Remote,     \* Remote[a]: the rows the remote side returns for a
  Bound,     \* Bound[a]: LIMIT plus OFFSET, 0 for LIMIT 0, or All
  All,        \* no LIMIT was pushed down
  PageSize    \* rows in a page of the Stripe API

ASSUME BufferAssumption ==
  /\ Wrappers \subseteq {"mssql", "prometheus", "duckdb", "stripe", "redis",
                         "airtable", "firebase", "logflare"}
  /\ Rescanned \subseteq Wrappers
  /\ Restarted \subseteq Wrappers
  /\ Remote \in [Asks -> Seq(Rows)]
  /\ All \notin Nat
  /\ Bound \in [Asks -> Nat \cup {All}]
  /\ PageSize \in Nat \ {0}

VARIABLES
  w,       \* the wrapper of this instance
  agg,     \* the scan is an aggregate scan
  scan,    \* scan.buf is scan_result, scan.idx is iter_idx
  open, asked, given, ended   \* as in RemoteScan

vars == <<w, agg, scan, open, asked, given, ended>>

-----------------------------------------------------------------------------
(* The methods of each wrapper, as the states they may leave behind.  x is *)
(* the state they find.                                                    *)

Fresh == [buf |-> <<>>, idx |-> 0]

\* Faulty: only the last row is given back.
RewoundOneRow(x) == [x EXCEPT !.idx = @ - 1]

Rewound(x) == [x EXCEPT !.idx = 0]
Cleared(x) == [x EXCEPT !.buf = <<>>]

\* Faulty: the index of the scan before is kept.
MssqlBeginKeepsIdx(x, a) == {[x EXCEPT !.buf = Remote[a]]}

MssqlBegin(x, a)      == {[buf |-> Remote[a], idx |-> 0]}
MssqlReScan(x)        == Rewound(x)
MssqlEnd(x)           == Cleared(x)

PrometheusBegin(x, a) == {[buf |-> Remote[a], idx |-> 0]}
PrometheusReScan(x)   == Rewound(x)
PrometheusEnd(x)      == Cleared(x)

\* begin_scan of duckdb replaces the rows only; begin_aggregate_scan resets
\* the index too. (Both set the connection up anew, which fails on a connection
\* whose configuration is locked: Drop is the step of any method that fails.)
DuckdbBegin(x, a)     == {[buf |-> Remote[a], idx |-> IF agg THEN 0 ELSE x.idx]}
DuckdbReScan(x)       == Rewound(x)
DuckdbEnd(x)          == Cleared(x)

\* stripe stops after the pages that hold the rows LIMIT and OFFSET need.
StripeRows(a) ==
  LET n == (Bound[a] \div PageSize + 1) * PageSize
  IN  IF Bound[a] = All \/ Len(Remote[a]) < n THEN Remote[a] ELSE SubSeq(Remote[a], 1, n)

\* It asks for nothing under LIMIT 0, and keeps what it has.
StripeBegin(x, a) ==
  IF Bound[a] = 0 THEN {Rewound(x)} ELSE {[buf |-> StripeRows(a), idx |-> 0]}
StripeReScan(x)       == Rewound(x)
StripeEnd(x)          == Cleared(x)

\* re_scan of redis empties the buffer, which begin_scan alone fills.
RedisReset(x)         == Fresh
RedisBegin(x, a)      == {[RedisReset(x) EXCEPT !.buf = Remote[a]]}
RedisReScan(x)        == RedisReset(x)
RedisEnd(x)           == Cleared(x)

AirtableBegin(x, a)   == {[x EXCEPT !.buf = Remote[a]]}
AirtableEnd(x)        == Cleared(x)

\* firebase and logflare do not clear the buffer when the scan ends.
FirebaseBegin(x, a)   == {[x EXCEPT !.buf = Remote[a]]}

\* An empty body, as for 404, leaves the rows of the scan before.
LogflareBegin(x, a)   ==
  {[x EXCEPT !.buf = Remote[a]]} \cup IF Remote[a] = <<>> THEN {x} ELSE {}

-----------------------------------------------------------------------------
(* The trait's methods.                                                    *)

Draining == {"airtable", "firebase", "logflare"}
Aggregating == {"mssql", "duckdb"}

BeginScan(x, a) ==
  CASE w = "mssql"      -> MssqlBegin(x, a)
    [] w = "prometheus" -> PrometheusBegin(x, a)
    [] w = "duckdb"     -> DuckdbBegin(x, a)
    [] w = "stripe"     -> StripeBegin(x, a)
    [] w = "redis"      -> RedisBegin(x, a)
    [] w = "airtable"   -> AirtableBegin(x, a)
    [] w = "firebase"   -> FirebaseBegin(x, a)
    [] w = "logflare"   -> LogflareBegin(x, a)

\* The default of the trait does nothing.
ReScan(x) ==
  CASE w = "mssql"      -> MssqlReScan(x)
    [] w = "prometheus" -> PrometheusReScan(x)
    [] w = "duckdb"     -> DuckdbReScan(x)
    [] w = "stripe"     -> StripeReScan(x)
    [] w = "redis"      -> RedisReScan(x)
    [] w \in Draining   -> x

EndScan(x) ==
  CASE w = "mssql"      -> MssqlEnd(x)
    [] w = "prometheus" -> PrometheusEnd(x)
    [] w = "duckdb"     -> DuckdbEnd(x)
    [] w = "stripe"     -> StripeEnd(x)
    [] w = "redis"      -> RedisEnd(x)
    [] w = "airtable"   -> AirtableEnd(x)
    [] w \in {"firebase", "logflare"} -> x

\* airtable, firebase and logflare drain the buffer; the others walk over it.
HasRow(x)  == IF w \in Draining THEN x.buf # <<>> ELSE x.idx < Len(x.buf)
RowOf(x)   == IF w \in Draining THEN Head(x.buf) ELSE x.buf[x.idx + 1]
Advance(x) == IF w \in Draining THEN [x EXCEPT !.buf = Tail(@)] ELSE [x EXCEPT !.idx = @ + 1]

-----------------------------------------------------------------------------
Init ==
  /\ w \in Wrappers
  /\ agg \in IF w \in Aggregating THEN BOOLEAN ELSE {FALSE}
  /\ scan = Fresh
  /\ open = FALSE /\ asked \in Asks /\ given = <<>> /\ ended = FALSE

Begin ==
  /\ ~open
  /\ asked' \in Asks
  /\ scan' \in BeginScan(scan, asked')
  /\ open' = TRUE /\ given' = <<>> /\ ended' = FALSE
  /\ UNCHANGED <<w, agg>>

\* restart_scan: the framework ends the scan and begins it with other values.
Restart ==
  /\ open /\ w \in Restarted
  /\ asked' \in Asks
  /\ scan' \in BeginScan(EndScan(scan), asked')
  /\ given' = <<>> /\ ended' = FALSE
  /\ UNCHANGED <<w, agg, open>>

Iter ==
  /\ open
  /\ IF HasRow(scan)
       THEN /\ given' = Append(given, RowOf(scan))
            /\ scan' = Advance(scan)
            /\ UNCHANGED ended
       ELSE ended' = TRUE /\ UNCHANGED <<given, scan>>
  /\ UNCHANGED <<w, agg, open, asked>>

Rescan ==
  /\ open /\ w \in Rescanned
  /\ scan' = ReScan(scan)
  /\ given' = <<>> /\ ended' = FALSE
  /\ UNCHANGED <<w, agg, open, asked>>

\* end_scan, or an error; either way the framework drops the instance.
Drop ==
  /\ open
  /\ scan' = Fresh
  /\ open' = FALSE /\ given' = <<>> /\ ended' = FALSE
  /\ UNCHANGED <<w, agg, asked>>

Next == Begin \/ Restart \/ Iter \/ Rescan \/ Drop

Spec == Init /\ [][Next]_vars

-----------------------------------------------------------------------------
TypeOK ==
  /\ w \in Wrappers /\ agg \in BOOLEAN
  /\ scan \in [buf : Seq(Rows), idx : Nat]
  /\ open \in BOOLEAN /\ asked \in Asks /\ given \in Seq(Rows) /\ ended \in BOOLEAN

\* The rows the query needs of a scan: all there are, or the first of them.
Needed ==
  [a \in Asks |->
     {Remote[a][i] : i \in {j \in DOMAIN Remote[a] : Bound[a] = All \/ j <= Bound[a]}}]

\* Whatever the sequence of beginnings, restarts, rescans and rows, the buffer
\* and the index behave as a scan the framework can rely on: no row twice, and
\* None only when no needed row is missing.
R == INSTANCE RemoteScan
Implements == R!Spec
=============================================================================
