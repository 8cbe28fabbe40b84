# A formal model of Supabase Wrappers

Supabase Wrappers is a Rust framework (on pgrx) for PostgreSQL foreign data wrappers, with some
twenty native wrappers, a host for wrappers compiled to Wasm, and fifteen of those. This directory
models the parts of it whose correctness depends on the *order* in which things happen or on what is asked
of the other side: planning and execution of a foreign scan over a cached plan, the contract between
the framework and a wrapper's instance, the wrappers that keep state between calls, what is pushed
down, writes, how a Wasm component gets into a backend, and cells on their way through Iceberg
tables whose schema changes. TLC checks the modules on small instances; TLAPS proves the safety of
eight of them for every value of their constants.

## 1. Inventory

Each backend process of Postgres is single threaded; concurrency exists between a backend and the
worker threads a wrapper starts (ClickHouse, MySQL), between a backend and the remote service with its
other clients, and between backends that meet in the directory of cached Wasm components. That
directory is all that is persisted; what else survives a call is a Rust value reachable from a
Postgres node, or leaked.

| Part | State it keeps | Operations | Talks to | What makes it correct |
|---|---|---|---|---|
| Scan life cycle (`supabase-wrappers/src/scan.rs`, `memctx.rs`, `instance.rs`) | `FdwState` of the planner, the serialised `FdwScanPrivate` in the (cached) plan, `FdwState` of the executor: instance, quals, `param_fingerprint`, `recheck_params`, memory context | `get_foreign_rel_size`, `_paths`, `_plan`, `explain`, `begin`, `iterate`, `re_scan`, `end_foreign_scan` | Postgres (callbacks), the instance (trait methods) | every pass returns the answer of its own parameter values; the scan that runs is the one that was planned; every `FdwState` is dropped once |
| Aggregate pushdown (`upper.rs`) | aggregates stored in the planner's shared `FdwState` | `get_foreign_upper_paths` | planner, `scan.rs` | an aggregate is computed remotely only over exactly the rows of the clause |
| Trait and data types (`interface.rs`) | `Cell`, `Qual`, `Param`, `Row` | the trait `ForeignDataWrapper` | everything | the contract of `begin_scan`, `iter_scan`, `re_scan`, `end_scan` |
| Qual, sort, limit extraction (`qual.rs`, `sort.rs`, `limit.rs`) | none | `extract_quals`, `extract_sorts`, `extract_limit` | planner | what is pushed down is implied by the query |
| Modify life cycle (`modify.rs`) | `FdwModifyState` | `plan`, `begin`, `exec_insert/update/delete`, `end` | Postgres, the instance | each row is written once or the statement fails; the state is dropped once |
| Buffering wrappers (mssql, prometheus, stripe, duckdb, redis sets and hashes, airtable, firebase, logflare) | `scan_result`, `iter_idx` | trait methods | framework, remote service | the contract, whatever the order of begin, restart and rescan |
| ClickHouse | bounded channel, prefetched row, streaming task on its own runtime | trait methods | its worker thread | no row lost, repeated or reordered; no wait for ever |
| MySQL | worker thread, command channel, reply channel per command | trait methods | its worker thread | a late answer is never taken for another's; no truncation |
| Paging wrappers (bigquery, s3vectors, mongodb, dynamodb, auth0, cognito, tencent_cls, redis lists and streams, iceberg, the Wasm wrappers) | page buffer, index, cursor, counts, limit | trait methods | remote service | every page once, the end only after the last, every call returns |
| Requests of all wrappers (`deparse`, filters, parameters) | none | `begin_scan`, `begin_aggregate_scan` | framework, remote service | what the request leaves out the statement does not need; a remote aggregate is exact |
| Writes of all wrappers | row id column, batch buffer (s3vectors) | `begin_modify`, `insert`, `update`, `delete`, `end_modify` | remote service | the changes of the statement and no other |
| Iceberg | staging buffer, one buffer per partition, table metadata, pinned schema, JSON of a batch | `import_foreign_schema`, scan methods, `insert`, `end_modify` | object store, catalog, other clients of the table | each row in one file of its partition, sorted, committed before the statement ends; a cell reads back as it was inserted, whatever the schema became |
| S3 | line buffer over a decompressed object, or a Parquet batch | trait methods | object store | every record once, the end only at the end of the object |
| Wasm host (`wasm_fdw.rs`, `host/`) | cache directory shared by all backends, guest instance, resource tables, HTTP client with retries | `new`, host functions, trait methods | other backends, the place a package is published at, the guest, the remote service | what runs is a package the server named, whatever is in the cache; calls reach a live guest with the values of this scan |
| Options, import, utilities, macros, statistics, helloworld | none that outlives a call | | | |

The behaviours that are hard to test, with the lines where they bite, are the `hazards` of
`PROJECT.json`. The main ones: restarting a remote scan under changed parameters, rewinding it under
unchanged ones, `PARAM_EXEC` values that arrive after the remote scan began, NULL parameters,
aggregates left in a state shared by two paths, errors that unwind past the owner of a state, one
instance begun twice, rows in flight between a task and a backend, two threads waiting on each
other while a wrapper is dropped, sources that change between two pages, files of the cache written
by two backends or cut off by a crash, and schemas that change between import, INSERT and SELECT.

## 2. Modules

```
QueryScan  <--implements--  ForeignScan  --relies on-->  RemoteScan  <--implement--  BufferedScan
   (what a query assumes)   (the framework)              (the trait)                 ClickHouseStream
                                                                                     MysqlWorker
                                                                                     PagedScan

RemotePages <- NativePagers, WasmPagers <- PagedScan            (A <- B: B extends A)
               NativePagers, WasmPagers <- LiveScan             (instances of them)

StatementTable <- QualExtract <- RemoteRequest <- SqlDeparse <- ApiDeparse <- RestDeparse <- RemoteQuery

StatementEffect  <--implements--  ForeignModify -> IcebergWriter -> TableWriters -> Selection
   (what a statement promises)    (framework, remote side)

WasmComponent (before every instance of a Wasm wrapper)         IcebergTable (schemas and cells) -> Selection
```

A module `XProofs` holds the theorems about `X`; `RowScanProofs` holds those about `PagedScan` and, as
an instance, `BufferedScan`, and `ForeignScanProofs` those about `ForeignScan` and `ClickHouseStream`,
whose definitions carry `Stream` in their names where the two would meet. `Selection` is the sequence of the elements with a
property, as a function that can be reasoned about.

| Module | Models |
|---|---|
| `QueryScan` | Abstract: what a query may assume of a foreign scan. A pass delivers rows of the answer, each once, and ends only when none is missing. |
| `ForeignScan` | The core: planning, cached plan and execution of one foreign scan (`scan.rs`, `upper.rs`, `memctx.rs`, `instance.rs`). |
| `RemoteScan` | Abstract: what the framework relies on from an instance. |
| `BufferedScan` | Eight wrappers that read everything in `begin_scan`. |
| `ClickHouseStream` | The ClickHouse wrapper's backend, task and channel, with fairness. |
| `MysqlWorker` | The MySQL wrapper's backend, its worker threads, their command channels and replies, with time-outs. |
| `RemotePages` | An instance that pages, and a remote side that answers with full, short or empty pages. |
| `NativePagers`, `WasmPagers` | The methods of the native wrappers and of the Wasm wrappers that page. |
| `PagedScan` | The calls of the framework and the requests of those wrappers, with rate limits and fairness. |
| `StatementTable` | External: what clauses, ORDER BY, LIMIT, OFFSET and aggregates mean to Postgres. |
| `QualExtract` | What the framework makes of a statement (`qual.rs`, `sort.rs`, `limit.rs`, `upper.rs`). |
| `RemoteRequest` | What a wrapper may ask for, and the rows that may come back. |
| `SqlDeparse`, `ApiDeparse`, `RestDeparse` | The requests of the wrappers that send SQL, of those with a query language or driver of their own, and of the REST services. |
| `RemoteQuery` | One statement from the planner to its answer. |
| `StatementEffect` | Abstract: what an INSERT, UPDATE or DELETE promises. |
| `TableWriters` | `insert`, `update`, `delete` and `end_modify` of the wrappers that write. |
| `IcebergWriter` | The same of Iceberg: partition keys and values, sorting, buffers, data files. |
| `ForeignModify` | The modify callbacks (`modify.rs`), the requests and their retries, rivals and failures. |
| `LiveScan` | Scans of sources other clients change meanwhile: redis lists, sorted sets and streams, clerk, auth0. |
| `WasmComponent` | How `new` of the Wasm wrapper finds, downloads, checks, saves and compiles its component, with the other backends. |
| `IcebergTable` | Schema import, tables created on demand, and cells from INSERT through Arrow arrays to SELECT, while others evolve the schema. |
| `Selection` | The elements of a sequence that are in a set. |
| `ForeignScanProofs`, `RowScanProofs`, `RemoteQueryProofs`, `MysqlWorkerProofs`, `LiveScanProofs`, `ForeignModifyProofs`, `WasmComponentProofs`, `IcebergTableProofs` | Theorems, see section 4. |
| `MC*` | The same with constants for TLC. |

### ForeignScan

Postgres is the environment. It plans (`GetForeignRelSize`, then possibly `GetForeignUpperPaths`,
then `GetForeignPlan` for a base or an upper path, or gives up), keeps or drops the plan, executes
it any number of times with any values of the parameters (`BeginForeignScan`), asks for tuples
(`IterateForeignScan`), rescans (`ReScanForeignScan`), ends, or aborts elsewhere. One action is one
callback, complete with its error variants (`IterateError`, `IterateColumnMismatch`, `ReScanError`,
`InstanceCreationError`, `GetForeignPathsError`).

| Variable | Code |
|---|---|
| `kind` | what `extract_quals` made of each clause: constant, `PARAM_EXTERN`, pseudo-constant expression, `PARAM_EXEC`, or nothing (`local`) |
| `planner`, `plan`, `planAgg` | the planner's `FdwState`, the path in the plan, the aggregates in `FdwScanPrivate` |
| `exec`, `state` | whether an execution (or EXPLAIN) is under way; `ScanState.fdw_state` |
| `ctxs` | memory contexts under the Wrappers root, so that leaks can be counted |
| `cur` | what each clause compares with in this pass, as Postgres knows it |
| `value`, `evalValue`, `fp`, `recheck` | `Qual::value`, `Param::eval_value`, `param_fingerprint`, `recheck_params` |
| `mode`, `remote`, `pending` | how the instance was begun, the rows its remote scan covers, those not yet returned |
| `got`, `done` | the rows that reached the query in this pass, and whether the scan said it was over |

Two abstractions carry the model. A plain remote scan may cover any superset of the rows that match
the pushed values (a wrapper may ignore quals; Postgres filters again), an aggregate scan exactly
those (nothing filters again). And a row is its values in the columns of the clauses; equality
stands for any operator, and grouping is not told apart (`got` of an aggregate is the set of rows it
was computed over). A tuple is taken for delivered when it survived Postgres' filter. `ZeroVal` is
the value of the zeroed slot a `PARAM_EXEC` reads as before its initplan is linked (NULL for types
passed by reference). One scan node is modelled; plans of several nodes do not share state.

### RemoteScan, BufferedScan

`RemoteScan` states the contract in the words of the trait: rows at most once between two
beginnings, `None` only when no row *the query needs* is missing (`Needed`, which accounts for LIMIT
and OFFSET), `re_scan` starts over. `BufferedScan` has one operator per wrapper and method
(`MssqlBegin`, `RedisReScan`, ...) over the same instance state `scan = [buf, idx]`, and the
framework's sequences of calls as actions. `Restart` is `restart_scan`: `end_scan` followed by
`begin_scan` on the same instance. A method that fails makes the framework drop the instance, which
is `Drop`. Firebase's own `limit` option is assumed not to be reached. `Restarted` and `Rescanned`
name the wrappers of the instance that the framework restarts and rescans.

### ClickHouseStream

Every blocking point is a state of the backend (`pc`: `recv`, `drop`) or the task (`task`: `send`).
`setup_streaming` holds a sender of its own while it waits for the first row (`inSetup`), a
disconnected channel counts as the end of the stream (`StreamOver`), `end_scan` drops the receiver
but not the task, and a wrapper's fields are dropped in declaration order, runtime first
(`DropWrapper`). The task of a scan before has no end of the new channel and is forgotten when a new
stream is set up; that it occupies the one worker thread until its send fails is part of `Connect`
taking its time.

Fairness (`FairSpec`): a backend inside a method goes on when it can, and so does the task, which
assumes that the remote side answers (the wrapper has no time-out). Nothing is assumed of the
executor, which may stop asking at any time.

### MysqlWorker

The backend calls (`SetupStreaming`, `IterScan`, `ExecuteSql`, `ImportForeignSchema`, `End`), puts
the command into a channel of one slot (`Put`, which may have to wait) and waits for the reply
(`Answered`, `TimedOut`). A worker takes commands at its own pace (`Take`, `DoQuery`, ...), may panic
when it starts (`Start`) and may wait for the server for ever (`Hang`). The reply channel is made
anew for every command, so a worker remembers whether the receiver of its answer still exists
(`heard`) and whether its command channel still has a sender (`sender`). An instance whose query is
aborted elsewhere is never dropped (see `ForeignScan`), and neither is its sender (`leaked`).
A server that fails may have executed the statement all the same (`DoExecute`). What a worker
without an instance still reads from its stream reaches nobody, so the stream is forgotten at once,
and a worker that will do nothing again gives up its place to the next.

Fairness: the backend proceeds inside a method, which assumes no more than that its clock does,
since `TimedOut` is always possible while there is no reply; a worker proceeds unless the server
hangs.

### PagedScan

An instance is one record (`RemotePages`): the page it holds and the index into it, the cursor, a
count of rows, a count of pages, the limit it keeps. `...Begin`, `...Fetch`, `...ReScan` and `...End`
of `NativePagers` and `WasmPagers` are the methods of each wrapper; `PagedScan` makes them calls. A
call that needs the remote side stops in `call = "begin"` or `"ask"` until `Request` brings a page,
and `Throttle` is the answer 429. What `iter_scan` does with a drained page differs between the
wrappers in four tests only (`Reached`, `NoMorePages`, `EmptyEnds`, `EmptyPanics`), and each is an
operator over all of them. iceberg and s3 read a stream in parts (`Parts`) instead of asking for pages:
record batches, or buffers of whole lines that may hold no record. `Sparse` names the services whose API allows a page that is short or
empty and still has a token.

Fairness: a call goes on (`Request`, and the steps of `iter_scan`), and the remote side does not
answer 429, or with empty pages, for ever (`SF_vars(Answered)`). The second is an assumption about the
services, not the code: only cfd1, infura and openapi bound their retries. Nothing is assumed of
the executor.

### RemoteQuery

A statement has clauses, each one of the expression nodes `extract_quals` tells apart, ORDER BY,
LIMIT, OFFSET and an aggregate. `QualExtract` translates what the framework makes of it;
`RemoteRequest` has the common form of a request: alternatives of conjunctions of atoms, an order,
a maximum, and whether the maximum is a request or only where the wrapper stops paging. Each
wrapper has an operator that turns quals, sorts and limit into a request (`MysqlDeparse`,
`DynamodbAccepts`, `PaddleQual`, ...), and `Answers` are the row sets that may come back. Postgres
then filters, sorts and limits the rows of a plain scan again, and takes the results of an aggregate
as they are. Values are numbers, texts (sequences of two letters, so that LIKE and regular
expressions differ from equality) and half units of time (so that truncation to whole units shows).
`RowsComplete` and `AggregatesExact` compare with the statement evaluated by Postgres alone.

### ForeignModify

One action is one callback; a method of the wrapper returns the instance it leaves, the request it
makes and whether it fails, by an error (`DropState`) or by unwinding past the callback (`Unwind`).
The request stays in `request` until the remote side has carried it out (`RemoteWrites`: the answer
arrives, is lost and the request is sent again, or is lost for good) or refused it. UPDATE and
DELETE find their rows with a scan that goes on meanwhile (`FetchPage`), and `RivalDeletes` is another
client. The row id passes through `get_rowid_cell`, which has no cell for NULL or for a type `Cell`
does not hold; such rows are skipped. `contexts` and `unwound` count what stays in the backend.

`Implements` refines `StatementEffect`, whose variables are all computed from the model's:
`changes` of the statement, `todo` those the remote table does not show yet; `repeats` is whether the
client sends again. A row is there as often as it was created, so the table is a bag. `IcebergWriter` keeps
`process_current_batch`, `process_partitions` and the data files, with the conversion of dates and
timestamps done in half hours since 1970: keys count from 2000 for timestamps, values from 1970, and
years and months are the quotients the code computes. A sort key (`cellToSortValue`) is a sequence of
numbers, compared like a string: one number for what the code compares as a number, none for NULL, and
the sign and digits of a numeric, which the code makes a string. The order of the table format
(`FormatBelow`), with transforms, null orders and numerics as numbers, is stated beside it.

### LiveScan

The methods are those of `NativePagers` and `WasmPagers`, instantiated over a remote side that is a
variable (`store`). Others put elements anywhere (streams: at the end) and take them from anywhere,
between any two calls; an element that is moved is taken and put. A request is answered at once, by
the source as it is then. `Boundary` is how far into the source the instance has read; `pulled` and
`pushed` count the changes others made in that part, `stays` are the elements that were there all the
time. No scan by index can promise every element, so `MissesBounded` and `RepeatsBounded` promise
the next best: what is skipped or repeated is accounted for by changes in the part already read, and
nothing else is. Other wrappers that page hold a cursor the service interprets.

### WasmComponent

`pc` walks through `new`: `lookup` (does the file exist), `cached` (read and compile it), `evict`
(remove it), `download`, `create` and `write` (the parts of `fs::write`, block by block), `load`,
`discard`, `instantiate`, `ready`. A package is a sequence of blocks equal to itself, its checksum is
the package; a file with blocks of two packages, or one that is cut off, does not compile. A file that
is unlinked while it is written goes on to exist for its writer (`fd`) and nobody else. A full disk
stops a write anywhere (`WriteError`), a crash of the server stops all backends and leaves the
directory as it is (`Crash`). `AlterServer` and `Publish` are the others: new options, and another
package at the same place. Reading a file takes one step; `file://` and `warg://` packages do not pass
through this cache (`Local`). A server without a checksum is one that was created before the option
was required; nothing can be downloaded for it. Liveness is not claimed: a backend may fail for as
long as others write.

### IcebergTable

`schemas` are all the schemas the table had, `snap` the files and the schema under which its snapshot
was made, `foreign` the foreign table with its pinned `schema_id`. A row of a file is a function from
field ids to values (`is`), beside what the statement meant (`meant`) and whether the columns of the
foreign table were the fields in their order (`aligned`). A cell is a shape (plain, JSON object, JSON
array, NULL) and a number that tells apart what conversions keep and drop. `Reads` and `MapCell` are
`map_cell`, with the JSON that is taken from the whole batch converted before; `AppendNumber` to
`AppendMap` are the branches of `append_array_value`. A scan finds its columns by name in the pinned
schema and again in that of the snapshot, which is the schema the library reads under; an INSERT fills
one array per field of the current schema by position. Other clients add, drop, rename, move and widen
fields and write rows between any two steps. There is one statement at a time and one partition here:
`IcebergWriter` has the partition buffers, `PagedScan` the batches of longer scans.

## 3. Runs

| Run | Question | Result |
|---|---|---|
| `foreign_scan` | Do parameter assignment, fingerprint, restart at the first iteration and rescan give each pass its own answer, over any history of a cached plan? Is the planned kind of scan run? Are states dropped once, and leaks only due to unwinding? | holds, 18 206 states |
| `foreign_scan_opaque` | ... with a parameter of type varchar or bpchar? | violated: finding 1 |
| `buffered_scan` | Do the buffering wrappers keep the contract of the trait? | holds for the wrappers and methods named in the configuration, 243 states |
| `clickhouse_stream` | Are rows delivered once, in order and completely; does a waiting backend return; can a wrapper always be dropped? | holds when every value converts |
| `clickhouse_bad` | ... and when a value does not convert in the backend? | violated: finding 2 |
| `mysql_worker` | Do answers of one command, scan or worker ever pass for another's? Is a scan cut short, or a row written twice, by a time-out? Does every method return, and every worker exit? | holds, 150 786 states |
| `paged_scan` | Do the wrappers that page keep the contract of the trait whatever pages they are given, and does every call return? | holds for the scans named below, 3 166 states |
| `remote_query` | Does pushing down clauses, sorts and limits ever change the rows of a statement, or an aggregate? | holds for the statements named below, 53 533 states |
| `foreign_modify` | Does a statement make its changes and no other, over batches, buffers, retries, refusals, rivals and errors? Are Iceberg files sorted and of one partition? | holds for the statements named below, 7 232 states |
| `live_scan` | How many elements can a scan skip or repeat while others change the source? | no more than they moved over its position, 633 618 states |
| `wasm_component` | Can a crash, a full disk or another backend make a backend run a package the server never named, or keep it from a valid one? | holds, about 1.56 million states |
| `iceberg_table` | Does every cell read back as it was inserted, under the name of its column, whatever others do to the schema and the rows? | holds for the types named below, 1 161 708 states |

Properties, by hazard: `AnswerCorrect` (parameters, restarts, rescans, aggregates),
`DispatchFollowsPlan` (shared planner state), `NoRowTwice` (restart within a pass), `ContextsOwned`,
`LeaksOnlyWhenUnwound` and `NothingLeftBehind` (ownership and error paths), `Implements` (refinement of
the abstract module: `QueryScan`, `RemoteScan` or `StatementEffect`), `NothingLost`, `RecvReturns`,
`DropReturns`, `BackendReturns`, `WorkersExit` (threads), `WrittenOnce` (time-outs), `CallReturns`
(cursors and rate limits), `RowsComplete` and `AggregatesExact` (push-down), `BuffersBounded`,
`FilesInPartition` and `FilesSorted` (Iceberg, s3vectors), `MissesBounded` and `RepeatsBounded`
(sources that change), `LoadedWasNamed` and `InvalidOnlyWhenDisturbed` (the component cache),
`ReadsBackAsInserted` (schemas and conversions).

Bounds. `foreign_scan`: two clauses (so that two kinds of qual interact), two values, three of the
four possible rows (each clause selects some and rejects some), one leaked context at a time;
executions, passes and plans are unbounded. `buffered_scan`: a question with more rows than LIMIT
needs and more than a page, one without LIMIT, one without rows, one with LIMIT 0; unbounded
sequences of calls. `clickhouse_stream`: five rows and a channel of two, so that each side has to
wait for the other; the violation needs only a channel of one. `mysql_worker`: two questions of two
rows, so that rows of two scans can be told apart and come in an order, two rows to write, so that a
late answer for one could pass for the other, and two workers, the one that was given up and the one
in use; commands and instances are unbounded, and so are the workers that are gone or stuck.
`paged_scan`: pages of two rows, results of none, less than a page, two full pages, and two pages
and a half, LIMIT inside and at the end of a page, with and without OFFSET, of which a wrapper is
asked those it can answer (`Answerable`), retries bounded by two (five and three in the code); calls
are unbounded. `remote_query`: four rows that differ in every column and hold NULLs, one or two
clauses of some thirty kinds, LIMIT and OFFSET up to the largest integer (5 here, 2^63 - 1 in the
code). `foreign_modify`: statements of up to seven rows over batches of two and partition buffers of
three, so that a file of a buffer that filled can be out of order, a flush at three partitions
(eight in the code), two sends (four in the code), pages of two rows and rivals that delete rows of
the statement. `live_scan`: pages of two, four elements at first and two more, so that a pass has a
boundary inside the source and a page is both full and short; passes are unbounded.
`wasm_component`: two backends of one user (those of two users share nothing), two releases and a
local one, packages of two blocks and of one, so that a file can be cut off, mixed, and longer than
what is written over it; calls, crashes and alterations are unbounded. `iceberg_table`: a field of
each type beside one that holds JSON, or declared columns for a table to be created; three rows in
batches of two, so that a batch ends inside a file and the next begins; one change of the schema, so
that import, INSERT, snapshot and SELECT go by different ones. Two changes with two rows
(`MaxSchemas = 3`, `MaxRows = 2`, 2.6 million states) hold as well.

Deadlock checking is off in `clickhouse_bad`, where the wait for ever is the point, in
`remote_query`, where a statement ends, and in `iceberg_table`, where a foreign table of a type that
no Iceberg table can be created with stays as it is.

### Findings

1. A parameter whose type is no `Cell` is pushed down as its placeholder.
2. Dropping the ClickHouse wrapper after a failed numeric conversion waits for a task that waits for
   the receiver to go.

`PROJECT.json` quotes the lines for each.

### What the passing runs leave out

A wrapper appears in a passing run with the calls and statements it answers right. The constants of
the MC modules name what is left out; adding it back gives a counterexample. In short:

*Rescans and restarts.* The trait documents `re_scan` as "Called when restart the scan from the
beginning", and its default does nothing: airtable, auth0, bigquery, cognito, firebase, logflare, s3,
s3vectors and helloworld keep it (tencent_cls overrides it with the same nothing), so a rescan with
unchanged parameters goes on where the pass before stopped. `foreign_scan` therefore takes
`ReScanRewinds = TRUE`; with FALSE `AnswerCorrect` fails. `re_scan` of redis empties the rows of sets
and hashes that only `begin_scan` reads. `begin_scan` of duckdb keeps the index of the scan before. A
restarted s3vectors keeps its stream and counts, restarted shopify, hubspot and orb their cursor, a
restarted langfuse its page number; a rescan of shopify and of Notion blocks does not start over.

Without LIMIT hubspot and orb return their first page only: the end of the scan is
`Some(consumed) >= src_limit`, which holds when the limit is `None` (hubspot_fdw/src/lib.rs:276,
orb_fdw/src/lib.rs:448).

A CSV record with a quoted line break that falls on the end of the s3 buffer becomes two rows.

*LIMIT and OFFSET.* dynamodb skips OFFSET rows and so does Postgres after it. s3vectors leaves OFFSET
out of its limit, and takes a page from its end, so that a LIMIT below the number of rows keeps other
rows than the first; numbered pages of langfuse stop inside a page. Which rows LIMIT keeps without
ORDER BY is the wrapper's choice, and the model wants the first.
tencent_cls and the single-page requests of slack read one page. hubspot, orb, stripe, openapi,
langfuse, dynamodb and s3vectors apply LIMIT before the clauses and sorts they did not push down
(and so does everything that pushes LIMIT beside a clause it did not), and an OFFSET that is no
constant counts as 0 beside a constant LIMIT.

*Clauses.* An IN list is deparsed as alternatives without parentheses (interface.rs:589,
mysql_fdw.rs:160), so `v in (1, 2) and k > 2` becomes `v = 1 or v = 2 and k > 2`: a plain scan survives
it, an aggregate beside a second clause counts other rows. `is not true` loses NULL rows on mssql and iceberg. `~` is anchored on duckdb and
prometheus. mongodb takes `<> ANY (list)` for "in none of". dynamodb compares a jsonb key as text.
tencent_cls loses rows with `<>` and `!~~` on tokenised text and `<` within a millisecond, and its
aggregates count other rows for lists, texts and `<>`. orb truncates the time of `<`, `<=` and `=`.
notion, infura and the parameters of a ClickHouse table look at the field of a qual and not at its
operator. mysql, mssql, mongodb and duckdb cannot say NULLS FIRST where their default differs.

*Writes.* Row ids of type varchar have no cell: every row is skipped and reported as changed; a NULL
row id is skipped likewise. cfd1 deletes by a text that keeps its quotes. A DELETE of several pages by
clerk pages by offset over what it deletes; orb changes rows of the first page only. A NULL is not
assigned by stripe and paddle, an insert whose first cell is NULL sends nothing with cal, the text
`null` becomes NULL in cfd1, ClickHouse truncates to small unsigned types, dynamodb replaces a row
with the key of an inserted one and creates a row a rival deleted. An assignment to the row id column
is dropped (mongodb, dynamodb) or fails (the SQL wrappers). The wrappers that do not override a modify
method accept and ignore it.

*Iceberg partitions.* The key of a timestamp counts from 2000 and is truncated towards zero, the value
stored with a file counts from 1970 and is that of its first row (utils.rs:83-88, 193-342): rows of the
day before and the day after 2000-01-01 share a file that readers prune by the day of one. Months
and years are computed with 30.44 and 365.25 days and differ near their ends; identity on dates fails.

*Iceberg sort orders.* A numeric is ordered by its text (sorter.rs:167): numbers come out right only
while they have equally many digits, and negative ones are reversed. The transform of a sort field
is not looked at (sorter.rs:126-145): days, hours, months and years ascend with their values, so
this shows only when another field follows, and the values of a period are then in the order of
their times. NULL is the least key (sorter.rs:28-29), so NULLS LAST of an ascending field and NULLS
FIRST of a descending one are ignored. `FilesSorted` compares the rows of a file by what the format
says (`FormatBelow`), not by the keys of the code. `foreign_modify` writes tables with the orders
the keys keep to (`OrderKept`: none, one field or two, ascending and descending, by time, and
numerics of equal length). The others are no statements of the run: for one of each kind the
assumption `OrderLost` has TLC sort the rows as the code does and find them out of order: 10 before
9, -1 before -2, id 2 before id 1 of the same day, and NULL before 1 where NULLS LAST is asked for.
The comment of `sort_partition_rows` promises "table's sort specification" (sorter.rs:71), so these
are faults of the code. Digits after the point are not modelled, and neither are sort fields with
bucket or truncate or inside a struct.

*Iceberg cells.* An INSERT matches columns by position. Through a foreign table whose columns are no
longer the fields in their order (moved, dropped and added, or declared in another order) a row goes
into other fields, and a cell of another type becomes NULL without an error; with fewer or more
columns than fields the statement fails. Such rows are not `aligned`. NULL is also what becomes of JSON
of another shape than the field, of its members of another type, and of decimals of more than 28
digits; a numeric without precision keeps no digits after the point, a time is read to the second.
timestamp_ns and timestamptz_ns are listed as supported in docs/catalog/iceberg.md:287-304 and neither
imported, read nor written; a column of type timestamptz cannot be created, since the name compared
with is "timestamp with time zone". A column younger than the snapshot cannot be selected until a row
is written, because the library reads under the schema of the snapshot.

*Component cache.* The cache file of a package is named after user, URL, name and version, not after its
checksum (get_cache_path): once the server names a rebuilt package of the same version, the old one is
still loaded, without a comparison. "if loading fails, remove invalid cache file" unlinks the path
whatever is there by then: another backend may have completed the file, and then fails its own load
and downloads again.

## 4. Proofs

`ForeignScanProofs` proves, for every set of rows, clauses and values and every bound on leaks:

| Theorem | Statement |
|---|---|
| `TypeCorrect` | `Spec => []TypeOK` |
| `ContextsAreOwned` | `Spec => []ContextsOwned` |
| `LeaksAreUnwound` | `Spec => LeaksOnlyWhenUnwound` |
| `AnswersCorrect` | `Faithful => (Spec => []AnswerCorrect)` |
| `DispatchIsPlanned` | `Faithful => (Spec => []DispatchFollowsPlan)` |
| `RowsOnce` | `Faithful => (Spec => []NoRowTwice)` |
| `ImplementsQueryScan` | `Faithful => (Spec => Implements)` |

`Faithful` says that `re_scan` rewinds (see *Rescans and restarts*) and that every parameter has a
type `Cell` holds (finding 1). Without either the answers are wrong. The named assumption `ScanAssumption` only says what the constants are.

None of the properties is inductive. `CoreInv` (the types, and at least as many contexts as owned
states) carries the first two, with `ExecInv` (an execution is under way exactly while the node
holds a state) the third. The answers need `ScanInv`, which adds `PlanInv` (a plan with aggregates
has constants only and belongs to the upper path), `ValueInv` (`fp` is the fingerprint of the values
the scan was begun with; a pushed value is what the pass compares with, except where the parameter
is NULL, so that the clause selects nothing, or where an initplan has not run yet, so that `recheck`
is still set) and `PassInv` (the remote scan covers every row the pushed values match, exactly those
under aggregates, and what the query has is what was taken from it and survived the filter).
`SameFingerprintIterate` and `SameFingerprintReScan` are the heart: when the fingerprint says that
nothing changed, the pushed values did not change. The induction has one step per action; the
iteration and the rescan, where values, fingerprint and remote scan change together, have lemmas of
their own.

The other modules:

| Theorem | Statement | For every |
|---|---|---|
| `RowScanProofs!PagedTypes` | `Spec => []TypeOK` of `PagedScan` | table, page size, number of retries |
| `RowScanProofs!PagedScanIsReliable` | `Reliable => (Spec => Implements)` | |
| `RowScanProofs!BufferedTypes` | `BufferReliable => (Spec => []TypeOK)` of `BufferedScan` | table, question, page size |
| `RowScanProofs!BufferedScanIsReliable` | `BufferReliable => (Spec => Implements)` | |
| `ForeignScanProofs!StreamTypes` | `StreamSpec => []StreamTypeOK` | number of rows, size of the channel, set of rows that do not convert |
| `ForeignScanProofs!RowsArrive` | `StreamSpec => []NothingLost` | |
| `ForeignScanProofs!StreamImplementsRemoteScan` | `StreamSpec => StreamImplements` | |
| `RemoteQueryProofs!RowsAreComplete` | `Spec => []RowsComplete` | table, and statement its wrapper can answer |
| `RemoteQueryProofs!AggregatesAreExact` | `Spec => []AggregatesExact` | |
| `RemoteQueryProofs!RemoteQueryTypes` | `Spec => []TypeOK` | |
| `MysqlWorkerProofs!TypeCorrect` | `Spec => []TypeOK` | number of workers, rows and writes |
| `MysqlWorkerProofs!WritesOnce` | `Spec => []WrittenOnce` | |
| `MysqlWorkerProofs!RowsArrive` | `Spec => []NothingLost` | |
| `MysqlWorkerProofs!ImplementsRemoteScan` | `Spec => Implements` | |
| `LiveScanProofs!LiveScanTypeOK` | `Spec => []TypeOK` | source, page size, history of changes |
| `LiveScanProofs!ScanMissesBounded` | `Spec => []MissesBounded` | |
| `LiveScanProofs!ScanRepeatsBounded` | `Spec => []RepeatsBounded` | |
| `LiveScanProofs!StreamScanExact` | `Spec => []StreamExact` | |
| `ForeignModifyProofs!NoStateLeft` | `Spec => []NothingLeftBehind` | statement, wrapper and remote table; |
| `ForeignModifyProofs!ModifyTypeOK` | `Spec => []TypeOK` | batch, buffers, pages and sends |
| `ForeignModifyProofs!BuffersStayBounded` | `Spec => []BuffersBounded` | |
| `ForeignModifyProofs!FilesFollowOrder` | `Spec => []FilesSorted` | ... whose keys keep the sort order |
| `ForeignModifyProofs!PlainFilesSorted` | `Spec => []FilesSorted` | ... ordered by `PlainOrder` fields |
| `ForeignModifyProofs!FilesFollowTransform` | `Spec => []FilesInPartition` | ... whose keys agree with its values |
| `ForeignModifyProofs!PeriodsInPartition` | `Spec => []FilesInPartition` | ... partitioned `ByPeriod` |
| `ForeignModifyProofs!InsertsImplement` | `Spec => (WritesRows(c) => Implements)` | |
| `ForeignModifyProofs!ChangesImplement` | `Spec => (ChangesRows(c) => Implements)` | |
| `WasmComponentProofs!TypeCorrect` | `Spec => []TypeOK` | backends, users, packages, releases and options |
| `WasmComponentProofs!OnlyNamedLoaded` | `Spec => []LoadedWasNamed` | |
| `WasmComponentProofs!RepairsTheCache` | `Spec => []InvalidOnlyWhenDisturbed` | |
| `IcebergTableProofs!IcebergTableTypeOK` | `Spec => []TypeOK` | columns, tables, history of schemas and rows |
| `IcebergTableProofs!ReadsBack` | `Spec => []ReadsBackAsInserted` | |

`PagedScan`: `Reliable` is what the 31 wrappers can be relied on for: the remote side returns no row
twice, a wrapper is asked what it can answer (`Answerable`, a clause per wrapper that fails on some
LIMIT, OFFSET or number of rows), only those with a `re_scan` that rewinds are rescanned, and only
those that go on after a short page are given one. TLC evaluates it for the run (`RunIsReliable`); *Rescans
and restarts* and *LIMIT and OFFSET* say what happens otherwise. The types need no such hypothesis.
`PagesInv` says where a scan stands. The page in hand is a run of the source at the place given by the
rows handed out before it, and the rows handed out are what lies before (`Held`). The counters say how
many that were (`Counted`). The cursor points behind the page, or nothing the query needs is left
(`Cursor`, a case per wrapper, since each has its own way to end). There is a lemma per wrapper for what
its requests bring and one for each of the tests that tell drained pages apart; `Implements` then asks
two things only, that the next row of the page was not given yet and that `None` finds every needed
row given. That every call returns (`CallReturns`) is left to TLC.

`BufferedScan`: `BufferReliable` says that the remote side returns no row twice, that only mssql,
prometheus, stripe and duckdb are rescanned, and that duckdb is not restarted; the others fail, see
*Rescans and restarts*. `BufferInv` says where the rows of a pass are: those given and those still in
the buffer are disjoint (`BufferGiven`) and together all that is needed.
`StripePages` is the one piece of arithmetic, that the pages asked for hold offset + limit rows.

`ClickHouseStream`: `StreamInv` is the types, `HandOver` (between channel and query there is at most one
row, the next one, in one place, and `complete` is set only when there is none) and `InFlight` (while
the backend expects more, the channel holds the rows after those received without a gap, and what
follows is with the task, or the task is over and its last message is in the channel). That a
disconnected channel never passes for the end of the result follows from the last.

`RemoteQuery`: what a wrapper can be asked is `Answerable`, which the run evaluates for its statements
(`RunIsAnswerable`); *LIMIT and OFFSET* and *Clauses* say what the statements outside show.
`StatementAssumption`, `CellAssumption` and `RequestAssumption` say that rows and constants have their
types. The invariant `QueryInv` keeps what each phase made of the statement, so that the theorems are
about the request: `AskKeeps` and `AggregateKeeps`. A request is `Complete` when it finds every row the
quals select (a row the clauses select passes them) and `Truthful` when what it makes rows say of a column
they say already. A limit must be OFFSET + LIMIT, in a request that orders the rows as the statement does
and is `AsAsked`: every clause is a qual and no other rows are found. The request of an aggregate has to be
`AsAsked` too. Each wrapper has a lemma for its request; those that send SQL share the
argument over their conditions (`And`, an OR without parentheses, one list at most), those that look for
a key share another, and the time ranges of tencent_cls and prometheus are followed through the quals one
by one, every bound only narrowing the range to what the quals let through. At the end, the first rows in the order of a statement
are the same whether taken from the table or from what came back (`WindowsKept`, `RowsKept`).

`MysqlWorker`: `WorkerInv` adds three parts to the types. `TalkInv`: only the worker of this instance
can answer, only the command under way, and once. `WriteInv`: a write is in one place (backend, slot or
worker) until it is executed, and nowhere after. `ScanInv`: the stream of the worker stands where the
query stands. The workers given up earlier are quantified over like any other, and the proof has one
lemma per command because an answer moves command, stream and reply at once.

`LiveScan`: `MissInv` and `RepeatInv` are `MissesBounded` and `RepeatsBounded` for a scan that goes on.
The elements that stayed and lie before the boundary without being in the instance's hands are no more
than were taken from before it; what was handed out or waits in the page more than once, plus what was
handed out and moved behind the boundary, is no more than was put before it. Both need `StoreInv` (no
element twice; the ids of a stream ascend) and `PageInv`. A change before the boundary moves at most one
element over it, one behind it none; fetching a page takes the elements between the old boundary and the
new. `StreamScanExact` adds that the boundary of a stream is an id, so that nothing others do is before
it: then nothing is missed or repeated at all.

`ForeignModify`: `LifeInv` ties phase, contexts and unwinding together; every method of every
wrapper returns, fails or unwinds (`InsertOutcomes`, ...), and nothing else matters for what is left
behind. `WriteInv` says what is in an instance between two callbacks (rows of the statement, fewer
than are flushed at; in Iceberg's buffers, under their keys), in a request on its way and in the
data files. What `process_partitions` writes is followed through `Taken`, `Left` and the sort: a
file is a sorted chunk of the rows of one key. `StableSortSorts` shows that the places `StableSort`
computes are a permutation, for any comparison that is a weak order, and `RowsOrdered` that
`compareSortKeys` is one for a sort order of any length: keys are texts, compared letter by letter
(`TextsTotal`, `TextsStrict`, `TextsTransitive`), and the first field whose keys differ decides
(`KeysOrdered`). The table stays a finite bag of rows (`TablesAdd`, `TableWithout`,
`TableAssigned`).

That the rows of a file are of its partition takes `KeysAgree`: rows with one key are of one partition,
and the value computed for a file is the one of the format. TLC evaluates it for the statements of the
run (`KeysAssumption`), and *Iceberg partitions* above says where it is false. `PeriodsInPartition`
proves it for tables without a partition and those by identity, day or hour, with timestamps from 2000
on (`ByPeriod`); months, years and buckets are left to TLC.

That a chunk sorted by the keys of the code is in the sort order of the format takes `OrderKept`: a row
that comes before another by the format comes before it by the keys. TLC evaluates it for the
statements of the run (`OrderAssumption`), and *Iceberg sort orders* says where it is false.
`PlainFilesSorted` proves it for every sort order made of `PlainOrder` fields: no numerics, NULL first
when ascending and last when descending, and no transform but the day or hour of the last field. The
transforms of other fields and numerics of equal length are left to TLC.

`InsertsImplement` is the refinement for INSERTs, of any wrapper that writes or ignores rows. Its
condition `WritesRows` says that ids are unique, new to the table and no rival's, and that the wrapper
has a cell and a cast for the values; *Writes* above tells what happens otherwise, and TLC evaluates it
for the INSERTs of the run (`InsertsAssumption`). The invariant is `FlowInv`: every row of the statement
is in exactly one of four places: still to come, kept in a batch or buffer, asked for in the request on
its way, or in the table. The one exception is a client that sends again, whose row may be in the last
two; it asks for one row at a time. For each method and wrapper a lemma (`InsertPasses`, `EndPasses`)
shows that the rows it had are those it keeps and asks for. Each step is then a `Write`, a
`WriteAndFinish`, a `Repeat` or a `LosesRow` of the abstract statement, or no step of it.

`ChangesImplement` is the refinement for UPDATEs and DELETEs. Its condition `ChangesRows` says that ids
are unique and of a type that has a cell, that an UPDATE assigns one column, one value the wrapper has a
cell for, that the service creates no row in place of one a rival deleted (dynamodb), and that clerk and
orb, whose rows move up when rows before them are deleted, have the statement's rows on their first page;
*Writes* tells what happens otherwise, and TLC evaluates it for the statements of the run
(`ChangesAssumption`). The invariant is `ChangeInv`. `AskInv`: a request on its way asks for the change of
a row of the statement. `TableInv`: every row of the table is one of the statement's table or what the
UPDATE makes of one, and ids stay unique. `CoverInv`: a row of the statement that is there as it was has
been read and waits in the scan, or is asked for, or is still ahead of the scan; the last is shown page
by page (`PageReaches`): the rows are sorted, a page starts behind the last row of the page before, and
no change moves a row over that place. When the scan is at its end nothing is ahead, so nothing is left.
`EffectIs` shows that a request makes the one change it asks for, or none when it was made already, which
is why a request sent again does no harm.

`IcebergTable`: the heart is that a field id stands for one field through all schemas, whose type may
only be widened (`SchemaInv`, `Family`), so that a value stored under an earlier schema still fits the
field (`Stored`, `Fits`). `SnapInv` and `InstInv` say this of the snapshot and of the batches of a
scan; `ScanInv` says that every column of the foreign table is a field of the schema read under and
that the rows already mapped show what was meant (`ReadsRight`). The conversions have a lemma each:
what `append_array_value` stores and `map_cell` returns keeps what `Kept` promises of the type. The
assumption `MaxRows < 99` belongs to the encoding: numbers from 1000 on stand for decimals of too many
digits.

`WasmComponent`: `DirectoryInv` says that every block of every file was once named by the server for
that release (`FilesNamed`), that a call in progress has options of the server and bytes with their
checksum (`CallInv`), and that a backend nobody disturbs finds in its file what it wrote (`FileInv`).
`named` only grows, so a crash and an alteration keep it.

Each of these modules assumes only what its named `ASSUME` says of its constants.

Recursive functions are unfolded by induction over the naturals in the form "every set of naturals has a
least member" (`LeastMember`, `Inductive`), which gives `OnlyIs`, `FlattenReaches` and what the fold of
files needs. `TextNull`, the value cfd1 takes for NULL, is assumed to be a number like the other values.

TLC only: the liveness of `ClickHouseStream`, `MysqlWorker` and `PagedScan` (fairness is out of the
proof system's reach), and `FilesInPartition` for months, years and buckets as far as `KeysAgree` goes.

## 5. Plan

Done: the scan side (`ForeignScan`, `BufferedScan`, `ClickHouseStream`, `MysqlWorker`, `PagedScan`,
`LiveScan`), what is pushed down (`RemoteQuery`), the modify side (`ForeignModify`), the component
cache (`WasmComponent`), Iceberg tables (`IcebergTable`), and the proofs above. Left, in this order:

1. Proofs: months and years in `FilesInPartition`.
2. The resource tables of the Wasm host and the conversion of cells between guest and host.
3. The mapping of documents and JSON fields to columns of the wrappers that have most of it
   (shopify, mongodb, dynamodb).

## 6. Not modelled

The wording of SQL and URLs beyond what it asks for, quoting, EXPLAIN, type mapping, the mapping of
JSON and documents to columns, costs, option validation, schema import, Vault and statistics: no
state of theirs outlives a call. (Types and import of Iceberg are modelled, because schemas change
between their uses.) s3 reads through decompression, CSV and Parquet libraries, which are
external, and so is its range reader under the last. The Wasm host is modelled as the way of a
component into the backend, the calls into the guest and the HTTP client; the resource tables are not. Libraries (pgrx, drivers, Wasmtime,
iceberg-rust) are the environment. Memory is counted in contexts, not bytes. Threads other than those
a wrapper starts do not exist in a backend. The remote side of a scan changes while it is read in
`LiveScan` and between the batches of an Iceberg scan only; elsewhere rivals exist for writes.
