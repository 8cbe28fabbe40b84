---------------------------- MODULE NativePagers ----------------------------
(***************************************************************************)
(* The native wrappers that fetch page by page: bigquery, s3vectors,       *)
(* mongodb, dynamodb, auth0, cognito, redis (lists, sorted sets, streams), *)
(* tencent_cls, iceberg and s3, under wrappers/src/fdw/.  x is the instance, a what    *)
(* the scan was begun with; ...Fetch is the set of instances one request   *)
(* may leave behind.                                                       *)
(***************************************************************************)
EXTENDS RemotePages

\* All clauses and the LIMIT are in the query; begin_scan runs it.
BigqueryBegin(x, a)  == [x EXCEPT !.next = 0]
BigqueryFetch(x, a)  == {Holding(x, s) : s \in Pages("bigquery", Limited(a), x.next, PageSize)}
BigqueryEnd(x)       == [x EXCEPT !.page = <<>>, !.idx = 0]

\* begin_scan of s3vectors resets none of row_cnt, scan_initialised and
\* curr_vectors, and the limit it keeps leaves OFFSET out.
S3vectorsBegin(x, a) == [x EXCEPT !.lim = Limit[a]]
S3vectorsFetch(x, a) ==
  {[Holding(x, s) EXCEPT !.on = TRUE] :
     s \in Pages("s3vectors", Remote[a], IF x.on THEN x.next ELSE 0, PageSize)}
S3vectorsEnd(x)      == x

MongodbFind(x)       == [x EXCEPT !.page = <<>>, !.idx = 0, !.next = 0]
MongodbBegin(x, a)   == MongodbFind(x)
MongodbFetch(x, a)   == {Holding(x, s) : s \in Pages("mongodb", Limited(a), x.next, PageSize)}
MongodbReScan(x)     == MongodbFind(x)
MongodbEnd(x)        == [x EXCEPT !.page = <<>>, !.idx = 0, !.next = NoPage]

DynamodbReset(x)     == [x EXCEPT !.page = <<>>, !.idx = 0, !.next = 0, !.cnt = 0]
DynamodbBegin(x, a)  == [DynamodbReset(x) EXCEPT !.lim = Wanted(a)]

\* The limit of a Scan request counts the items read before the filter.
DynamodbLimit(x) == IF x.lim = All \/ x.lim <= x.cnt THEN PageSize
                                     ELSE Min({PageSize, x.lim - x.cnt})
DynamodbFetch(x, a)  ==
  {Holding(x, s) : s \in Pages("dynamodb", Remote[a], x.next, DynamodbLimit(x))}
DynamodbReScan(x)    == DynamodbReset(x)
DynamodbEnd(x)       == [x EXCEPT !.page = <<>>, !.idx = 0]

\* auth0 and cognito begin with a new iterator and leave it when they end.
Auth0Begin(x, a)     == [Fresh EXCEPT !.next = 0]
Auth0Fetch(x, a)     == {Holding(x, s) : s \in Pages("auth0", Remote[a], x.next, PageSize)}

CognitoBegin(x, a)   == [Fresh EXCEPT !.next = 0]
CognitoFetch(x, a)   == {Holding(x, s) : s \in Pages("cognito", Remote[a], x.next, PageSize)}

\* Faulty: a pass begins where the one before stopped.
RedisResetKeepsIndex(x) == [x EXCEPT !.page = <<>>, !.idx = 0, !.next = 0]

\* cnt is iter_idx. A list or sorted set is asked for by index, until a page is
\* empty; there is no token.
RedisReset(x)        == [x EXCEPT !.page = <<>>, !.idx = 0, !.next = 0, !.cnt = 0]
RedisBegin(x, a)     == RedisReset(x)
RedisListFetch(x, a) == {Holding(x, [page |-> Full(Remote[a], x.cnt, PageSize), next |-> 0])}
RedisReScan(x)       == RedisReset(x)
RedisEnd(x)          == [x EXCEPT !.page = <<>>, !.idx = 0]

\* A stream is read on from the last entry of the page.
RedisStreamFetch(x, a) ==
  LET entries == Full(Remote[a], x.next, PageSize)
  IN  {Holding(x, [page |-> entries, next |-> x.next + Len(entries)])}

\* One request for at most the rows of the table's option limit.
TencentFetch(x, a)   ==
  {Holding(x, [page |-> Full(Remote[a], 0, PageSize), next |-> NoPage])}
TencentEnd(x)        == [x EXCEPT !.page = <<>>, !.idx = 0]

-----------------------------------------------------------------------------
(* Streams: next is the place up to which the stream was read.             *)

\* The next part of a stream, of at least n rows until there are no more.
Parts(r, p, n) ==
  IF p = Len(r) THEN {[page |-> <<>>, next |-> NoPage]}
  ELSE {[page |-> Full(r, p, k), next |-> p + Len(Full(r, p, k))] : k \in n..PageSize}

\* The record batches of a table scan; do_iceberg_scan, which begin_scan and
\* re_scan call, resets and opens a stream.
IcebergScan(x)       == [x EXCEPT !.page = <<>>, !.idx = 0, !.next = 0]
IcebergBegin(x, a)   == IcebergScan(x)
IcebergFetch(x, a)   == {Holding(x, s) : s \in Parts(Remote[a], x.next, 1)}
IcebergReScan(x)     == IcebergScan(x)
IcebergEnd(x)        == [x EXCEPT !.page = <<>>, !.idx = 0, !.next = NoPage]

\* begin_scan of s3 opens the object and makes a parser that holds no record:
\* text left in buf by a scan that was ended is dropped when it finds none.
\* end_scan puts an empty parser in its place.
S3Begin(x, a)        == [x EXCEPT !.page = <<>>, !.idx = 0, !.next = 0]
S3End(x)             == [x EXCEPT !.page = <<>>, !.idx = 0, !.next = NoPage]

\* A buffer is filled with whole lines up to its size; they may all be blank.
\* (A record of one line each: a quoted line break is taken for the end.)
S3TextFetch(x, a)    ==
  {Holding(x, s) : s \in Parts(Remote[a], x.next, 0) \cup {[page |-> <<>>, next |-> x.next]}}

\* The record batches of a Parquet file.
S3ParquetFetch(x, a) == {Holding(x, s) : s \in Parts(Remote[a], x.next, 1)}
=============================================================================
