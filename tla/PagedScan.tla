------------------------------- MODULE PagedScan -------------------------------
(***************************************************************************)
(* The wrappers that fetch their rows page by page, driven by the          *)
(* framework.  NativePagers and WasmPagers say what each method does to    *)
(* the instance; here are the calls, the requests they make, one at a      *)
(* time, and what iter_scan makes of the answers.                          *)
(***************************************************************************)
EXTENDS NativePagers, WasmPagers, Functions

CONSTANTS
  Asked,       \* Asked[w]: what the scans of w are begun with
  Restarted,   \* the wrappers the framework restarts
  Rescanned    \* and those it rescans with unchanged parameters

ASSUME CallAssumption ==
  /\ Wrappers \subseteq
       {"bigquery", "s3vectors", "mongodb", "dynamodb", "auth0", "cognito", "redis_list",
        "redis_stream", "tencent_cls", "iceberg", "s3_text", "s3_parquet", "cal", "cfd1",
        "infura", "calendly", "notion", "notion_blocks", "snowflake", "hubspot", "orb",
        "shopify", "paddle", "clerk", "langfuse", "langfuse_pages", "slack_users",
        "slack_groups", "slack_messages", "slack_files", "openapi"}
  /\ Asked \in [Wrappers -> SUBSET Asks]
  /\ Restarted \subseteq Wrappers
  \* re_scan of these is the default, does nothing or is an error.
  /\ Rescanned \subseteq
       Wrappers \ {"bigquery", "s3vectors", "auth0", "cognito", "tencent_cls", "s3_text",
                   "s3_parquet", "langfuse", "langfuse_pages"}

VARIABLES
  w,       \* the wrapper of this instance
  scan,    \* what it keeps, see RemotePages
  call,    \* the call under way: "none", "begin" (begin_scan or re_scan asks),
           \* "ask" (iter_scan asks), "iter" (iter_scan has an answer)
  open, asked, given, ended   \* as in RemoteScan

vars == <<w, scan, call, open, asked, given, ended>>

-----------------------------------------------------------------------------
(* The methods of w.                                                       *)

\* Those that ask for no rows before the first iter_scan.
Lazy == {"s3vectors", "dynamodb", "auth0", "cognito", "redis_list", "redis_stream",
         "iceberg", "s3_text", "s3_parquet"}

BeginScan(x, a) ==
  CASE w = "bigquery"       -> BigqueryBegin(x, a)
    [] w = "s3vectors"      -> S3vectorsBegin(x, a)
    [] w = "mongodb"        -> MongodbBegin(x, a)
    [] w = "dynamodb"       -> DynamodbBegin(x, a)
    [] w = "auth0"          -> Auth0Begin(x, a)
    [] w = "cognito"        -> CognitoBegin(x, a)
    [] w \in {"redis_list", "redis_stream"} -> RedisBegin(x, a)
    [] w = "iceberg"        -> IcebergBegin(x, a)
    [] w \in {"s3_text", "s3_parquet"} -> S3Begin(x, a)
    [] w = "infura"         -> InfuraBegin(x, a)
    [] w = "calendly"       -> CalendlyReset(x)
    [] w = "notion"         -> NotionReset(x)
    [] w = "notion_blocks"  -> NotionBlocksReset(x)
    [] w = "snowflake"      -> SnowflakeInit(x)
    [] w = "hubspot"        -> HubspotBegin(x, a)
    [] w = "orb"            -> OrbBegin(x, a)
    [] w = "paddle"         -> PaddleReset(x)
    [] w = "clerk"          -> ClerkReset(x)
    [] w \in {"langfuse", "langfuse_pages"} -> LangfuseBegin(x, a)
    [] w \in {"slack_users", "slack_groups", "slack_messages", "slack_files"} -> SlackReset(x)
    [] w = "openapi"        -> OpenapiBegin(x, a)
    [] w \in {"tencent_cls", "cal", "cfd1", "shopify"} -> x

Fetch(x, a) ==
  CASE w = "bigquery"       -> BigqueryFetch(x, a)
    [] w = "s3vectors"      -> S3vectorsFetch(x, a)
    [] w = "mongodb"        -> MongodbFetch(x, a)
    [] w = "dynamodb"       -> DynamodbFetch(x, a)
    [] w = "auth0"          -> Auth0Fetch(x, a)
    [] w = "cognito"        -> CognitoFetch(x, a)
    [] w = "redis_list"     -> RedisListFetch(x, a)
    [] w = "redis_stream"   -> RedisStreamFetch(x, a)
    [] w = "tencent_cls"    -> TencentFetch(x, a)
    [] w = "iceberg"        -> IcebergFetch(x, a)
    [] w = "s3_text"        -> S3TextFetch(x, a)
    [] w = "s3_parquet"     -> S3ParquetFetch(x, a)
    [] w = "cal"            -> CalFetch(x, a)
    [] w = "cfd1"           -> Cfd1Fetch(x, a)
    [] w = "infura"         -> InfuraFetch(x, a)
    [] w = "calendly"       -> CalendlyFetch(x, a)
    [] w \in {"notion", "notion_blocks"} -> NotionFetch(x, a)
    [] w = "snowflake"      -> SnowflakeFetch(x, a)
    [] w = "hubspot"        -> HubspotFetch(x, a)
    [] w = "orb"            -> OrbFetch(x, a)
    [] w = "shopify"        -> ShopifyFetch(x, a)
    [] w = "paddle"         -> PaddleFetch(x, a)
    [] w = "clerk"          -> ClerkFetch(x, a)
    [] w = "langfuse"       -> LangfuseFetch(x, a)
    [] w = "langfuse_pages" -> LangfuseNumbered(x, a)
    [] w = "slack_users"    -> SlackUsersFetch(x, a)
    [] w = "slack_groups"   -> SlackGroupsFetch(x, a)
    [] w = "slack_messages" -> SlackMessagesFetch(x, a)
    [] w = "slack_files"    -> SlackFilesFetch(x, a)
    [] w = "openapi"        -> OpenapiFetch(x, a)

\* Those that are never rescanned are left out.
ReScan(x) ==
  CASE w = "mongodb"        -> MongodbReScan(x)
    [] w = "dynamodb"       -> DynamodbReScan(x)
    [] w \in {"redis_list", "redis_stream"} -> RedisReScan(x)
    [] w = "iceberg"        -> IcebergReScan(x)
    [] w = "infura"         -> InfuraReScan(x)
    [] w = "calendly"       -> CalendlyReset(x)
    [] w = "notion"         -> NotionReset(x)
    [] w = "notion_blocks"  -> NotionBlocksReset(x)
    [] w = "snowflake"      -> SnowflakeInit(x)
    [] w = "hubspot"        -> HubspotReScan(x)
    [] w = "orb"            -> OrbReScan(x)
    [] w = "paddle"         -> PaddleReset(x)
    [] w = "clerk"          -> ClerkReset(x)
    [] w \in {"slack_users", "slack_groups", "slack_messages", "slack_files"} -> SlackReset(x)
    [] w = "openapi"        -> OpenapiReset(x)
    [] w \in {"cal", "cfd1", "shopify"} -> x

EndScan(x) ==
  CASE w = "bigquery"       -> BigqueryEnd(x)
    [] w = "s3vectors"      -> S3vectorsEnd(x)
    [] w = "mongodb"        -> MongodbEnd(x)
    [] w = "dynamodb"       -> DynamodbEnd(x)
    [] w \in {"auth0", "cognito"} -> Fresh
    [] w \in {"redis_list", "redis_stream"} -> RedisEnd(x)
    [] w = "tencent_cls"    -> TencentEnd(x)
    [] w = "iceberg"        -> IcebergEnd(x)
    [] w \in {"s3_text", "s3_parquet"} -> S3End(x)
    [] w = "cal"            -> CalEnd(x)
    [] w = "cfd1"           -> Cfd1End(x)
    [] w = "infura"         -> InfuraEnd(x)
    [] w = "calendly"       -> CalendlyEnd(x)
    [] w \in {"notion", "notion_blocks"} -> NotionEnd(x)
    [] w = "snowflake"      -> SnowflakeEnd(x)
    [] w = "hubspot"        -> HubspotEnd(x)
    [] w = "orb"            -> OrbEnd(x)
    [] w = "shopify"        -> ShopifyEnd(x)
    [] w = "paddle"         -> PaddleEnd(x)
    [] w = "clerk"          -> ClerkEnd(x)
    [] w \in {"langfuse", "langfuse_pages"} -> LangfuseEnd(x)
    [] w \in {"slack_users", "slack_groups", "slack_messages", "slack_files"} -> SlackEnd(x)
    [] w = "openapi"        -> OpenapiEnd(x)

-----------------------------------------------------------------------------
(* What iter_scan does when its page is drained.                           *)

Drained(x) == x.idx >= Len(x.page)

\* It has returned as many rows as were asked for, whatever it still holds.
Reached(x) ==
  /\ w \in {"s3vectors", "dynamodb", "langfuse", "langfuse_pages"}
  /\ x.lim # All /\ x.cnt >= x.lim

\* In Rust Some(n) >= None holds: without a LIMIT the first page is the last.
ConsumedEnough(x) == x.lim # All => x.cnt >= x.lim

NoMorePages(x) ==
  CASE w = "s3vectors"                    -> x.on /\ x.next = NoPage
    [] w \in {"redis_list", "redis_stream", "iceberg"} -> FALSE
    [] w \in {"hubspot", "orb"}           -> x.next = NoPage \/ ConsumedEnough(x)
    [] w = "shopify"                      -> Len(x.page) < PageSize \/ x.next = NoPage
    [] w = "clerk"                        -> Len(x.page) < PageSize
    [] w = "openapi"                      -> OpenapiStops(x)
    [] OTHER                              -> x.next = NoPage

\* Faulty: nothing ends the scan of a list, which has no token.
EmptyEndsButLists == {"bigquery", "auth0", "cognito", "redis_stream", "langfuse",
                      "langfuse_pages", "slack_users", "openapi", "iceberg"}

\* An empty answer ends the scan, or makes iter_scan index past the page, or
\* (the others) makes it look for the next page.
EmptyEnds == {"bigquery", "auth0", "cognito", "redis_list", "redis_stream", "langfuse",
              "langfuse_pages", "slack_users", "openapi", "iceberg"}
EmptyPanics == {"snowflake", "paddle"}

\* Those that read all pages before they return.
Collecting == {"calendly", "notion", "notion_blocks"}

\* s3vectors takes the vectors of a page from its end.
RowOf(x) == IF w = "s3vectors" THEN x.page[Len(x.page) - x.idx] ELSE x.page[x.idx + 1]

Counts == {"s3vectors", "dynamodb", "redis_list", "hubspot", "orb", "langfuse",
           "langfuse_pages", "openapi"}

Taken(x) == [x EXCEPT !.idx = @ + 1, !.cnt = IF w \in Counts THEN @ + 1 ELSE @]

\* dynamodb leaves out the first OFFSET rows itself.
Skipped(x) == w = "dynamodb" /\ x.lim # All /\ x.cnt < Offset[asked]

-----------------------------------------------------------------------------
Init ==
  /\ w \in Wrappers
  /\ scan = Fresh /\ call = "none"
  /\ open = FALSE /\ asked \in Asks /\ given = <<>> /\ ended = FALSE

BeginCall == call' = IF w \in Lazy THEN "none" ELSE "begin"

Begin ==
  /\ ~open
  /\ asked' \in Asked[w]
  /\ scan' = BeginScan(scan, asked') /\ BeginCall
  /\ open' = TRUE /\ given' = <<>> /\ ended' = FALSE
  /\ UNCHANGED w

\* restart_scan: end_scan, then begin_scan, of the same instance.
Restart ==
  /\ open /\ call = "none" /\ w \in Restarted
  /\ asked' \in Asked[w]
  /\ scan' = BeginScan(EndScan(scan), asked') /\ BeginCall
  /\ given' = <<>> /\ ended' = FALSE
  /\ UNCHANGED <<w, open>>

\* infura rewinds without a request.
Rescan ==
  /\ open /\ call = "none" /\ w \in Rescanned
  /\ scan' = ReScan(scan)
  /\ call' = IF w \in Lazy \cup {"infura"} THEN "none" ELSE "begin"
  /\ given' = <<>> /\ ended' = FALSE
  /\ UNCHANGED <<w, open, asked>>

-----------------------------------------------------------------------------
(* iter_scan.  The executor does not ask again after None.                 *)

Iterating == open /\ ~ended /\ call \in {"none", "iter"}

\* A row is taken from the page and returned, or skipped for the next.
Give ==
  /\ Iterating /\ ~Drained(scan) /\ ~Reached(scan)
  /\ scan' = Taken(scan)
  /\ given' = IF Skipped(scan) THEN given ELSE Append(given, RowOf(scan))
  /\ call' = IF Skipped(scan) THEN "iter" ELSE "none"
  /\ UNCHANGED <<w, open, asked, ended>>

Ask ==
  /\ Iterating /\ Drained(scan) /\ ~Reached(scan) /\ ~NoMorePages(scan)
  /\ call = "iter" => w \notin EmptyEnds \cup EmptyPanics
  /\ call' = "ask"
  /\ UNCHANGED <<w, scan, open, asked, given, ended>>

Finish ==
  /\ Iterating
  /\ \/ Reached(scan)
     \/ /\ Drained(scan)
        /\ IF call = "iter" THEN w \in EmptyEnds \/ (NoMorePages(scan) /\ w \notin EmptyPanics)
                            ELSE NoMorePages(scan)
  /\ ended' = TRUE /\ call' = "none"
  /\ UNCHANGED <<w, scan, open, asked, given>>

\* The index into an empty page is out of range: the call fails.
Panic ==
  /\ Iterating /\ call = "iter" /\ Drained(scan) /\ w \in EmptyPanics
  /\ scan' = Fresh /\ call' = "none"
  /\ open' = FALSE /\ given' = <<>> /\ ended' = FALSE
  /\ UNCHANGED <<w, asked>>

-----------------------------------------------------------------------------
(* The requests.                                                           *)

Request ==
  /\ call \in {"begin", "ask"}
  /\ \E x \in Fetch(scan, asked) :
       /\ scan' = [x EXCEPT !.tries = 0]
       /\ call' = IF call = "ask" THEN "iter"
                  ELSE IF w \in Collecting /\ x.next # NoPage THEN "begin" ELSE "none"
  /\ UNCHANGED <<w, open, asked, given, ended>>

\* Faulty: one request more than the wrapper allows itself.
ThrottleOnceMore ==
  /\ call \in {"begin", "ask"}
  /\ MaxTries[w] # All => scan.tries <= MaxTries[w]
  /\ scan' = [scan EXCEPT !.tries = IF MaxTries[w] = All THEN @ ELSE @ + 1]
  /\ UNCHANGED <<w, call, open, asked, given, ended>>

\* The remote side says to come back later: the wrapper sleeps and asks again,
\* some of them without end.
Throttle ==
  /\ call \in {"begin", "ask"}
  /\ MaxTries[w] # All => scan.tries < MaxTries[w]
  /\ scan' = [scan EXCEPT !.tries = IF MaxTries[w] = All THEN @ ELSE @ + 1]
  /\ UNCHANGED <<w, call, open, asked, given, ended>>

\* end_scan, or an error of a call or of a request: the instance is dropped.
Drop ==
  /\ open
  /\ scan' = Fresh /\ call' = "none"
  /\ open' = FALSE /\ given' = <<>> /\ ended' = FALSE
  /\ UNCHANGED <<w, asked>>

Next ==
  \/ Begin \/ Restart \/ Rescan
  \/ Give \/ Ask \/ Finish \/ Panic
  \/ Request \/ Throttle \/ Drop

Spec == Init /\ [][Next]_vars

\* A call goes on until it returns.  The remote side answers some day and does
\* not answer with empty pages for ever; nothing bounds either in the code of the
\* wrappers that ask again without end.
Answered == Request /\ (scan'.page # <<>> \/ scan'.next = NoPage)

Fairness ==
  /\ WF_vars(Request) /\ SF_vars(Answered)
  /\ WF_vars(call = "iter" /\ (Give \/ Ask \/ Finish \/ Panic))

FairSpec == Spec /\ Fairness

-----------------------------------------------------------------------------
\* The instance stays in its bounds: no place behind the last row is asked for, no
\* page is longer than what there is, and no request is repeated too often.
TypeOK ==
  /\ w \in Wrappers
  /\ scan \in Instances
  /\ call \in {"none", "begin", "ask", "iter"}
  /\ open \in BOOLEAN /\ asked \in Asks /\ given \in Seq(Rows) /\ ended \in BOOLEAN
  /\ MaxTries[w] # All => scan.tries <= MaxTries[w]

\* The rows the query needs: all there are, or the first of them.
Needed ==
  [a \in Asks |->
     {Remote[a][i] : i \in {j \in DOMAIN Remote[a] : Wanted(a) = All \/ j <= Wanted(a)}}]

\* What the wrappers can be relied on for.  The ones left out by a clause repeat,
\* lose or stop before rows the query needs.
Distinct(s) == \A i, j \in DOMAIN s : s[i] = s[j] => i = j

Answerable(v, a) ==
  /\ v = "dynamodb" => Limit[a] = All \/ Offset[a] = 0
  /\ v = "s3vectors" => Limit[a] = All \/ Len(Remote[a]) <= Limit[a]
  /\ v \in {"hubspot", "orb"} => Limit[a] # All
  /\ v = "langfuse_pages" => Limit[a] = All \/ \E k \in 0..Wanted(a) : Wanted(a) = k * PageSize
  /\ v \in {"slack_users", "slack_groups"} => Limit[a] = All \/ Offset[a] = 0
  /\ v \in {"tencent_cls", "slack_users", "slack_messages", "slack_files"} =>
       Len(Remote[a]) <= PageSize
  /\ v = "openapi" =>
       \/ Len(Remote[a]) <= MaxPages * PageSize
       \/ Limit[a] # All /\ Wanted(a) <= MaxPages * PageSize

Reliable ==
  /\ \A a \in Asks : Distinct(Remote[a])
  /\ \A v \in Wrappers : \A a \in Asked[v] : Answerable(v, a)
  /\ Restarted \cap {"s3vectors", "hubspot", "orb", "shopify", "langfuse_pages"} = {}
  /\ Rescanned \cap {"notion_blocks", "shopify"} = {}
  \* The others take a short or an empty page for the last.
  /\ Sparse \subseteq {"s3vectors", "mongodb", "dynamodb", "notion", "calendly", "snowflake",
                       "hubspot", "orb", "paddle"}

\* Whatever the pages, the restarts and the rescans: no row twice, and None only
\* when no needed row is missing.
R == INSTANCE RemoteScan
Implements == R!Spec

\* Every call of the framework returns: no wrapper follows its cursor or repeats
\* its requests for ever, once the remote side answers.
CallReturns == call # "none" ~> call = "none"
=============================================================================
