---------------------------- MODULE MCPagedScan ----------------------------
(***************************************************************************)
(* Pages of two rows.  Six scans: one of five rows without LIMIT, one with *)
(* LIMIT 3, one with LIMIT 2 OFFSET 1, one of two full pages with LIMIT 4, *)
(* one of less than a page, one without a row.  A wrapper is given those   *)
(* it can answer; the README says what the others would show.              *)
(***************************************************************************)
EXTENDS PagedScan, TLC

CONSTANTS all5, lim3, off1, full4, one, empty

MCAsks == {all5, lim3, off1, full4, one, empty}
MCRows == 1..5
MCRemote ==
  all5 :> <<1, 2, 3, 4, 5>> @@ lim3 :> <<3, 1, 5, 2, 4>> @@ off1 :> <<5, 4, 3, 2, 1>>
    @@ full4 :> <<2, 1, 4, 3>> @@ one :> <<4>> @@ empty :> <<>>
MCLimit  == [a \in MCAsks |-> CASE a = lim3 -> 3 [] a = off1 -> 2 [] a = full4 -> 4 [] OTHER -> All]
MCOffset == [a \in MCAsks |-> IF a = off1 THEN 1 ELSE 0]

MCWrappers ==
  {"bigquery", "s3vectors", "mongodb", "dynamodb", "auth0", "cognito", "redis_list",
   "redis_stream", "cal", "cfd1", "infura", "calendly", "notion", "notion_blocks",
   "snowflake", "hubspot", "orb", "shopify", "paddle", "clerk", "langfuse",
   "langfuse_pages", "openapi", "iceberg", "s3_text", "s3_parquet", "tencent_cls",
   "slack_users", "slack_groups", "slack_messages", "slack_files"}

MCAsked == [u \in MCWrappers |-> {a \in MCAsks : Answerable(u, a)}]

MCRestarted == MCWrappers \ {"s3vectors", "hubspot", "orb", "shopify", "langfuse_pages"}

MCRescanned ==
  {"mongodb", "dynamodb", "redis_list", "redis_stream", "cal", "cfd1", "infura", "calendly",
   "notion", "snowflake", "hubspot", "orb", "paddle", "clerk", "openapi", "iceberg",
   "slack_users", "slack_groups", "slack_messages", "slack_files"}

MCSparse == {"s3vectors", "mongodb", "dynamodb", "notion", "calendly", "snowflake",
             "hubspot", "orb", "paddle"}

\* Retries of cfd1, infura and openapi (5, 5 and 3 in the code); cal, calendly,
\* notion, snowflake, clerk and slack have no bound.
MCMaxTries == [u \in MCWrappers |->
  CASE u \in {"cfd1", "infura", "openapi"} -> 2
    [] u \in {"cal", "calendly", "notion", "notion_blocks", "snowflake", "clerk",
              "slack_users", "slack_groups", "slack_messages", "slack_files"} -> All
    [] OTHER -> 0]

\* The run is within the hypothesis of the theorem that generalises it.
ASSUME RunIsReliable == Reliable
=============================================================================
