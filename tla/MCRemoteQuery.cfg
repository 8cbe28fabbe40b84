CONSTANTS
  Null = Null
  All = All
  Word = Word
  Refused = Refused
  MaxInt = 5
  Unit = 2
  Hour = 0
  Now = 9
  Latest = 4
  Wrappers =
    {"bigquery", "snowflake", "clickhouse", "clickhouse_params", "mysql", "mssql", "duckdb", "cfd1",
     "iceberg", "mongodb", "dynamodb", "s3vectors", "tencent_cls", "prometheus", "logflare", "hubspot",
     "clerk", "shopify", "orb", "paddle", "notion", "infura", "langfuse", "stripe",
     "slack", "openapi", "airtable"}
  Table <- MCTable
  Statements <- MCStatements
SPECIFICATION Spec
CHECK_DEADLOCK FALSE
INVARIANTS
  TypeOK
  RowsComplete
  AggregatesExact
