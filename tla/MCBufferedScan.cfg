SPECIFICATION Spec
CONSTANTS
  a1 = a1
  a2 = a2
  a3 = a3
  a4 = a4
  All = All
  Asks <- MCAsks
  Rows <- MCRows
  Remote <- MCRemote
  Bound <- MCBound
  PageSize = 2
  Wrappers = {"mssql", "prometheus", "stripe", "duckdb", "redis", "airtable", "firebase", "logflare"}
  Rescanned = {"mssql", "prometheus", "stripe", "duckdb"}
  Restarted = {"mssql", "prometheus", "stripe", "redis", "airtable", "firebase", "logflare"}
INVARIANT
  TypeOK
PROPERTY
  Implements
