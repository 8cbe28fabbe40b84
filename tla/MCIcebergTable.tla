--------------------------- MODULE MCIcebergTable ---------------------------
(***************************************************************************)
(* Tables with a field of each type beside one that holds JSON, tables a   *)
(* foreign table creates; three rows in batches of two, and one change of  *)
(* the schema.                                                             *)
(***************************************************************************)
EXTENDS IcebergTable

Of(t, required, u) == <<Field(1, "a", t, required), Field(2, "b", u, FALSE)>>
Columns(c, d) == <<[name |-> "a", type |-> c], [name |-> "b", type |-> d]>>

MCTables ==
  {Of("int", FALSE, "struct"), Of("decimal", FALSE, "list"), Of("float", TRUE, "map"),
   Of("timestamp_ns", FALSE, "struct"), Of("boolean", FALSE, "struct of others"),
   Of("timestamptz", FALSE, "list of others"), Of("uuid", FALSE, "map of others"),
   Of("string", TRUE, "fixed")}

MCDeclared == {Columns("any numeric", "time"), Columns("bytea", "timestamptz"), Columns("date", "int8")}
=============================================================================
