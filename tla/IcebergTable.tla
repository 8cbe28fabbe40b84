---------------------------- MODULE IcebergTable ----------------------------
(***************************************************************************)
(* A foreign table over an Iceberg table whose schema other clients        *)
(* evolve: IMPORT FOREIGN SCHEMA, tables created on demand, and the cells  *)
(* of INSERT and SELECT on their way to Arrow arrays and back              *)
(* (wrappers/src/fdw/iceberg_fdw: iceberg_fdw.rs, mapper.rs).  A scan      *)
(* finds its columns by name, an INSERT by position.  Partitions, buffers  *)
(* and predicates are in IcebergWriter, PagedScan and RemoteQuery.         *)
(***************************************************************************)
EXTENDS Selection, SequencesExt

CONSTANTS
  Tables,       \* the schemas the Iceberg table may have at first
  Declared,     \* the columns of foreign tables that were not imported
  Names,        \* of columns
  Added,        \* the types of the fields others add
  Styles,       \* of inserted rows, see CellOf
  MaxSchemas, MaxRows, MaxRestarts,
  ReadBatch, WriteBatch,   \* rows of a record batch, of the staging buffer
  None

\* The types of the library, and those of the columns of a foreign table.
Types ==
  {"boolean", "int", "long", "float", "double", "decimal", "decimal0", "date", "time", "timestamp",
   "timestamptz", "timestamp_ns", "timestamptz_ns", "string", "uuid", "fixed", "binary", "struct",
   "list", "map", "struct of others", "list of others", "map of others"}
ColumnTypes ==
  {"bool", "int2", "int4", "int8", "float4", "float8", "text", "numeric", "any numeric", "date",
   "time", "timestamp", "timestamptz", "bytea", "uuid", "jsonb"}

\* A schema is made with field ids from 1; rows are told apart below 1000.
ASSUME TableAssumption ==
  /\ {MaxSchemas, MaxRows, MaxRestarts} \subseteq Nat /\ MaxRows < 99
  /\ {ReadBatch, WriteBatch} \subseteq Nat \ {0}
  /\ Added \subseteq Types /\ None \notin ColumnTypes
  /\ \A t \in Tables :
       /\ t \in Seq([id : Nat, name : Names, type : Types, required : BOOLEAN])
       /\ \A i \in DOMAIN t : t[i].id = i
  /\ \A cols \in Declared : cols \in Seq([name : Names, type : ColumnTypes])

\* A scalar or JSON.  Multiples of ten are values every conversion keeps; what is
\* finer are fractions, and the members of JSON whose type is not the declared
\* one; from 1000 on a number has more digits than rust_decimal.
Value(shape, v) == [shape |-> shape, v |-> v]
Null     == Value("null", 0)
JsonNull == Value("json null", 0)
Error    == Value("error", 0)
Whole(x) == [x EXCEPT !.v = @ - (@ % 10)]

VARIABLES
  schemas,   \* all the schemas of the Iceberg table, the current one last
  ids,       \* the field ids given out so far
  snap,      \* its snapshot: the schema it was made under, and its files
  foreign,   \* the foreign table: columns, schema_id, create_table_if_not_exists
  mode,      \* the statement of the backend: idle, scan, insert
  inst,      \* its instance
  shown      \* the last row the scan returned

vars == <<schemas, ids, snap, foreign, mode, inst, shown>>

Field(id, name, type, required) == [id |-> id, name |-> name, type |-> type, required |-> required]
HasName(schema, n) == \E i \in DOMAIN schema : schema[i].name = n
FieldOf(schema, n) == schema[CHOOSE i \in DOMAIN schema : schema[i].name = n]
Current == Last(schemas)
RowsOf(files) == Len(FlattenSeq(files))

Fresh == [loaded |-> 0, snap |-> [schema |-> 0, files |-> <<>>], src |-> <<>>, stream |-> <<>>,
          json |-> <<>>, rows |-> <<>>, staged |-> <<>>]

-----------------------------------------------------------------------------
(* Types.                                                                  *)

Nested == {"struct", "list", "map", "struct of others", "list of others", "map of others"}

\* The types that go by the same names.
Alike == {"date", "time", "timestamp", "timestamptz", "uuid"}

\* import_foreign_schema; None for a field that has no type here.
ImportedType(t) ==
  CASE t = "boolean" -> "bool" [] t = "int" -> "int4" [] t = "long" -> "int8"
    [] t = "float" -> "float4" [] t = "double" -> "float8" [] t = "string" -> "text"
    [] t \in {"decimal", "decimal0"} -> "numeric" [] t = "binary" -> "bytea"
    [] t \in Alike -> t [] t \in Nested -> "jsonb"
    [] t \in {"fixed", "timestamp_ns", "timestamptz_ns"} -> None

\* map_table_schema: a numeric without precision has no digits after the point,
\* and the name it looks for is not that of timestamptz.
CreatedType(c) ==
  CASE c = "bool" -> "boolean" [] c = "int4" -> "int" [] c = "int8" -> "long"
    [] c = "float4" -> "float" [] c = "float8" -> "double" [] c = "text" -> "string"
    [] c = "numeric" -> "decimal" [] c = "any numeric" -> "decimal0" [] c = "bytea" -> "binary"
    [] c \in Alike \ {"timestamptz"} -> c
    [] c \in {"timestamptz", "jsonb", "int2"} -> None

\* import_foreign_schema: fields without a type are left out (an error if strict).
Known(schema) == Only(schema, {f \in ToSet(schema) : ImportedType(f.type) # None})
Imported(k, schema) ==
  [cols |-> [i \in DOMAIN Known(schema) |->
               [name |-> Known(schema)[i].name, type |-> ImportedType(Known(schema)[i].type)]],
   pin |-> k, create |-> FALSE]

Init ==
  /\ \/ \E t \in Tables :
          schemas = <<t>> /\ ids = Len(t) /\ foreign = Imported(1, t)
     \/ \E cols \in Declared :
          schemas = <<>> /\ ids = 0 /\ foreign = [cols |-> cols, pin |-> None, create |-> TRUE]
  /\ snap = [schema |-> 0, files |-> <<>>]
  /\ mode = "idle" /\ inst = Fresh /\ shown = None

\* The columns whose cells the builder of a field takes.
NumberCells(t) ==
  CASE t = "boolean" -> {"bool"} [] t = "int" -> {"int4", "int2"}
    [] t = "long" -> {"int8", "int4", "int2"} [] t \in {"float", "double"} -> {"float4", "float8"}

AppendNumber(t, c, x) ==
  IF c \notin NumberCells(t) THEN Null ELSE IF t = "float" /\ c = "float8" THEN Whole(x) ELSE x

AppendDecimal(t, c, x) ==
  IF c \notin {"numeric", "any numeric"} \/ x.v >= 1000 THEN Null
  ELSE IF t = "decimal0" THEN Whole(x) ELSE x

\* The bytes of a bytea are not sixteen here, and not of the length of a fixed.
AppendBytes(t, c, x) ==
  CASE t = "string" /\ c = "text"  -> x
    [] t = "string" /\ c = "jsonb" -> IF x = Null THEN Null ELSE Value("plain", x.v)
    [] t = "binary" /\ c \in {"bytea", "uuid"} -> x
    [] t = "uuid" /\ c = "uuid" -> x
    [] OTHER -> Null

AppendTime(t, c, x) ==
  IF t \in {"timestamp_ns", "timestamptz_ns"} THEN Error ELSE IF c = t THEN x ELSE Null

\* A struct that is NULL leaves the builders of its other members behind.
AppendStruct(t, c, x) ==
  IF t # "struct" THEN Error ELSE IF c = "jsonb" /\ x.shape = "object" THEN Whole(x) ELSE Null

AppendList(t, c, x) ==
  IF c # "jsonb" \/ x = Null THEN Null
  ELSE IF t # "list" \/ x.shape # "array" THEN Error ELSE Whole(x)

AppendMap(t, c, x) ==
  IF c # "jsonb" \/ x.shape # "object" THEN Null ELSE IF t # "map" THEN Error ELSE Whole(x)

\* append_array_value: most cells of another type become NULL.
AppendArrayValue(t, c, x) ==
  CASE t \in {"boolean", "int", "long", "float", "double"} -> AppendNumber(t, c, x)
    [] t \in {"decimal", "decimal0"}         -> AppendDecimal(t, c, x)
    [] t \in {"string", "binary", "uuid", "fixed"} -> AppendBytes(t, c, x)
    [] t \in {"date", "time", "timestamp", "timestamptz", "timestamp_ns", "timestamptz_ns"} ->
         AppendTime(t, c, x)
    [] t \in {"struct", "struct of others"} -> AppendStruct(t, c, x)
    [] t \in {"list", "list of others"}     -> AppendList(t, c, x)
    [] t \in {"map", "map of others"}       -> AppendMap(t, c, x)

\* map_cell knows the column and the type of the field in the schema the scan
\* began with.  A uuid may also be read from a string, if it is one.
Reads(c, t) ==
  \/ c # "jsonb" /\ c = ImportedType(t)
  \/ c = "any numeric" /\ t \in {"decimal", "decimal0"}
  \/ c = "jsonb" /\ t \in Nested

\* A value of a batch, whose rows were made under older schemas too.
In(schema, row, n) ==
  LET id == FieldOf(schema, n).id IN IF id \in DOMAIN row.is THEN row.is[id] ELSE Null

\* JSON is not taken from the array but from the batch converted before, at the
\* place of the row.
MapCell(schema, batch, cache, k, col, src) ==
  LET x == In(schema, batch[k], col.name) IN
  CASE x = Null -> Null
    [] x # Null /\ ~Reads(col.type, src.type) -> Error
    [] x # Null /\ Reads(col.type, src.type) /\ src.type \in Nested ->
         IF k <= Len(cache) /\ In(schema, cache[k], col.name) # Null
           THEN In(schema, cache[k], col.name) ELSE JsonNull
    [] x # Null /\ Reads(col.type, src.type) /\ src.type \notin Nested ->
         IF src.type # FieldOf(schema, col.name).type THEN Error
         ELSE IF col.type = "time" THEN Whole(x) ELSE x

-----------------------------------------------------------------------------
(* SELECT of all columns.                                                  *)

StatementOver == mode' = "idle" /\ inst' = Fresh /\ shown' = None

Begins(statement) == mode = "idle" /\ mode' = statement

\* The library reads the table as it was loaded, under the schema of its snapshot.
CanSelect(x) ==
  x.snap.schema # 0 =>
    \A i \in DOMAIN foreign.cols : HasName(schemas[x.snap.schema], foreign.cols[i].name)

Batches(file) ==
  [b \in 1..((Len(file) + ReadBatch - 1) \div ReadBatch) |->
     SubSeq(file, (b - 1) * ReadBatch + 1, Min({b * ReadBatch, Len(file)}))]

Reset(x) == [x EXCEPT !.stream = <<>>, !.rows = <<>>, !.json = <<>>]

\* do_iceberg_scan.
DoScan(x) ==
  [Reset(x) EXCEPT
     !.stream = FlattenSeq([f \in DOMAIN x.snap.files |-> Batches(x.snap.files[f])])]

\* begin_scan of an instance, which may have begun before: src grows.
BeginScan(x) ==
  LET schema == IF foreign.pin = None THEN Current ELSE schemas[foreign.pin]
      loaded == [x EXCEPT !.snap = snap]
  IN  IF \A i \in DOMAIN foreign.cols : HasName(schema, foreign.cols[i].name)
        THEN [loaded EXCEPT !.src = @ \o [i \in DOMAIN foreign.cols |->
                                            FieldOf(schema, foreign.cols[i].name)]]
        ELSE loaded

\* Every column was found, in the schema the scan goes by and in the snapshot's.
Begun(x, y) == Len(y.src) = Len(x.src) + Len(foreign.cols) /\ CanSelect(y)

Select ==
  /\ schemas # <<>>
  /\ LET y == BeginScan(Fresh) IN Begun(Fresh, y) /\ inst' = DoScan(y)
  /\ Begins("scan") /\ shown' = None
  /\ UNCHANGED <<schemas, ids, snap, foreign>>

\* restart_scan: end_scan and begin_scan.
Restart ==
  /\ mode = "scan" /\ Len(inst.src) <= MaxRestarts * Len(foreign.cols)
  /\ LET y == BeginScan(Reset(inst)) IN
       IF Begun(inst, y) THEN inst' = DoScan(y) /\ shown' = None /\ UNCHANGED mode
       ELSE StatementOver
  /\ UNCHANGED <<schemas, ids, snap, foreign>>

Rescan ==
  /\ mode = "scan"
  /\ inst' = DoScan(inst) /\ shown' = None
  /\ UNCHANGED <<schemas, ids, snap, foreign, mode>>

\* The cells of the next batch, row by row.
Converted(x) ==
  LET batch == Head(x.stream)
      cache == IF x.json = <<>> THEN batch ELSE x.json
  IN  [k \in DOMAIN batch |->
         [stored |-> batch[k],
          cells |-> [i \in DOMAIN foreign.cols |->
                       MapCell(schemas[x.snap.schema], batch, cache, k, foreign.cols[i], x.src[i])]]]

\* Faulty: the JSON of the first batch is kept for the next ones.
NextBatchKeepsJson(x) ==
  [x EXCEPT !.stream = Tail(@), !.rows = Converted(x),
            !.json = IF @ = <<>> THEN Head(x.stream) ELSE @]

\* next_batch: the JSON of a batch is forgotten once all its rows are converted.
NextBatch(x) == [x EXCEPT !.stream = Tail(@), !.rows = Converted(x), !.json = <<>>]

ConvertsAll(rows) == \A k \in DOMAIN rows : Error \notin ToSet(rows[k].cells)

\* Faulty: the row stays in front.
GiveKeepsRow(x) == shown' = Head(x.rows) /\ inst' = x

Give(x) == shown' = Head(x.rows) /\ inst' = [x EXCEPT !.rows = Tail(@)]

IterScan ==
  /\ mode = "scan"
  /\ \/ inst.rows # <<>> /\ Give(inst) /\ UNCHANGED mode
     \/ /\ inst.rows = <<>> /\ inst.stream # <<>>
        /\ LET y == NextBatch(inst) IN
             IF ConvertsAll(y.rows) THEN Give(y) /\ UNCHANGED mode ELSE StatementOver
  /\ UNCHANGED <<schemas, ids, snap, foreign>>

\* end_scan, or an error elsewhere in a SELECT or INSERT.
End ==
  /\ mode # "idle" /\ StatementOver
  /\ UNCHANGED <<schemas, ids, snap, foreign>>

-----------------------------------------------------------------------------
(* INSERT.                                                                 *)

Created(cols) ==
  [i \in DOMAIN cols |-> Field(i, cols[i].name, CreatedType(cols[i].type), FALSE)]

BeginModify ==
  /\ Begins("insert") /\ UNCHANGED <<snap, foreign, shown>>
  /\ \/ schemas # <<>> /\ UNCHANGED <<schemas, ids>>
     \/ /\ schemas = <<>> /\ foreign.create
        /\ \A i \in DOMAIN foreign.cols : CreatedType(foreign.cols[i].type) # None
        /\ schemas' = <<Created(foreign.cols)>> /\ ids' = Len(foreign.cols)
  /\ inst' = [Fresh EXCEPT !.loaded = Len(schemas')]

\* The column has the type of the field, or that before the field was widened.
Suits(c, t) ==
  \/ c = ImportedType(t)
  \/ <<c, t>> \in {<<"any numeric", "decimal0">>, <<"int4", "long">>, <<"float4", "double">>}

\* The row as it goes into a data file, and as it was meant; whether the columns
\* of the foreign table are the fields of the Iceberg table, in their order.
Built(schema, cells) ==
  [is |-> [id \in {schema[i].id : i \in DOMAIN schema} |->
             LET i == CHOOSE i \in DOMAIN schema : schema[i].id = id IN
             AppendArrayValue(schema[i].type, foreign.cols[i].type, cells[i])],
   meant |-> [id \in {schema[i].id : i \in DOMAIN schema} |->
                LET i == CHOOSE i \in DOMAIN schema : schema[i].id = id IN
                cells[i]],
   aligned |-> \A i \in DOMAIN schema :
                 schema[i].name = foreign.cols[i].name /\ Suits(foreign.cols[i].type, schema[i].type)]

\* build_record_batches: a builder per field, filled by position; a batch takes
\* arrays of one length only, and no NULL in a required field.
Builds(schema, rows) ==
  /\ Len(schema) = Len(foreign.cols)
  /\ \A k \in DOMAIN rows : \A i \in DOMAIN schema :
       LET x == Built(schema, rows[k]).is[schema[i].id] IN
       x # Error /\ (schema[i].required => x # Null)

\* write_record_batches: one commit, whatever happened to the table meanwhile.
WriteRecordBatches(rows) ==
  snap' = [schema |-> Len(schemas),
           files |-> Append(snap.files,
                       [k \in DOMAIN rows |-> Built(schemas[inst.loaded], rows[k])])]

\* The cell of a style for a column, told from those of other rows by n.
CellOf(style, c, n) ==
  CASE style = "null" -> Null
    [] style # "null" /\ c = "jsonb" ->
         Value(IF style = "array" THEN "array" ELSE "object", 10 * n + 5)
    [] style # "null" /\ c # "jsonb" ->
         Value("plain", 10 * n + (IF style = "long" /\ c \in {"numeric", "any numeric"}
                                    THEN 1000 ELSE 5))

RowNumber == RowsOf(snap.files) + Len(inst.staged) + 1

\* A full staging buffer is written, and the table used as it is after that.
Insert ==
  /\ mode = "insert" /\ RowNumber <= MaxRows
  /\ \E style \in Styles :
       LET cells == [i \in DOMAIN foreign.cols |-> CellOf(style, foreign.cols[i].type, RowNumber)]
           rows  == Append(inst.staged, cells)
       IN  \/ /\ Len(rows) < WriteBatch
              /\ inst' = [inst EXCEPT !.staged = rows]
              /\ UNCHANGED <<snap, mode, shown>>
           \/ /\ Len(rows) >= WriteBatch /\ Builds(schemas[inst.loaded], rows)
              /\ WriteRecordBatches(rows)
              /\ inst' = [inst EXCEPT !.loaded = Len(schemas), !.staged = <<>>]
              /\ UNCHANGED <<mode, shown>>
           \/ /\ Len(rows) >= WriteBatch /\ ~Builds(schemas[inst.loaded], rows)
              /\ StatementOver /\ UNCHANGED snap
  /\ UNCHANGED <<schemas, ids, foreign>>

EndModify ==
  /\ mode = "insert" /\ inst.staged # <<>>
  /\ IF Builds(schemas[inst.loaded], inst.staged) THEN WriteRecordBatches(inst.staged)
     ELSE UNCHANGED snap
  /\ StatementOver
  /\ UNCHANGED <<schemas, ids, foreign>>

-----------------------------------------------------------------------------
(* The foreign table.                                                      *)

ImportForeignSchema ==
  /\ mode = "idle" /\ schemas # <<>>
  /\ \E strict \in BOOLEAN :
       /\ Known(Current) # <<>> /\ (strict => Known(Current) = Current)
       /\ foreign' = Imported(Len(schemas), Current)
  /\ UNCHANGED <<schemas, ids, snap, mode, inst, shown>>

\* ALTER FOREIGN TABLE ... OPTIONS (DROP schema_id).
Unpin ==
  /\ mode = "idle" /\ foreign.pin # None
  /\ foreign' = [foreign EXCEPT !.pin = None]
  /\ UNCHANGED <<schemas, ids, snap, mode, inst, shown>>

-----------------------------------------------------------------------------
(* Other clients of the Iceberg table.                                     *)

Evolve(schema) ==
  /\ Len(schemas) < MaxSchemas
  /\ schemas' = Append(schemas, schema)
  /\ UNCHANGED <<snap, foreign, mode, inst, shown>>

AddField ==
  \E t \in Added, n \in Names :
    /\ ~HasName(Current, n)
    /\ Evolve(Append(Current, Field(ids + 1, n, t, FALSE)))
    /\ ids' = ids + 1

DropField ==
  \E i \in DOMAIN Current : Len(Current) > 1 /\ Evolve(RemoveAt(Current, i)) /\ UNCHANGED ids

RenameField ==
  \E i \in DOMAIN Current, n \in Names :
    /\ ~HasName(Current, n)
    /\ Evolve([Current EXCEPT ![i].name = n]) /\ UNCHANGED ids

MoveField ==
  \E i \in 2..Len(Current) :
    Evolve(<<Current[i]>> \o RemoveAt(Current, i)) /\ UNCHANGED ids

WidenField ==
  \E i \in DOMAIN Current :
    /\ Current[i].type \in {"int", "float"}
    /\ Evolve([Current EXCEPT ![i].type = IF @ = "int" THEN "long" ELSE "double"])
    /\ UNCHANGED ids

\* A row of values that suit the fields.
OthersWrite ==
  /\ RowsOf(snap.files) < MaxRows
  /\ LET n == 10 * (RowsOf(snap.files) + 1) + 5
         shape(t) == CASE t \in {"list", "list of others"} -> "array"
                       [] t \in Nested \ {"list", "list of others"} -> "object"
                       [] OTHER -> "plain"
         row == [id \in {Current[i].id : i \in DOMAIN Current} |->
                   Value(shape((CHOOSE f \in ToSet(Current) : f.id = id).type), n)]
     IN  snap' = [schema |-> Len(schemas),
                  files |-> Append(snap.files, <<[is |-> row, meant |-> row, aligned |-> TRUE]>>)]
  /\ UNCHANGED <<schemas, ids, foreign, mode, inst, shown>>

Others ==
  /\ schemas # <<>>
  /\ AddField \/ DropField \/ RenameField \/ MoveField \/ WidenField \/ OthersWrite

Next ==
  \/ Select \/ Restart \/ Rescan \/ IterScan \/ End
  \/ BeginModify \/ Insert \/ EndModify
  \/ ImportForeignSchema \/ Unpin
  \/ Others

Spec == Init /\ [][Next]_vars

-----------------------------------------------------------------------------
(* Properties.                                                             *)

Values  == [shape : {"null", "json null", "plain", "object", "array"}, v : Nat]
Fields  == [id : 1..ids, name : Names, type : Types, required : BOOLEAN]
IsRow(r) ==
  /\ DOMAIN r.is \subseteq 1..ids /\ DOMAIN r.meant = DOMAIN r.is /\ r.aligned \in BOOLEAN
  /\ \A id \in DOMAIN r.is : r.is[id] \in Values /\ r.meant[id] \in Values

\* Every field has its type, and a scan holds less than a batch when it returned a
\* row.
TypeOK ==
  /\ schemas \in Seq(Seq(Fields)) /\ snap.schema \in 0..Len(schemas)
  /\ \A f \in DOMAIN snap.files : snap.files[f] # <<>> /\ \A k \in DOMAIN snap.files[f] : IsRow(snap.files[f][k])
  /\ foreign.cols \in Seq([name : Names, type : ColumnTypes]) /\ foreign.create \in BOOLEAN
  /\ foreign.pin \in 1..Len(schemas) \cup {None}
  /\ mode \in {"idle", "scan", "insert"} /\ (mode = "idle" => inst = Fresh)
  /\ inst.loaded \in 0..Len(schemas) /\ inst.src \in Seq(Fields)
  /\ Len(inst.rows) < ReadBatch /\ Len(inst.staged) < WriteBatch
  /\ shown # None => IsRow(shown.stored) /\ shown.cells \in Seq(Values)

\* What conversions keep of a value: JSON of the declared shape with the members
\* of the declared types, decimals of up to 28 digits, whole numbers for a numeric
\* without precision, and times to the second.
Kept(t, x) ==
  CASE t \in {"struct", "map", "struct of others", "map of others"} ->
         IF x.shape = "object" THEN Whole(x) ELSE Null
    [] t \in {"list", "list of others"} -> IF x.shape = "array" THEN Whole(x) ELSE Null
    [] t \in {"decimal", "decimal0"} -> IF x.v >= 1000 THEN Null ELSE IF t = "decimal" THEN x ELSE Whole(x)
    [] t = "time" -> Whole(x)
    [] OTHER -> x

Meant(schema, row, n) ==
  LET id == FieldOf(schema, n).id IN IF id \in DOMAIN row.meant THEN row.meant[id] ELSE Null

\* A row that a scan returns has in every column what was put into it under that
\* name, by INSERT or by others, and NULL where the column is younger than the
\* row: whatever others did to the schema between import, INSERT and SELECT,
\* across batches, rescans and restarts.  Left out are rows of an INSERT through
\* a foreign table whose columns are no longer those of the Iceberg table in
\* their order.
ReadsBackAsInserted ==
  shown # None /\ shown.stored.aligned =>
    \A i \in DOMAIN foreign.cols :
      LET n == foreign.cols[i].name
          t == FieldOf(schemas[inst.snap.schema], n).type
          x == Meant(schemas[inst.snap.schema], shown.stored, n)
      IN  /\ Kept(t, shown.cells[i]) = Kept(t, x)
          /\ shown.cells[i] = Null <=> Kept(t, x) = Null
=============================================================================
