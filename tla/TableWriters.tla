---------------------------- MODULE TableWriters ----------------------------
(***************************************************************************)
(* What insert, update, delete and end_modify of the wrappers make of one  *)
(* row: the request for the remote side, what the instance keeps, or an    *)
(* error.  A row is [id, val]: the rowid column and one other.             *)
(***************************************************************************)
EXTENDS Selection, FiniteSetsExt, SequencesExt

CONSTANTS
  Null,
  TextNull,       \* the text 'null': a text is a number here
  BatchSize       \* the option batch_size of s3vectors and iceberg

ASSUME BatchAssumption == BatchSize \in Nat \ {0} /\ TextNull \in Int /\ Null \notin Int

\* rows wait for a request: insert_vectors, input_rows; parts: partition_buffers
FreshInstance == [rows |-> <<>>, parts |-> <<>>]

\* kind: "none", "add" and "put" rows (put replaces a row with the same id),
\* "set" and "upsert" the cells of the row with id, "del" it.
Request(kind, rows, id, cells) ==
  [kind |-> kind, rows |-> rows, id |-> id, cells |-> cells, files |-> {}]
NoRequest == Request("none", <<>>, Null, <<>>)

\* A method returns Ok, Err, or leaves by a panic or by report_error.
Result(inst, ask, err) == [inst |-> inst, ask |-> ask, err |-> err]
Quiet(inst)    == Result(inst, NoRequest, "ok")
Asks(inst, ask) == Result(inst, ask, "ok")
Fails(inst)    == Result(inst, NoRequest, "error")
Unwinds(inst)  == Result(inst, NoRequest, "unwinds")

Add(inst, r)        == Asks(inst, Request("add", <<r>>, r.id, <<>>))
Set(inst, id, cells) == Asks(inst, Request("set", <<>>, id, cells))
Del(inst, id)       == Asks(inst, Request("del", <<>>, id, <<>>))

\* The cells that are NULL are left out of a JSON body.
WithoutNulls(cells) == Only(cells, Range(cells) \ {Null})

\* uuid stands for the types of cells some wrappers have no case for.
HasUuid(t, cells) == t.col = "uuid" /\ WithoutNulls(cells) # <<>>

-----------------------------------------------------------------------------
(* One statement or request per row.  t is the foreign table: its wrapper  *)
(* w, the type col of the column val, the type rowid of the rowid column.  *)

BigqueryInsert(t, inst, r) == 
  IF HasUuid(t, <<r.val>>) THEN Fails(inst) ELSE Add(inst, r)
BigqueryUpdate(t, inst, id, cells) == IF cells = <<>> THEN Unwinds(inst) ELSE Set(inst, id, cells)
BigqueryDelete(t, inst, id) == Del(inst, id)

\* An i16 for a column of ClickHouse's UInt8 is cast.
Cast(t, v) == IF t.col = "uint8" /\ v # Null THEN v % 256 ELSE v
ClickhouseInsert(t, inst, r) == Add(inst, [r EXCEPT !.val = Cast(t, @)])
ClickhouseUpdate(t, inst, id, cells) == IF cells = <<>> THEN Fails(inst) ELSE Set(inst, id, cells)
ClickhouseDelete(t, inst, id) == Del(inst, id)

MysqlInsert(t, inst, r) == Add(inst, r)
MysqlUpdate(t, inst, id, cells) == IF cells = <<>> THEN Fails(inst) ELSE Set(inst, id, cells)
MysqlDelete(t, inst, id) == Del(inst, id)

MongodbInsert(t, inst, r) == Add(inst, r)
MongodbUpdate(t, inst, id, cells) == IF cells = <<>> THEN Quiet(inst) ELSE Set(inst, id, cells)
MongodbDelete(t, inst, id) == Del(inst, id)

\* put_item replaces and update_item creates the item with the key.
DynamodbInsert(t, inst, r) ==
  IF HasUuid(t, <<r.val>>) THEN Fails(inst) ELSE Asks(inst, Request("put", <<r>>, r.id, <<>>))
DynamodbUpdate(t, inst, id, cells) ==
  CASE HasUuid(t, cells) -> Fails(inst)
    [] cells = <<>>      -> Quiet(inst)
    [] OTHER             -> Asks(inst, Request("upsert", <<>>, id, cells))
DynamodbDelete(t, inst, id) == Del(inst, id)

StripeBody(t, cells) == t.col \in {"int", "text", "json"} \/ WithoutNulls(cells) = <<>>
StripeInsert(t, inst, r) == IF StripeBody(t, <<r.val>>) THEN Add(inst, r) ELSE Fails(inst)
StripeUpdate(t, inst, id, cells) ==
  CASE t.rowid # "text"          -> Unwinds(inst)
    [] t.rowid = "text" /\ ~StripeBody(t, cells) -> Fails(inst)
    [] OTHER                     -> Set(inst, id, WithoutNulls(cells))
StripeDelete(t, inst, id) == IF t.rowid = "text" THEN Del(inst, id) ELSE Unwinds(inst)

-----------------------------------------------------------------------------
(* The wasm wrappers that write; a trap of the guest is an error.          *)

\* A text parameter is sent without its quotes, and null as the keyword.
Cfd1Insert(t, inst, r) == Add(inst, r)
Cfd1Update(t, inst, id, cells) ==
  IF cells = <<>> THEN Fails(inst)
  ELSE Set(inst, id, [i \in DOMAIN cells |->
                          IF t.col = "text" /\ cells[i] = TextNull THEN Null ELSE cells[i]])
\* delete keeps the quotes of a text row id: no row has that id.
Cfd1Delete(t, inst, id) == Del(inst, IF t.rowid = "text" THEN Null ELSE id)

SnowflakeInsert(t, inst, r) == Add(inst, r)
SnowflakeUpdate(t, inst, id, cells) == IF cells = <<>> THEN Fails(inst) ELSE Set(inst, id, cells)
SnowflakeDelete(t, inst, id) == Del(inst, id)

\* The last cell of the row is the JSON body.
HasBody(t, cells) == t.col = "json" /\ cells # <<>> /\ Last(cells) # Null
ClerkInsert(t, inst, r) == IF HasBody(t, <<r.val>>) THEN Add(inst, r) ELSE Fails(inst)
ClerkUpdate(t, inst, id, cells) ==
  IF t.rowid = "text" /\ HasBody(t, cells) THEN Set(inst, id, cells) ELSE Fails(inst)
ClerkDelete(t, inst, id) == IF t.rowid = "text" THEN Del(inst, id) ELSE Fails(inst)

OrbInsert(t, inst, r) == IF HasBody(t, <<r.val>>) THEN Add(inst, r) ELSE Fails(inst)
OrbUpdate(t, inst, id, cells) ==
  IF t.rowid = "text" /\ HasBody(t, cells) THEN Set(inst, id, cells) ELSE Fails(inst)
OrbDelete(t, inst, id) == IF t.rowid = "text" THEN Del(inst, id) ELSE Fails(inst)

PaddleInsert(t, inst, r) == IF HasUuid(t, <<r.val>>) THEN Fails(inst) ELSE Add(inst, r)
PaddleUpdate(t, inst, id, cells) ==
  IF t.rowid = "text" /\ ~HasUuid(t, cells) THEN Set(inst, id, WithoutNulls(cells)) ELSE Fails(inst)
PaddleDelete(t, inst, id) == Fails(inst)

\* The first cell is the body of a booking; nothing is sent when it is NULL.
CalInsert(t, inst, r) ==
  CASE r.val = Null                      -> Quiet(inst)
    [] r.val # Null /\ t.col = "json"    -> Add(inst, r)
    [] OTHER                             -> Fails(inst)
CalUpdate(t, inst, id, cells) == Fails(inst)
CalDelete(t, inst, id) == Fails(inst)

\* The wasm wrappers that refuse in begin_modify.
ReadOnlyGuests ==
  {"calendly", "hubspot", "infura", "langfuse", "notion", "openapi", "shopify", "slack"}

-----------------------------------------------------------------------------
(* S3 Vectors gathers the vectors of an INSERT into batches.               *)

S3vectorsFlush(inst) ==
  IF inst.rows = <<>> THEN Quiet(inst)
  ELSE Asks([inst EXCEPT !.rows = <<>>], Request("put", inst.rows, Null, <<>>))

\* Faulty: a batch of one row too many.
S3vectorsInsertLate(t, inst, r) ==
  LET more == [inst EXCEPT !.rows = Append(@, r)] IN
  IF Len(more.rows) > BatchSize THEN S3vectorsFlush(more) ELSE Quiet(more)

S3vectorsInsert(t, inst, r) ==
  LET more == [inst EXCEPT !.rows = Append(@, r)] IN
  CASE t.rowid # "text"              -> Fails(inst)
    [] t.rowid = "text" /\ Len(more.rows) >= BatchSize -> S3vectorsFlush(more)
    [] OTHER                         -> Quiet(more)

S3vectorsDelete(t, inst, id) == IF t.rowid = "text" THEN Del(inst, id) ELSE Fails(inst)

\* Faulty: the vectors of an unfinished batch are dropped.
S3vectorsEndDrops(inst) == Quiet(inst)

S3vectorsEnd(inst) == S3vectorsFlush(inst)
=============================================================================
