---------------------------- MODULE ForeignModify ----------------------------
(***************************************************************************)
(* INSERT, UPDATE and DELETE: the executor calls the framework's functions *)
(* for one row after another, the framework the methods of the wrapper,    *)
(* and those make requests, whose answers may get lost.  An UPDATE or      *)
(* DELETE finds its rows with a scan that reads page after page meanwhile, *)
(* and other clients of the remote side delete rows.                       *)
(***************************************************************************)
EXTENDS IcebergWriter, Bags

CONSTANTS
  Cases,      \* the statements: [w, col, rowid, part, order, rows, rivals, stmt]
  PageSize,   \* rows of a page of the scan
  MaxSends    \* so often a request is sent: 4 in the code

ASSUME ModifyAssumption ==
  /\ PageSize \in Nat \ {0} /\ MaxSends \in Nat \ {0}
  /\ \A x \in Cases :
       /\ x.stmt.op \in {"insert", "update", "delete"} /\ x.rivals \subseteq Nat
       /\ IsFiniteSet(x.rows) /\ x.rows \subseteq [id : Nat \cup {Null}, val : Int \cup {Null}]
       /\ x.stmt.rows \in Seq([id : Nat \cup {Null}, val : Int \cup {Null}])
       /\ x.stmt.cells \in Seq(Int \cup {Null})
       /\ x.order \in Seq(SortFields)

VARIABLES
  c,         \* the statement and the foreign table
  phase,     \* "plan", "begin", "open", "ending", "done" or "failed"
  pos,       \* the next row of an INSERT
  scan,      \* of an UPDATE or DELETE: rows read and not handled, place, end
  inst,      \* what the wrapper's instance keeps
  request,   \* the request the wrapper waits for, and how often it was sent
  sends,
  table,     \* the remote rows, a bag, and the data files of Iceberg
  files,
  contexts,  \* the states and memory contexts alive in the backend
  unwound    \* an error went past the functions that drop them

local == <<c, pos, scan, inst>>
vars  == <<c, phase, pos, scan, inst, request, sends, table, files, contexts, unwound>>

-----------------------------------------------------------------------------
(* The methods of the wrapper.                                             *)

\* Wrappers without methods of their own take the framework's: Ok(()).
insert(r) ==
  CASE c.w = "bigquery"   -> BigqueryInsert(c, inst, r)
    [] c.w = "clickhouse" -> ClickhouseInsert(c, inst, r)
    [] c.w = "mysql"      -> MysqlInsert(c, inst, r)
    [] c.w = "mongodb"    -> MongodbInsert(c, inst, r)
    [] c.w = "dynamodb"   -> DynamodbInsert(c, inst, r)
    [] c.w = "stripe"     -> StripeInsert(c, inst, r)
    [] c.w = "s3vectors"  -> S3vectorsInsert(c, inst, r)
    [] c.w = "iceberg"    -> IcebergInsert(c, inst, r)
    [] c.w = "cfd1"       -> Cfd1Insert(c, inst, r)
    [] c.w = "snowflake"  -> SnowflakeInsert(c, inst, r)
    [] c.w = "clerk"      -> ClerkInsert(c, inst, r)
    [] c.w = "orb"        -> OrbInsert(c, inst, r)
    [] c.w = "paddle"     -> PaddleInsert(c, inst, r)
    [] c.w = "cal"        -> CalInsert(c, inst, r)
    [] OTHER              -> Quiet(inst)

update(id, cells) ==
  CASE c.w = "bigquery"   -> BigqueryUpdate(c, inst, id, cells)
    [] c.w = "clickhouse" -> ClickhouseUpdate(c, inst, id, cells)
    [] c.w = "mysql"      -> MysqlUpdate(c, inst, id, cells)
    [] c.w = "mongodb"    -> MongodbUpdate(c, inst, id, cells)
    [] c.w = "dynamodb"   -> DynamodbUpdate(c, inst, id, cells)
    [] c.w = "stripe"     -> StripeUpdate(c, inst, id, cells)
    [] c.w = "cfd1"       -> Cfd1Update(c, inst, id, cells)
    [] c.w = "snowflake"  -> SnowflakeUpdate(c, inst, id, cells)
    [] c.w = "clerk"      -> ClerkUpdate(c, inst, id, cells)
    [] c.w = "orb"        -> OrbUpdate(c, inst, id, cells)
    [] c.w = "paddle"     -> PaddleUpdate(c, inst, id, cells)
    [] c.w = "cal"        -> CalUpdate(c, inst, id, cells)
    [] OTHER              -> Quiet(inst)

delete(id) ==
  CASE c.w = "bigquery"   -> BigqueryDelete(c, inst, id)
    [] c.w = "clickhouse" -> ClickhouseDelete(c, inst, id)
    [] c.w = "mysql"      -> MysqlDelete(c, inst, id)
    [] c.w = "mongodb"    -> MongodbDelete(c, inst, id)
    [] c.w = "dynamodb"   -> DynamodbDelete(c, inst, id)
    [] c.w = "stripe"     -> StripeDelete(c, inst, id)
    [] c.w = "s3vectors"  -> S3vectorsDelete(c, inst, id)
    [] c.w = "cfd1"       -> Cfd1Delete(c, inst, id)
    [] c.w = "snowflake"  -> SnowflakeDelete(c, inst, id)
    [] c.w = "clerk"      -> ClerkDelete(c, inst, id)
    [] c.w = "orb"        -> OrbDelete(c, inst, id)
    [] c.w = "paddle"     -> PaddleDelete(c, inst, id)
    [] c.w = "cal"        -> CalDelete(c, inst, id)
    [] OTHER              -> Quiet(inst)

end_modify ==
  CASE c.w = "s3vectors" -> S3vectorsEnd(inst)
    [] c.w = "iceberg"   -> IcebergEnd(c, inst)
    [] OTHER             -> Quiet(inst)

\* The wrappers with an insert of their own.
Writers == {"bigquery", "clickhouse", "mysql", "mongodb", "dynamodb", "stripe", "s3vectors", "iceberg",
            "cfd1", "snowflake", "clerk", "orb", "paddle", "cal"}

\* Clients whose middleware sends a request again when it fails, a POST too.
Retrying == {"stripe", "cfd1", "snowflake", "clerk", "orb", "paddle", "cal"}

-----------------------------------------------------------------------------
(* The remote side: what a request does to the table.                      *)

SeqToBag(s) == [r \in Range(s) |-> Cardinality({i \in DOMAIN s : s[i] = r})]
Without(ids) == [r \in {x \in DOMAIN table : x.id \notin ids} |-> table[r]]
Ids == {r.id : r \in DOMAIN table}

Assigned(ask) ==
  LET new(r)  == IF r.id = ask.id /\ ask.cells # <<>>
                 THEN [r EXCEPT !.val = Last(ask.cells)] ELSE r
      copies == UNION {{r} \X (1..table[r]) : r \in DOMAIN table}
  IN  [r \in {new(x) : x \in DOMAIN table} |-> Cardinality({p \in copies : new(p[1]) = r})]

Effect(ask) ==
  CASE ask.kind = "add" -> table (+) SeqToBag(ask.rows)
    [] ask.kind = "put" -> Without({r.id : r \in Range(ask.rows)}) (+) SeqToBag(ask.rows)
    [] ask.kind = "set" -> Assigned(ask)
    [] ask.kind = "upsert" /\ ask.id \in Ids -> Assigned(ask)
    [] ask.kind = "upsert" /\ ask.id \notin Ids ->
         table (+) SetToBag({[id |-> ask.id, val |-> Last(ask.cells)]})
    [] ask.kind = "del" -> Without({ask.id})

-----------------------------------------------------------------------------
Idle == request = NoRequest

\* Faulty: the state is not dropped.
DropStateKeepsContext ==
  /\ phase' = "failed" /\ inst' = FreshInstance
  /\ request' = NoRequest /\ sends' = 0 /\ UNCHANGED <<unwound, contexts>>

\* An error the framework's function sees: it drops the state and reports.
DropState ==
  /\ phase' = "failed" /\ contexts' = 0 /\ inst' = FreshInstance
  /\ request' = NoRequest /\ sends' = 0 /\ UNCHANGED unwound

\* An error raised further down, or elsewhere: nothing is dropped.
Unwind ==
  /\ phase' = "failed" /\ inst' = FreshInstance /\ unwound' = TRUE
  /\ UNCHANGED <<request, sends, contexts>>

\* What the caller of a method makes of its result.
Handles(res) ==
  CASE res.err = "ok"      -> /\ inst' = res.inst /\ request' = res.ask
                              /\ UNCHANGED <<phase, contexts, unwound, sends>>
    [] res.err = "error"   -> DropState
    [] res.err = "unwinds" -> Unwind

PlanForeignModify ==
  /\ phase = "plan"
  /\ phase' = IF c.stmt.returning \/ ~c.stmt.rowidOption THEN "failed" ELSE "begin"
  /\ UNCHANGED <<local, request, sends, table, files, contexts, unwound>>

\* EXPLAIN makes no state; creating the instance leaves by report_error, with
\* the memory context made; an error of begin_modify drops the state.
BeginForeignModify ==
  /\ phase = "begin"
  /\ \/ c.stmt.explain /\ phase' = "open" /\ UNCHANGED <<contexts, unwound>>
     \/ ~c.stmt.explain /\ phase' = "failed" /\ contexts' = 1 /\ unwound' = TRUE
     \/ ~c.stmt.explain /\ phase' = "failed" /\ UNCHANGED <<contexts, unwound>>
     \/ /\ ~c.stmt.explain /\ c.w \notin ReadOnlyGuests
        /\ phase' = "open" /\ contexts' = 1 /\ UNCHANGED unwound
  /\ UNCHANGED <<local, request, sends, table, files>>

ExecForeignInsert ==
  /\ phase = "open" /\ Idle /\ contexts = 1
  /\ c.stmt.op = "insert" /\ pos <= Len(c.stmt.rows)
  /\ pos' = pos + 1 /\ Handles(insert(c.stmt.rows[pos]))
  /\ UNCHANGED <<c, scan, table, files>>

-----------------------------------------------------------------------------
(* The scan of an UPDATE or DELETE.                                        *)

\* The service pages by row id; NULL is least.
Below(x, y) == y # Null /\ (x = Null \/ x < y)

SortedTable ==
  LET rows == SetToSeq(BagToSet(table)) IN
  StableSort(rows, {p \in (DOMAIN rows) \X (DOMAIN rows) : Below(rows[p[1]].id, rows[p[2]].id)})

PageOf(rows) == SubSeq(rows, 1, Min({PageSize, Len(rows)}))

NextPage ==
  CASE c.w \in {"mongodb", "dynamodb", "s3vectors", "paddle"} ->
         PageOf(Only(SortedTable, {r \in DOMAIN table : scan.at = Null \/ Below(scan.at, r.id)}))
    [] c.w = "clerk" -> PageOf(SubSeq(SortedTable, scan.cnt + 1, Len(SortedTable)))
    [] c.w = "orb"   -> PageOf(SortedTable)
    [] OTHER         -> SortedTable

\* Postgres keeps the rows the statement is about.
FetchPage ==
  /\ phase = "open" /\ Idle /\ contexts = 1
  /\ c.stmt.op # "insert" /\ scan.rows = <<>> /\ ~scan.end
  /\ scan' = [rows |-> Only(NextPage, {r \in DOMAIN table : r.id \in c.stmt.ids}),
              at   |-> IF NextPage = <<>> THEN Null ELSE Last(NextPage).id,
              cnt  |-> scan.cnt + Len(NextPage),
              end  |-> Len(NextPage) # PageSize
                         \/ c.w \notin {"mongodb", "dynamodb", "s3vectors", "paddle", "clerk"}]
  /\ UNCHANGED <<c, phase, pos, inst, request, sends, table, files, contexts, unwound>>

\* No cell is made of a NULL, nor of the types Cell does not know.
get_rowid_cell(r) == IF c.rowid = "varchar" THEN Null ELSE r.id

TakesRow(r) ==
  /\ phase = "open" /\ Idle /\ contexts = 1
  /\ scan.rows # <<>> /\ r = Head(scan.rows)
  /\ scan' = [scan EXCEPT !.rows = Tail(@)]
  /\ UNCHANGED <<c, pos, table, files>>

\* The cells of the assigned columns, the rowid column left out.
new_row == IF c.stmt.column = "rowid" THEN <<>> ELSE c.stmt.cells
SkipsRow == UNCHANGED <<phase, inst, request, sends, contexts, unwound>>

ExecForeignUpdate ==
  /\ c.stmt.op = "update"
  /\ \E r \in Range(scan.rows) :
       /\ TakesRow(r)
       /\ LET rowid == get_rowid_cell(r) IN
          IF rowid = Null THEN SkipsRow ELSE Handles(update(rowid, new_row))

ExecForeignDelete ==
  /\ c.stmt.op = "delete"
  /\ \E r \in Range(scan.rows) :
       /\ TakesRow(r)
       /\ LET rowid == get_rowid_cell(r) IN
          IF rowid = Null THEN SkipsRow ELSE Handles(delete(rowid))

-----------------------------------------------------------------------------
(* The answer to a request.                                                *)

\* After the answer to the request of end_modify the state is dropped.
Answered ==
  /\ request' = NoRequest /\ sends' = 0 /\ UNCHANGED <<inst, unwound>>
  /\ phase' = IF phase = "ending" THEN "done" ELSE phase
  /\ contexts' = IF phase = "ending" THEN 0 ELSE contexts

\* Faulty: the number of retries is not looked at.
SendAgainOnceMore ==
  /\ c.w \in Retrying /\ sends < MaxSends /\ sends' = sends + 1
  /\ UNCHANGED <<phase, inst, request, contexts, unwound>>

SendAgain ==
  /\ c.w \in Retrying /\ sends + 1 < MaxSends /\ sends' = sends + 1
  /\ UNCHANGED <<phase, inst, request, contexts, unwound>>
GivesUp == (c.w \in Retrying => sends + 1 >= MaxSends) /\ DropState

RemoteWrites ==
  /\ ~Idle
  /\ table' = Effect(request) /\ files' = files \cup request.files
  /\ Answered \/ SendAgain \/ GivesUp
  /\ UNCHANGED <<c, pos, scan>>

\* A status the middleware does not take for transient ends the request at once.
RemoteRefuses ==
  /\ ~Idle
  /\ SendAgain \/ DropState
  /\ UNCHANGED <<c, pos, scan, table, files>>

EndForeignModify ==
  /\ phase = "open" /\ Idle
  /\ contexts = 1 => IF c.stmt.op = "insert" THEN pos > Len(c.stmt.rows)
                     ELSE scan.end /\ scan.rows = <<>>
  /\ IF contexts = 0 THEN phase' = "done" /\ UNCHANGED <<inst, request, sends, contexts, unwound>>
     ELSE LET res == end_modify IN
          IF res.err # "ok" THEN DropState
          ELSE /\ inst' = res.inst /\ request' = res.ask
               /\ phase' = IF res.ask = NoRequest THEN "done" ELSE "ending"
               /\ contexts' = IF res.ask = NoRequest THEN 0 ELSE 1
               /\ UNCHANGED <<sends, unwound>>
  /\ UNCHANGED <<c, pos, scan, table, files>>

\* An error of the scan, of another table, or a cancelled statement.
AbortElsewhere ==
  /\ phase = "open" /\ Idle /\ contexts = 1
  /\ Unwind /\ UNCHANGED <<c, pos, scan, table, files>>

RivalDeletes ==
  /\ phase \notin {"done", "failed"}
  /\ \E id \in c.rivals \cap Ids : table' = Without({id})
  /\ UNCHANGED <<local, phase, request, sends, files, contexts, unwound>>

Finished == phase \in {"done", "failed"} /\ UNCHANGED vars

-----------------------------------------------------------------------------
Init ==
  /\ c \in Cases /\ phase = "plan" /\ pos = 1
  /\ scan = [rows |-> <<>>, at |-> Null, cnt |-> 0, end |-> FALSE]
  /\ inst = FreshInstance /\ request = NoRequest /\ sends = 0
  /\ table = SetToBag(c.rows) /\ files = {}
  /\ contexts = 0 /\ unwound = FALSE

Next ==
  \/ PlanForeignModify \/ BeginForeignModify
  \/ ExecForeignInsert \/ FetchPage \/ ExecForeignUpdate \/ ExecForeignDelete
  \/ RemoteWrites \/ RemoteRefuses \/ EndForeignModify
  \/ AbortElsewhere \/ RivalDeletes \/ Finished

Spec == Init /\ [][Next]_vars

-----------------------------------------------------------------------------
(* Properties.                                                             *)

\* Every state is of the kinds the code can be in.
TypeOK ==
  /\ c \in Cases
  /\ phase \in {"plan", "begin", "open", "ending", "done", "failed"}
  /\ pos \in Nat /\ sends \in 0..MaxSends - 1 /\ contexts \in 0..1 /\ unwound \in BOOLEAN
  /\ IsABag(table) /\ {r.id : r \in DOMAIN table} \subseteq Nat \cup {Null}
  /\ Idle => sends = 0
  /\ phase \in {"plan", "begin"} => contexts = 0

\* The backend is left with a modify state or memory context only by an
\* error that went past the functions of modify.rs.
NothingLeftBehind ==
  /\ phase = "done" => contexts = 0
  /\ phase = "failed" => (contexts = 1) = unwound

\* The rows an instance keeps between two calls are fewer than its options
\* and RegularFlush allow.
BuffersBounded ==
  phase = "open" =>
    /\ Len(inst.rows) < BatchSize
    /\ \A k \in DOMAIN inst.parts : Len(inst.parts[k]) \in 1..PartitionBufferSize - 1
    /\ Cardinality(DOMAIN inst.parts) < RegularFlush

\* Every row of a data file belongs to the partition of its file, by the
\* transforms of the Iceberg format: readers skip files by it.
FilesInPartition ==
  \A f \in files : \A r \in Range(f.rows) : IcebergTransform(c, r.val) = f.part

\* It takes that the rows of the statement with one key are of one partition,
\* and that the value computed for a file is the one of the format.
KeysAgree(x) ==
  \A r, q \in Range(x.stmt.rows) :
    /\ computePartitionInfo(x, r) = IcebergTransform(x, r.val)
    /\ computePartitionKey(x, r) = computePartitionKey(x, q) =>
         IcebergTransform(x, r.val) = IcebergTransform(x, q.val)

\* The rows of a data file are in the sort order of the table, as the Iceberg
\* format defines it: no row comes before one it is to follow.
FilesSorted ==
  \A f \in files : \A i, j \in DOMAIN f.rows : i < j => ~FormatBelow(c, f.rows[j], f.rows[i])

\* It takes that the keys of the code tell the rows of the statement apart where
\* the format does: not so for decimals, other NULL orders and some transforms.
OrderKept(x) ==
  \A r, q \in Range(x.stmt.rows) : FormatBelow(x, r, q) => compareSortKeys(x, r, q)

\* What the statement is to change: rows without a row id cannot be changed.
Target(r) ==
  IF c.stmt.column = "rowid" THEN [r EXCEPT !.id = Last(c.stmt.cells)]
  ELSE [r EXCEPT !.val = Last(c.stmt.cells)]

Chosen == {r \in c.rows : r.id \in c.stmt.ids \ {Null}}

Changes ==
  CASE c.stmt.explain       -> {}
    [] ~c.stmt.explain /\ c.stmt.op = "insert" ->
         {[old |-> {}, new |-> {r}] : r \in Range(c.stmt.rows)}
    [] ~c.stmt.explain /\ c.stmt.op = "update" ->
         {[old |-> {r}, new |-> {Target(r)}] : r \in {x \in Chosen : Target(x) # x}}
    [] ~c.stmt.explain /\ c.stmt.op = "delete" ->
         {[old |-> {r}, new |-> {}] : r \in Chosen}

Outstanding ==
  {ch \in Changes : IF ch.old = {} THEN ~(ch.new \subseteq DOMAIN table)
                     ELSE ch.old \subseteq DOMAIN table}

\* A statement that succeeds made all of its changes, whatever the wrapper
\* batches or buffers, whatever other clients delete meanwhile; one that
\* fails made some of them; none makes another change, except for rows that
\* a client which sends again creates twice.
Effected == INSTANCE StatementEffect WITH
  changes <- Changes, todo <- Outstanding, repeats <- c.w \in Retrying,
  outcome <- IF phase \in {"done", "failed"} THEN phase ELSE "open"

Implements == Effected!Spec

\* INSERTs of values the wrapper has a cell and a cast for, into tables where
\* ids are unique and new to the table: what is proved of Implements.
WritesRows(x) ==
  /\ x.stmt.op = "insert" /\ x.w \in Writers \cup ReadOnlyGuests
  /\ \A i, j \in DOMAIN x.stmt.rows : x.stmt.rows[i].id = x.stmt.rows[j].id => i = j
  /\ \A r, q \in x.rows : r.id = q.id => r = q
  /\ \A r \in Range(x.stmt.rows) :
       /\ r.id \notin x.rivals /\ \A q \in x.rows : r.id # q.id
       /\ x.w = "clickhouse" /\ x.col = "uint8" => r.val \in 0..255 \cup {Null}
       /\ x.w = "cal" => r.val # Null

\* UPDATEs and DELETEs of one column or whole rows, ids unique, by the wrappers
\* that have a method, a cell and a page for them: what is proved of Implements.
ChangesRows(x) ==
  LET upTo(r) == {q \in x.rows : ~Below(r.id, q.id)} IN
  /\ x.stmt.op \in {"update", "delete"} /\ x.rowid # "varchar"
  /\ x.w \in (Writers \ {"iceberg"}) \cup ReadOnlyGuests
  /\ \A r, q \in x.rows : r.id = q.id => r = q
  /\ x.w \in {"clerk", "orb"} =>
       \A r \in x.rows : r.id \in x.stmt.ids \ {Null} => Cardinality(upTo(r)) <= PageSize
  /\ x.stmt.op = "delete" /\ x.w = "cfd1" => x.rowid # "text"
  /\ x.stmt.op = "update" =>
       /\ Len(x.stmt.cells) = 1 /\ x.w # "s3vectors"
       /\ x.w \in {"stripe", "paddle"} => x.stmt.cells # <<Null>>
       /\ x.w = "cfd1" /\ x.col = "text" => x.stmt.cells # <<TextNull>>
       /\ x.w = "dynamodb" => x.rivals = {}
       /\ x.stmt.column = "rowid" => x.w \notin {"mongodb", "dynamodb", "stripe", "paddle"}
=============================================================================
