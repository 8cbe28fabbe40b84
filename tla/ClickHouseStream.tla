-------------------------- MODULE ClickHouseStream --------------------------
(***************************************************************************)
(* A scan of the ClickHouse wrapper                                        *)
(* (wrappers/src/fdw/clickhouse_fdw/clickhouse_fdw.rs): a task on the one  *)
(* worker thread of the wrapper's own runtime reads the remote stream and  *)
(* sends converted rows through a bounded channel, and the backend, always *)
(* one row ahead of the query, blocks on the other end.                    *)
(*                                                                         *)
(* The task blocks its thread when the channel is full, the backend blocks *)
(* when it is empty, and dropping the wrapper waits for the thread.        *)
(***************************************************************************)
EXTENDS Integers, Sequences

CONSTANTS
  N,           \* rows of the remote stream
  BufferSize,  \* stream_buffer_size
  Bad          \* the rows that have a value no numeric column can take

ASSUME StreamAssumption ==
  /\ N \in Nat
  /\ BufferSize \in Nat \ {0}
  /\ Bad \subseteq 1..N

StreamRows == 1..N

NoRow  == [kind |-> "none", row |-> 0]
Row(r) == [kind |-> "row", row |-> r]
Eos    == [kind |-> "end", row |-> 0]
Err    == [kind |-> "err", row |-> 0]
Messages == {Row(r) : r \in StreamRows} \cup {Eos, Err}

VARIABLES
  pc,        \* the backend: "closed" (no scan), "open" (between two calls),
             \*   "recv" (in fetch_next_row), "drop" (dropping the wrapper)
  inSetup,   \* the fetch is that of setup_streaming, which holds a sender
  taken,     \* the row iter_scan returns when the fetch is over
  current,   \* current_row_data
  complete,  \* is_scan_complete
  receiver,  \* row_receiver is Some
  chan,      \* the messages in the channel
  task,      \* the worker: "none", "connect", "stream", "send", "over"
  msg,       \* what it is sending
  next,      \* the row it reads next
  delivered, \* the rows the query has, in order, since the scan last began
  ended      \* iter_scan returned None since then

backendVars == <<pc, inSetup, taken, current, complete, delivered, ended>>
taskVars    == <<task, msg, next>>
streamVars == <<pc, inSetup, taken, current, complete, receiver, chan, task, msg, next, delivered, ended>>

-----------------------------------------------------------------------------
StreamInit ==
  /\ pc = "closed" /\ inSetup = FALSE
  /\ taken = NoRow /\ current = NoRow /\ complete = FALSE
  /\ receiver = FALSE /\ chan = <<>>
  /\ task = "none" /\ msg = NoRow /\ next = 1
  /\ delivered = <<>> /\ ended = FALSE

(* The backend. *)

\* Faulty: the scan is not marked as incomplete again.
SetupKeepsComplete ==
  /\ pc' = "recv" /\ inSetup' = TRUE
  /\ taken' = NoRow /\ current' = NoRow /\ UNCHANGED complete
  /\ receiver' = TRUE /\ chan' = <<>>
  /\ task' = "connect" /\ msg' = NoRow /\ next' = 1
  /\ delivered' = <<>> /\ ended' = FALSE

\* A new channel and a new task, and the wait for the first row. The task of
\* the scan before keeps no end of this channel: its receiver is gone, so its
\* next send fails and it stops.
SetupStreaming ==
  /\ pc' = "recv" /\ inSetup' = TRUE
  /\ taken' = NoRow /\ current' = NoRow /\ complete' = FALSE
  /\ receiver' = TRUE /\ chan' = <<>>
  /\ task' = "connect" /\ msg' = NoRow /\ next' = 1
  /\ delivered' = <<>> /\ ended' = FALSE

\* begin_scan and begin_aggregate_scan, of a new instance or of one whose scan
\* restart_scan has just ended.
BeginScan == pc = "closed" /\ SetupStreaming

\* re_scan aborts the task and drops the receiver before it starts over.
ReScan == pc = "open" /\ SetupStreaming

\* iter_scan, as far as it goes without the channel.
IterScan ==
  /\ pc = "open"
  /\ IF complete \/ current = NoRow
       THEN ended' = TRUE /\ UNCHANGED <<pc, taken, current>>
       ELSE /\ taken' = current /\ current' = NoRow
            /\ pc' = "recv"
            /\ UNCHANGED ended
  /\ UNCHANGED <<inSetup, complete, receiver, chan, taskVars, delivered>>

\* fetch_next_row is over and so is the method that called it: setup_streaming,
\* or iter_scan, which has filled the query's row with the one taken before.
Fetched(c, done) ==
  /\ current' = c /\ complete' = done
  /\ pc' = "open" /\ inSetup' = FALSE /\ taken' = NoRow
  /\ delivered' = IF taken = NoRow THEN delivered ELSE Append(delivered, taken.row)
  /\ UNCHANGED ended

\* It failed: the method fails and the framework drops the instance.
FetchFailed ==
  /\ pc' = "drop" /\ inSetup' = FALSE /\ taken' = NoRow
  /\ UNCHANGED <<current, complete, delivered, ended>>

RecvRow ==
  /\ pc = "recv" /\ chan # <<>> /\ Head(chan).kind = "row"
  /\ chan' = Tail(chan)
  /\ IF Head(chan).row \in Bad THEN FetchFailed ELSE Fetched(Head(chan), complete)
  /\ UNCHANGED <<receiver, taskVars>>

\* The end-of-stream marker; a channel that is empty with every sender gone is
\* taken for it too. setup_streaming holds a sender of its own while it waits
\* for the first row.
StreamOver ==
  IF chan = <<>> THEN task = "over" /\ ~inSetup ELSE Head(chan) = Eos

RecvEnd ==
  /\ pc = "recv" /\ StreamOver
  /\ chan' = IF chan = <<>> THEN chan ELSE Tail(chan)
  /\ Fetched(NoRow, TRUE)
  /\ UNCHANGED <<receiver, taskVars>>

\* The receiver is dropped with the error.
RecvError ==
  /\ pc = "recv" /\ chan # <<>> /\ Head(chan) = Err
  /\ chan' = <<>> /\ receiver' = FALSE
  /\ FetchFailed
  /\ UNCHANGED taskVars

\* Faulty: the receiver is left to the drop of the wrapper.
EndKeepsReceiver ==
  /\ pc = "open"
  /\ current' = NoRow /\ complete' = TRUE
  /\ \/ pc' = "drop"
     \/ pc' = "closed"
  /\ delivered' = <<>> /\ ended' = FALSE
  /\ UNCHANGED <<inSetup, taken, receiver, chan, taskVars>>

\* end_scan drops the receiver but not the task; then the framework drops the
\* instance or begins another scan with it.
EndScan ==
  /\ pc = "open"
  /\ current' = NoRow /\ complete' = TRUE
  /\ receiver' = FALSE /\ chan' = <<>>
  /\ \/ pc' = "drop"
     \/ pc' = "closed"
  /\ delivered' = <<>> /\ ended' = FALSE
  /\ UNCHANGED <<inSetup, taken, taskVars>>

\* The fields of the wrapper are dropped in the order they are declared: the
\* runtime first, which waits until its thread no longer runs the task, and
\* the receiver after it. A task that awaits the remote side is cancelled. The
\* next execution has an instance of its own.
DropWrapper ==
  /\ pc = "drop" /\ task # "send"
  /\ pc' = "closed" /\ inSetup' = FALSE
  /\ taken' = NoRow /\ current' = NoRow /\ complete' = FALSE
  /\ receiver' = FALSE /\ chan' = <<>>
  /\ task' = "none" /\ msg' = NoRow /\ next' = 1
  /\ delivered' = <<>> /\ ended' = FALSE

-----------------------------------------------------------------------------
(* The task. *)

\* The connection is made, or the error is sent.
Connect ==
  /\ task = "connect"
  /\ \/ task' = "stream" /\ UNCHANGED msg
     \/ task' = "send" /\ msg' = Err
  /\ UNCHANGED <<backendVars, receiver, chan, next>>

\* Faulty: the task returns without a word when the stream fails.
ReadStreamSilent ==
  /\ task = "stream"
  /\ \/ next <= N /\ task' = "send" /\ msg' = Row(next) /\ next' = next + 1
     \/ next > N /\ task' = "send" /\ msg' = Eos /\ UNCHANGED next
     \/ task' = "over" /\ UNCHANGED <<msg, next>>
  /\ UNCHANGED <<backendVars, receiver, chan>>

\* A value may be of a type the column cannot take.
Converted(r) == {Row(r), Err}

\* The next row is converted and sent; or the stream fails, or is over.
ReadStream ==
  /\ task = "stream"
  /\ task' = "send"
  /\ \/ next <= N /\ msg' \in Converted(next) /\ next' = next + 1
     \/ next > N /\ msg' = Eos /\ UNCHANGED next
     \/ msg' = Err /\ UNCHANGED next
  /\ UNCHANGED <<backendVars, receiver, chan>>

\* Faulty: a full channel drops its oldest message.
SendLossy ==
  /\ task = "send" /\ receiver
  /\ chan' = Append(IF Len(chan) < BufferSize THEN chan ELSE Tail(chan), msg)
  /\ task' = IF msg.kind = "row" THEN "stream" ELSE "over"
  /\ msg' = NoRow
  /\ UNCHANGED <<backendVars, receiver, next>>

\* Faulty: the channel has no bound.
SendUnbounded ==
  /\ task = "send" /\ receiver
  /\ chan' = Append(chan, msg)
  /\ task' = IF msg.kind = "row" THEN "stream" ELSE "over"
  /\ msg' = NoRow
  /\ UNCHANGED <<backendVars, receiver, next>>

\* tx.send waits for room.
Send ==
  /\ task = "send" /\ receiver /\ Len(chan) < BufferSize
  /\ chan' = Append(chan, msg)
  /\ task' = IF msg.kind = "row" THEN "stream" ELSE "over"
  /\ msg' = NoRow
  /\ UNCHANGED <<backendVars, receiver, next>>

\* The receiver is dropped, stop streaming.
SendFails ==
  /\ task = "send" /\ ~receiver
  /\ task' = "over" /\ msg' = NoRow
  /\ UNCHANGED <<backendVars, receiver, chan, next>>

-----------------------------------------------------------------------------
Recv == RecvRow \/ RecvEnd \/ RecvError
Task == Connect \/ ReadStream \/ Send \/ SendFails

StreamNext == BeginScan \/ ReScan \/ IterScan \/ Recv \/ EndScan \/ DropWrapper \/ Task

StreamSpec == StreamInit /\ [][StreamNext]_streamVars

\* The executor may stop asking at any time, but a backend inside a method goes
\* on when it can, and so does the task, the remote side answering.
FairStreamSpec == StreamSpec /\ WF_streamVars(Recv) /\ WF_streamVars(DropWrapper) /\ WF_streamVars(Task)

-----------------------------------------------------------------------------
StreamTypeOK ==
  /\ pc \in {"closed", "open", "recv", "drop"}
  /\ inSetup \in BOOLEAN /\ complete \in BOOLEAN
  /\ receiver \in BOOLEAN /\ ended \in BOOLEAN
  /\ taken \in {Row(r) : r \in StreamRows} \cup {NoRow}
  /\ current \in {Row(r) : r \in StreamRows} \cup {NoRow}
  /\ chan \in Seq(Messages) /\ Len(chan) <= BufferSize
  /\ task \in {"none", "connect", "stream", "send", "over"}
  /\ msg \in Messages \cup {NoRow}
  /\ next \in 1..(N + 1)
  /\ delivered \in Seq(StreamRows)

\* The query has the rows of the stream in their order, none twice, and when it
\* is told that there are no more it has them all: the prefetched row, the row
\* in flight between two methods, the channel, the task and the rule that takes
\* a disconnected channel for the end of the stream work together for it.
NothingLost ==
  /\ \A i \in DOMAIN delivered : delivered[i] = i
  /\ ended => Len(delivered) = N

\* What the framework relies on, with one ask.
R == INSTANCE RemoteScan WITH
       Rows <- StreamRows, Asks <- {"all"}, Needed <- [a \in {"all"} |-> StreamRows],
       open <- pc \in {"open", "recv"}, asked <- "all",
       given <- IF pc \in {"open", "recv"} THEN delivered ELSE <<>>,
       ended <- pc \in {"open", "recv"} /\ ended
StreamImplements == R!Spec

\* A backend that waits for a row is answered: the task sends one, or the end
\* of the stream, or an error, or it is gone and the channel with it.
RecvReturns == pc = "recv" ~> pc # "recv"

\* Dropping the wrapper does not block the backend for good ("receiver dropped,
\* stop streaming").
DropReturns == pc = "drop" ~> pc = "closed"
=============================================================================
