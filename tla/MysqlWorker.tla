---------------------------- MODULE MysqlWorker ----------------------------
(***************************************************************************)
(* The MySQL wrapper (wrappers/src/fdw/mysql_fdw/mysql_fdw.rs): the        *)
(* backend sends commands to a worker thread through a channel of one slot *)
(* and waits for the answer on a channel made for that command, at most    *)
(* `timeout` long.  A worker outlives the command it timed out on, the     *)
(* scan it was disconnected from and the instance that spawned it, so      *)
(* several may be alive, each at its own pace.                             *)
(***************************************************************************)
EXTENDS Integers, Sequences

CONSTANTS
  Asks,        \* the queries a scan may be begun with
  N,           \* rows in the result of each
  MaxWorkers,  \* bound on the workers with something to do at a time
  MaxWrites    \* bound on the rows written

ASSUME WorkerAssumption ==
  /\ N \in Nat
  /\ MaxWorkers \in Nat \ {0}
  /\ MaxWrites \in Nat

Ids    == 1..MaxWorkers
Writes == 1..MaxWrites
Rows   == Asks \X (1..N)

NoCmd == [op |-> "none"]
Cmds == {[op |-> "query", ask |-> a] : a \in Asks}
          \cup {[op |-> "execute", write |-> i] : i \in Writes}
          \cup {[op |-> "next"], [op |-> "queryAll"], [op |-> "disconnect"]}

NoReply == [is |-> "none"]
Replies == {[is |-> k] : k \in {"streamReady", "rows", "done", "ok", "err"}}
             \cup {[is |-> "row", row |-> r] : r \in Rows}

NoStream == <<>>
Streams == {NoStream} \cup {<<a, n>> : a \in Asks, n \in 0..N}

VARIABLES
  inst,     \* the instance: "none", "scan", "modify" or "import", what it is for
  tx,       \* the worker self.tx sends to, 0 for None
  pc,       \* the backend: "idle" (between methods), "send", "wait", "disconnect"
  call,     \* the command under way
  reply,    \* what its reply channel holds
  worker,   \* the worker threads, see TypeOK
  open, asked, given, ended,  \* as in RemoteScan
  issued,   \* rows given to insert, update or delete so far
  acked,    \* those reported as written
  written   \* how often each was written on the MySQL server

scanVars  == <<open, asked, given, ended>>
writeVars == <<issued, acked>>
vars == <<inst, tx, pc, call, reply, worker, open, asked, given, ended, issued, acked, written>>

Exited == [st |-> "exit", slot |-> NoCmd, cmd |-> NoCmd, heard |-> FALSE,
           sender |-> FALSE, leaked |-> FALSE, stream |-> NoStream]

Init ==
  /\ inst = "none" /\ tx = 0 /\ pc = "idle" /\ call = NoCmd /\ reply = NoReply
  /\ worker = [k \in Ids |-> Exited]
  /\ open = FALSE /\ asked \in Asks /\ given = <<>> /\ ended = FALSE
  /\ issued = 0 /\ acked = {} /\ written = [i \in Writes |-> 0]

-----------------------------------------------------------------------------
(* The backend. *)

\* The instance has nothing to do with k, nor will k do anything again: it has
\* exited, waits for the server for ever, or for a command of a leaked sender.
Idle(k) ==
  /\ tx # k
  /\ \/ worker[k].st \in {"exit", "hung"}
     \/ worker[k].leaked /\ worker[k].st = "recv" /\ worker[k].slot = NoCmd

\* spawn_worker, in the place of the first such k.
SpawnWorker ==
  \E k \in Ids :
    /\ Idle(k) /\ \A j \in 1..(k - 1) : ~Idle(j)
    /\ tx' = k
    /\ worker' = [worker EXCEPT ![k] = [Exited EXCEPT !.st = "start", !.sender = TRUE]]

\* The instance is dropped, and with it the sender of the command channel and
\* the receiver of the reply: what the worker still answers is heard by nobody,
\* and its stream is forgotten here before it drops it.
DropInstance ==
  /\ inst' = "none" /\ tx' = 0 /\ pc' = "idle" /\ call' = NoCmd /\ reply' = NoReply
  /\ worker' = [k \in Ids |->
       IF k = tx THEN [worker[k] EXCEPT !.sender = FALSE, !.heard = FALSE, !.stream = NoStream]
                 ELSE worker[k]]
  /\ open' = FALSE /\ given' = <<>> /\ ended' = FALSE
  /\ UNCHANGED <<asked, writeVars, written>>

\* A method fails; the framework drops the instance.
Fail == DropInstance

New(job) ==
  /\ inst = "none"
  /\ SpawnWorker
  /\ inst' = job
  /\ UNCHANGED <<pc, call, reply, scanVars, writeVars, written>>

\* send_cmd, as far as the channel: the worker is spawned again if a Disconnect
\* ended the one before.
SendCmd(c) ==
  /\ pc = "idle"
  /\ pc' = "send" /\ call' = c /\ reply' = NoReply
  /\ IF tx # 0 THEN UNCHANGED <<tx, worker>> ELSE SpawnWorker
  /\ UNCHANGED inst

\* setup_streaming, for a new question or again for the last.
SetupStreaming(a) ==
  /\ SendCmd([op |-> "query", ask |-> a])
  /\ asked' = a /\ open' = TRUE /\ given' = <<>> /\ ended' = FALSE
  /\ UNCHANGED <<writeVars, written>>

\* begin_scan and begin_aggregate_scan, of a new instance or after end_scan.
BeginScan == inst = "scan" /\ ~open /\ \E a \in Asks : SetupStreaming(a)

\* Faulty: the stream that is open is read on.
ReScanKeepsStream ==
  /\ inst = "scan" /\ open /\ pc = "idle"
  /\ given' = <<>> /\ ended' = FALSE
  /\ UNCHANGED <<inst, tx, pc, call, reply, worker, open, asked, writeVars, written>>

ReScan == inst = "scan" /\ open /\ SetupStreaming(asked)

IterScan ==
  /\ inst = "scan" /\ open
  /\ SendCmd([op |-> "next"])
  /\ UNCHANGED <<scanVars, writeVars, written>>

\* insert, update and delete.
ExecuteSql ==
  /\ inst = "modify" /\ issued < MaxWrites
  /\ SendCmd([op |-> "execute", write |-> issued + 1])
  /\ issued' = issued + 1
  /\ UNCHANGED <<scanVars, acked, written>>

ImportForeignSchema ==
  /\ inst = "import"
  /\ SendCmd([op |-> "queryAll"])
  /\ UNCHANGED <<scanVars, writeVars, written>>

\* tx.send: it waits for the slot, and fails when the worker is gone.
Put ==
  /\ pc = "send"
  /\ \/ /\ worker[tx].st # "exit" /\ worker[tx].slot = NoCmd
        /\ worker' = [worker EXCEPT ![tx].slot = call, ![tx].heard = TRUE]
        /\ pc' = "wait"
        /\ UNCHANGED <<inst, tx, call, reply, scanVars, writeVars, written>>
     \/ worker[tx].st = "exit" /\ Fail

\* recv_timeout returns the reply, and the method goes on with it. A row that
\* cannot be converted fails the method too. import_foreign_schema disconnects
\* the worker itself.
Answered ==
  /\ pc = "wait" /\ reply # NoReply
  /\ \/ /\ reply.is \in {"err", "row"}
        /\ Fail
     \/ /\ reply.is # "err"
        /\ pc' = IF reply.is = "rows" THEN "disconnect" ELSE "idle"
        /\ call' = NoCmd /\ reply' = NoReply
        /\ given' = IF reply.is = "row" THEN Append(given, reply.row) ELSE given
        /\ ended' = (ended \/ reply.is = "done")
        /\ acked' = IF reply.is = "ok" THEN acked \cup {call.write} ELSE acked
        /\ UNCHANGED <<inst, tx, worker, open, asked, issued, written>>

\* Faulty: the command that timed out is sent again.
TimedOutRetries ==
  /\ pc = "wait" /\ reply = NoReply
  /\ pc' = "send"
  /\ worker' = [worker EXCEPT ![tx].heard = FALSE]
  /\ UNCHANGED <<inst, tx, call, reply, scanVars, writeVars, written>>

\* Faulty: the instance is kept for the next command.
TimedOutKeepsInstance ==
  /\ pc = "wait" /\ reply = NoReply
  /\ pc' = "idle" /\ call' = NoCmd
  /\ worker' = [worker EXCEPT ![tx].heard = FALSE]
  /\ UNCHANGED <<inst, tx, reply, scanVars, writeVars, written>>

\* The time is up, or the worker died with the command: an error, whatever
\* becomes of the command.
TimedOut == pc = "wait" /\ reply = NoReply /\ Fail

\* end_scan and end_modify.
End ==
  /\ inst # "none" /\ pc = "idle"
  /\ pc' = "disconnect"
  /\ open' = FALSE /\ given' = <<>> /\ ended' = FALSE
  /\ UNCHANGED <<inst, tx, call, reply, worker, asked, writeVars, written>>

\* disconnect_worker: Disconnect waits for the slot, then the sender is gone,
\* and the stream will be dropped.
Disconnect ==
  /\ pc = "disconnect"
  /\ tx # 0 /\ worker[tx].st # "exit" => worker[tx].slot = NoCmd
  /\ worker' = [k \in Ids |->
       IF k # tx \/ worker[k].st = "exit" THEN worker[k]
       ELSE [worker[k] EXCEPT !.slot = [op |-> "disconnect"], !.sender = FALSE,
                              !.heard = FALSE, !.stream = NoStream]]
  /\ tx' = 0 /\ pc' = "idle"
  /\ UNCHANGED <<inst, call, reply, scanVars, writeVars, written>>

\* The framework is done with the instance, ended or (as in planning) never
\* used.
Drop == inst # "none" /\ pc = "idle" /\ ~open /\ DropInstance

\* Another part of the query fails and the instance is never dropped; its
\* worker keeps the connection, and a stream nobody reads again.
AbortElsewhere ==
  /\ inst # "none" /\ pc = "idle"
  /\ inst' = "none" /\ tx' = 0
  /\ worker' = [k \in Ids |-> IF k = tx THEN [worker[k] EXCEPT !.leaked = TRUE, !.stream = NoStream]
                                        ELSE worker[k]]
  /\ open' = FALSE /\ given' = <<>> /\ ended' = FALSE
  /\ UNCHANGED <<pc, call, reply, asked, writeVars, written>>

-----------------------------------------------------------------------------
(* Worker k. *)

backendVars == <<inst, tx, pc, call, scanVars, writeVars>>

\* The thread has its runtime, or panics.
Start(k) ==
  /\ worker[k].st = "start"
  /\ \/ worker' = [worker EXCEPT ![k].st = "recv"]
     \/ worker' = [worker EXCEPT ![k] = Exited]
  /\ UNCHANGED <<backendVars, reply, written>>

Take(k) ==
  /\ worker[k].st = "recv" /\ worker[k].slot # NoCmd
  /\ worker' = [worker EXCEPT ![k].st = "busy", ![k].cmd = worker[k].slot, ![k].slot = NoCmd]
  /\ UNCHANGED <<backendVars, reply, written>>

\* Faulty: an empty channel without a sender is no reason to stop.
NeverGone(k) == FALSE

\* The sender is dropped and nothing is left in the channel.
Gone(k) ==
  /\ worker[k].st = "recv" /\ worker[k].slot = NoCmd /\ ~worker[k].sender
  /\ worker' = [worker EXCEPT ![k] = Exited]
  /\ UNCHANGED <<backendVars, reply, written>>

\* The command is done, the stream is s, and r goes to the reply channel, if
\* its receiver still exists.
Replied(k, s, r) ==
  /\ worker' = [worker EXCEPT ![k].st = "recv", ![k].cmd = NoCmd, ![k].stream = s, ![k].heard = FALSE]
  /\ reply' = IF worker[k].heard THEN r ELSE reply
  /\ UNCHANGED backendVars

Busy(k, op) == worker[k].st = "busy" /\ worker[k].cmd.op = op

\* Faulty: a stream that is open is not replaced.
DoQueryOnce(k) ==
  /\ Busy(k, "query")
  /\ \/ Replied(k, IF worker[k].stream = NoStream THEN <<worker[k].cmd.ask, 0>> ELSE worker[k].stream,
                [is |-> "streamReady"])
     \/ Replied(k, NoStream, [is |-> "err"])
  /\ UNCHANGED written

DoQuery(k) ==
  /\ Busy(k, "query")
  /\ \/ Replied(k, <<worker[k].cmd.ask, 0>>, [is |-> "streamReady"])
     \/ Replied(k, NoStream, [is |-> "err"])
  /\ UNCHANGED written

\* Faulty: the end of the stream is noticed one row late.
DoNextPastEnd(k) ==
  /\ Busy(k, "next")
  /\ LET s == worker[k].stream
         more == s # NoStream /\ s[2] <= N
     IN  \/ more /\ Replied(k, <<s[1], s[2] + 1>>, [is |-> "row", row |-> <<s[1], s[2] + 1>>])
         \/ ~more /\ Replied(k, s, [is |-> "done"])
         \/ s # NoStream /\ Replied(k, s, [is |-> "err"])
  /\ UNCHANGED written

\* Without a stream there is no row either.
DoNext(k) ==
  /\ Busy(k, "next")
  /\ LET s == worker[k].stream
         more == s # NoStream /\ s[2] < N
     IN  \/ more /\ Replied(k, <<s[1], s[2] + 1>>, [is |-> "row", row |-> <<s[1], s[2] + 1>>])
         \/ ~more /\ Replied(k, s, [is |-> "done"])
         \/ s # NoStream /\ Replied(k, s, [is |-> "err"])
  /\ UNCHANGED written

\* The statement is executed, or not, or it is and its answer is lost.
DoExecute(k) ==
  /\ Busy(k, "execute")
  /\ \/ /\ Replied(k, worker[k].stream, [is |-> "ok"]) \/ Replied(k, worker[k].stream, [is |-> "err"])
        /\ written' = [written EXCEPT ![worker[k].cmd.write] = @ + 1]
     \/ Replied(k, worker[k].stream, [is |-> "err"]) /\ UNCHANGED written

DoQueryAll(k) ==
  /\ Busy(k, "queryAll")
  /\ Replied(k, worker[k].stream, [is |-> "rows"]) \/ Replied(k, worker[k].stream, [is |-> "err"])
  /\ UNCHANGED written

DoDisconnect(k) ==
  /\ Busy(k, "disconnect")
  /\ worker' = [worker EXCEPT ![k] = Exited]
  /\ UNCHANGED <<backendVars, reply, written>>

\* The server never answers.
Hang(k) ==
  /\ worker[k].st = "busy"
  /\ worker' = [worker EXCEPT ![k].st = "hung", ![k].cmd = NoCmd, ![k].stream = NoStream]
  /\ UNCHANGED <<backendVars, reply, written>>

-----------------------------------------------------------------------------
Call == BeginScan \/ ReScan \/ IterScan \/ ExecuteSql \/ ImportForeignSchema \/ End
Proceed == Put \/ Answered \/ TimedOut \/ Disconnect
Work(k) ==
  \/ Start(k) \/ Take(k) \/ Gone(k)
  \/ DoQuery(k) \/ DoNext(k) \/ DoExecute(k) \/ DoQueryAll(k) \/ DoDisconnect(k)
  \/ Hang(k)

Next ==
  \/ \E job \in {"scan", "modify", "import"} : New(job)
  \/ Call
  \/ Proceed
  \/ Drop
  \/ AbortElsewhere
  \/ \E k \in Ids : Work(k)

Spec == Init /\ [][Next]_vars

\* A backend inside a method goes on when it can (the clock does), and so does
\* a worker, unless the server hangs.
FairSpec == Spec /\ WF_vars(Proceed) /\ \A k \in Ids : WF_vars(Work(k))

-----------------------------------------------------------------------------
TypeOK ==
  /\ inst \in {"none", "scan", "modify", "import"} /\ tx \in 0..MaxWorkers
  /\ pc \in {"idle", "send", "wait", "disconnect"}
  /\ call \in Cmds \cup {NoCmd} /\ reply \in Replies \cup {NoReply}
  /\ worker \in [Ids -> [st : {"start", "recv", "busy", "hung", "exit"},
                         slot : Cmds \cup {NoCmd}, cmd : Cmds \cup {NoCmd},
                         heard : BOOLEAN,    \* the receiver of its answer still exists
                         sender : BOOLEAN,   \* the sender of its commands still exists
                         leaked : BOOLEAN,   \* and will for ever
                         stream : Streams]]
  /\ open \in BOOLEAN /\ asked \in Asks /\ given \in Seq(Rows) /\ ended \in BOOLEAN
  /\ issued \in 0..MaxWrites /\ acked \subseteq Writes /\ written \in [Writes -> Nat]

\* Commands, answers and streams of several workers never mix: the query has
\* the rows of its own question in their order, and all of them when it is told
\* that there are no more, although a worker without a stream says so too.
NothingLost ==
  /\ \A i \in DOMAIN given : given[i] = <<asked, i>>
  /\ ended => Len(given) = N

\* What the framework relies on.
R == INSTANCE RemoteScan WITH Needed <- [a \in Asks |-> {a} \X (1..N)]
Implements == R!Spec

\* A row is written at most once, whatever times out, and a row reported as
\* written is.
WrittenOnce ==
  \A i \in Writes : written[i] <= 1 /\ (i \in acked => written[i] = 1)

\* The backend returns from every method even when the server hangs: it never
\* waits for a slot that a worker it gave up on still has to empty.
BackendReturns == pc # "idle" ~> pc = "idle"

\* A worker whose instance ended the scan, was dropped or failed exits, unless
\* the server hangs.
WorkersExit ==
  \A k \in Ids : tx # k /\ ~worker[k].leaked ~> worker[k].st \in {"exit", "hung"} \/ tx = k
=============================================================================
