-------------------------- MODULE MysqlWorkerProofs --------------------------
(***************************************************************************)
(* Proofs about MysqlWorker for any number of workers, of rows and of      *)
(* writes.                                                                 *)
(***************************************************************************)
EXTENDS MysqlWorker, TLAPS

Query(a) == [op |-> "query", ask |-> a]
Exec(i)  == [op |-> "execute", write |-> i]
NextRow  == [op |-> "next"]

\* The answer the backend waits for is still to come from worker k: the command
\* is in its slot, or it works on it, or it hangs.
Under(k) ==
  \/ worker[k].st \in {"start", "recv"} /\ worker[k].slot = call
  \/ worker[k].st = "busy" /\ worker[k].slot = NoCmd /\ worker[k].cmd = call
  \/ worker[k].st = "hung"

\* Worker k has nothing to do and may be told something.
AtRest(k) == worker[k].st = "recv" /\ worker[k].slot = NoCmd

\* Only the worker of this instance can answer, only the command under way,
\* and only once.
TalkInv ==
  /\ inst = "none" => tx = 0 /\ pc = "idle"
  /\ pc \in {"send", "wait"} => inst # "none" /\ tx # 0 /\ call # NoCmd
  /\ pc = "send" => worker[tx].slot = NoCmd /\ worker[tx].st \in {"start", "recv", "exit"}
  /\ reply # NoReply => pc = "wait"
  /\ pc \in {"idle", "disconnect"} => call = NoCmd
  /\ tx # 0 /\ pc = "idle" => worker[tx].slot = NoCmd /\ worker[tx].st \in {"start", "recv", "exit"}
  /\ \A k \in Ids : worker[k].heard =>
       k = tx /\ pc = "wait" /\ reply = NoReply /\ Under(k)
  /\ \A k \in Ids : worker[k].st # "busy" => worker[k].cmd = NoCmd
  /\ tx # 0 /\ worker[tx].st # "exit" => worker[tx].sender

\* A write is in one place at a time until it is executed: with the backend, in
\* a slot or with a worker.
WriteInv ==
  /\ \A i \in Writes : written[i] \in {0, 1}
  /\ \A i \in Writes : i > issued => written[i] = 0
  /\ \A i \in acked : written[i] = 1
  /\ \A i \in Writes : pc = "send" /\ call = Exec(i) => i <= issued /\ written[i] = 0
  /\ \A i \in Writes, k \in Ids :
       worker[k].slot = Exec(i) \/ worker[k].cmd = Exec(i) =>
         /\ i <= issued /\ written[i] = 0
         /\ ~(pc = "send" /\ call = Exec(i))
         /\ worker[k].slot = Exec(i) => worker[k].cmd # Exec(i)
         /\ \A j \in Ids \ {k} : worker[j].slot # Exec(i) /\ worker[j].cmd # Exec(i)
  /\ reply.is = "ok" => \E i \in Writes : call = Exec(i) /\ written[i] = 1

\* The stream of the worker is where the query is.
ScanInv ==
  /\ open => inst = "scan" /\ tx # 0 /\ pc \in {"idle", "send", "wait"}
  /\ ~open => given = <<>> /\ ended = FALSE
  /\ \A i \in DOMAIN given : given[i] = <<asked, i>>
  /\ ended => Len(given) = N
  /\ open /\ pc \in {"send", "wait"} =>
       \/ call = Query(asked) /\ given = <<>> /\ ended = FALSE
       \/ call = NextRow
  /\ call = NextRow => open
  /\ \A a \in Asks : call = Query(a) => open
  /\ open /\ (pc = "idle" \/ (pc = "send" /\ call = NextRow)) =>
       AtRest(tx) /\ worker[tx].stream = <<asked, Len(given)>>
  /\ pc = "wait" /\ call = NextRow /\ worker[tx].heard /\ worker[tx].st # "hung" =>
       worker[tx].stream = <<asked, Len(given)>>
  /\ reply.is = "streamReady" =>
       call = Query(asked) /\ AtRest(tx) /\ worker[tx].stream = <<asked, 0>>
  /\ reply.is = "row" =>
       /\ call = NextRow /\ reply.row = <<asked, Len(given) + 1>> /\ Len(given) < N
       /\ AtRest(tx) /\ worker[tx].stream = <<asked, Len(given) + 1>>
  /\ reply.is = "done" =>
       /\ call = NextRow /\ Len(given) = N
       /\ AtRest(tx) /\ worker[tx].stream = <<asked, Len(given)>>
  /\ reply.is \in {"ok", "rows"} => call # NextRow /\ \A a \in Asks : call # Query(a)
  /\ reply.is = "ok" => AtRest(tx)

WorkerInv == TypeOK /\ TalkInv /\ WriteInv /\ ScanInv

-----------------------------------------------------------------------------
(* Commands and replies by kind.                                           *)

LEMMA CommandKinds ==
  /\ \A a, b : Query(a) = Query(b) => a = b
  /\ \A i, j : Exec(i) = Exec(j) => i = j
  /\ \A a, i : Query(a) # Exec(i)
  /\ \A a : Query(a) # NextRow /\ Query(a) # NoCmd /\ Query(a).op = "query" /\ Query(a).ask = a
  /\ \A i : Exec(i) # NextRow /\ Exec(i) # NoCmd /\ Exec(i).op = "execute" /\ Exec(i).write = i
  /\ NextRow # NoCmd /\ NextRow.op = "next" /\ NoCmd.op = "none"
BY DEF Query, Exec, NextRow, NoCmd

LEMMA CommandOf ==
  ASSUME NEW x \in Cmds \cup {NoCmd}
  PROVE  /\ x.op = "query" => \E a \in Asks : x = Query(a) /\ x.ask = a
         /\ x.op = "execute" => \E i \in Writes : x = Exec(i) /\ x.write = i
         /\ x.op = "next" => x = NextRow
         /\ x.op = "queryAll" => x = [op |-> "queryAll"]
         /\ x.op = "disconnect" => x = [op |-> "disconnect"]
         /\ x.op = "none" => x = NoCmd
BY DEF Cmds, NoCmd, Query, Exec, NextRow

LEMMA ReplyOf ==
  ASSUME NEW x \in Replies \cup {NoReply}
  PROVE  /\ x.is = "row" => x.row \in Rows /\ x = [is |-> "row", row |-> x.row]
         /\ x # NoReply <=> x.is # "none"
         /\ x.is \in {"none", "streamReady", "rows", "done", "ok", "err", "row"}
BY DEF Replies, NoReply

-----------------------------------------------------------------------------
(* Types.                                                                  *)

WorkerType ==
  [st : {"start", "recv", "busy", "hung", "exit"}, slot : Cmds \cup {NoCmd},
   cmd : Cmds \cup {NoCmd}, heard : BOOLEAN, sender : BOOLEAN, leaked : BOOLEAN,
   stream : Streams]

LEMMA ExitedType == Exited \in WorkerType
BY DEF Exited, WorkerType, Streams

LEMMA StreamTypes ==
  /\ NoStream \in Streams
  /\ \A a \in Asks, n \in 0..N : <<a, n>> \in Streams
  /\ \A x \in Streams : x # NoStream => x[1] \in Asks /\ x[2] \in 0..N /\ x = <<x[1], x[2]>>
BY DEF Streams, NoStream

LEMMA TypeOKInit == WorkerAssumption /\ Init => TypeOK
<1> SUFFICES ASSUME WorkerAssumption, Init PROVE TypeOK
  OBVIOUS
<1>1. worker \in [Ids -> WorkerType]
  BY ExitedType DEF Init
<1>2. 0 \in 0..MaxWorkers /\ 0 \in 0..MaxWrites
  BY DEF WorkerAssumption
<1>3. [i \in Writes |-> 0] \in [Writes -> Nat] /\ <<>> \in Seq(Rows)
  OBVIOUS
<1> QED BY <1>1, <1>2, <1>3 DEF Init, TypeOK, WorkerType

LEMMA TypesOf ==
  ASSUME TypeOK
  PROVE  /\ inst \in {"none", "scan", "modify", "import"} /\ tx \in 0..MaxWorkers
         /\ pc \in {"idle", "send", "wait", "disconnect"}
         /\ call \in Cmds \cup {NoCmd} /\ reply \in Replies \cup {NoReply}
         /\ worker \in [Ids -> WorkerType]
         /\ open \in BOOLEAN /\ asked \in Asks /\ given \in Seq(Rows) /\ ended \in BOOLEAN
         /\ issued \in 0..MaxWrites /\ acked \subseteq Writes /\ written \in [Writes -> Nat]
BY DEF TypeOK, WorkerType

LEMMA TypesMake ==
  ASSUME inst' \in {"none", "scan", "modify", "import"}, tx' \in 0..MaxWorkers,
         pc' \in {"idle", "send", "wait", "disconnect"},
         call' \in Cmds \cup {NoCmd}, reply' \in Replies \cup {NoReply},
         worker' \in [Ids -> WorkerType],
         open' \in BOOLEAN, asked' \in Asks, given' \in Seq(Rows), ended' \in BOOLEAN,
         issued' \in 0..MaxWrites, acked' \subseteq Writes, written' \in [Writes -> Nat]
  PROVE  TypeOK'
BY DEF TypeOK, WorkerType

\* A new worker.
LEMMA SpawnTypes ==
  ASSUME WorkerAssumption, TypeOK, SpawnWorker
  PROVE  \E k \in Ids :
           /\ tx' = k /\ Idle(k) /\ tx' \in 0..MaxWorkers
           /\ worker' = [worker EXCEPT ![k] = [Exited EXCEPT !.st = "start", !.sender = TRUE]]
           /\ worker' \in [Ids -> WorkerType]
           /\ worker'[k].st = "start" /\ worker'[k].slot = NoCmd /\ worker'[k].cmd = NoCmd
           /\ worker'[k].heard = FALSE /\ worker'[k].sender = TRUE
           /\ \A j \in Ids \ {k} : worker'[j] = worker[j]
<1>1. PICK k \in Ids : /\ Idle(k) /\ tx' = k
                       /\ worker' = [worker EXCEPT ![k] = [Exited EXCEPT !.st = "start", !.sender = TRUE]]
  BY DEF SpawnWorker
<1> DEFINE new == [Exited EXCEPT !.st = "start", !.sender = TRUE]
<1>2. /\ new \in WorkerType /\ new.st = "start" /\ new.slot = NoCmd /\ new.cmd = NoCmd
      /\ new.heard = FALSE /\ new.sender = TRUE
  BY ExitedType DEF Exited, WorkerType
<1> HIDE DEF new
<1>3. worker \in [Ids -> WorkerType] /\ worker' = [worker EXCEPT ![k] = new]
  BY <1>1, TypesOf DEF new
<1>4. /\ worker' \in [Ids -> WorkerType] /\ worker'[k] = new
      /\ \A j \in Ids \ {k} : worker'[j] = worker[j]
  BY <1>2, <1>3
<1>5. k \in 0..MaxWorkers
  BY DEF Ids
<1> QED BY <1>1, <1>2, <1>4, <1>5

\* What the actions of the backend make of the workers.
LEMMA DropInstanceWorkers ==
  ASSUME TypeOK, DropInstance
  PROVE  /\ worker' \in [Ids -> WorkerType]
         /\ \A k \in Ids : k # tx => worker'[k] = worker[k]
         /\ \A k \in Ids : /\ worker'[k].st = worker[k].st /\ worker'[k].slot = worker[k].slot
                           /\ worker'[k].cmd = worker[k].cmd
         /\ \A k \in Ids : k = tx => worker'[k].heard = FALSE
<1>1. worker \in [Ids -> WorkerType] /\ NoStream \in Streams
  BY TypesOf, StreamTypes
<1>2. worker' = [k \in Ids |->
        IF k = tx THEN [worker[k] EXCEPT !.sender = FALSE, !.heard = FALSE, !.stream = NoStream]
                  ELSE worker[k]]
  BY DEF DropInstance
<1>3. ASSUME NEW k \in Ids
      PROVE  /\ worker'[k] \in WorkerType
             /\ k # tx => worker'[k] = worker[k]
             /\ worker'[k].st = worker[k].st /\ worker'[k].slot = worker[k].slot
             /\ worker'[k].cmd = worker[k].cmd
             /\ k = tx => worker'[k].heard = FALSE
  <2>1. worker[k] \in WorkerType
    BY <1>1
  <2> QED BY <1>1, <1>2, <2>1 DEF WorkerType
<1>4. worker' \in [Ids -> WorkerType]
  BY <1>2, <1>3
<1> QED BY <1>3, <1>4

LEMMA DisconnectWorkers ==
  ASSUME TypeOK, Disconnect
  PROVE  /\ worker' \in [Ids -> WorkerType]
         /\ \A k \in Ids : k # tx => worker'[k] = worker[k]
         /\ \A k \in Ids : /\ worker'[k].st = worker[k].st
                           /\ worker'[k].slot \in {worker[k].slot, [op |-> "disconnect"]}
                           /\ worker'[k].cmd = worker[k].cmd
                           /\ worker'[k].heard => worker[k].heard
<1>1. worker \in [Ids -> WorkerType] /\ NoStream \in Streams /\ [op |-> "disconnect"] \in Cmds
  BY TypesOf, StreamTypes DEF Cmds
<1>2. worker' = [k \in Ids |->
        IF k # tx \/ worker[k].st = "exit" THEN worker[k]
        ELSE [worker[k] EXCEPT !.slot = [op |-> "disconnect"], !.sender = FALSE,
                               !.heard = FALSE, !.stream = NoStream]]
  BY DEF Disconnect
<1>3. ASSUME NEW k \in Ids
      PROVE  /\ worker'[k] \in WorkerType
             /\ k # tx => worker'[k] = worker[k]
             /\ worker'[k].st = worker[k].st
             /\ worker'[k].slot \in {worker[k].slot, [op |-> "disconnect"]}
             /\ worker'[k].cmd = worker[k].cmd
             /\ worker'[k].heard => worker[k].heard
  <2>1. worker[k] \in WorkerType
    BY <1>1
  <2> QED BY <1>1, <1>2, <2>1 DEF WorkerType
<1>4. worker' \in [Ids -> WorkerType]
  BY <1>2, <1>3
<1> QED BY <1>3, <1>4

LEMMA AbortWorkers ==
  ASSUME TypeOK, AbortElsewhere
  PROVE  /\ worker' \in [Ids -> WorkerType]
         /\ \A k \in Ids : k # tx => worker'[k] = worker[k]
         /\ \A k \in Ids : /\ worker'[k].st = worker[k].st /\ worker'[k].slot = worker[k].slot
                           /\ worker'[k].cmd = worker[k].cmd
                           /\ worker'[k].heard = worker[k].heard
<1>1. worker \in [Ids -> WorkerType] /\ NoStream \in Streams
  BY TypesOf, StreamTypes
<1>2. worker' = [k \in Ids |->
        IF k = tx THEN [worker[k] EXCEPT !.leaked = TRUE, !.stream = NoStream] ELSE worker[k]]
  BY DEF AbortElsewhere
<1>3. ASSUME NEW k \in Ids
      PROVE  /\ worker'[k] \in WorkerType
             /\ k # tx => worker'[k] = worker[k]
             /\ worker'[k].st = worker[k].st /\ worker'[k].slot = worker[k].slot
             /\ worker'[k].cmd = worker[k].cmd /\ worker'[k].heard = worker[k].heard
  <2>1. worker[k] \in WorkerType
    BY <1>1
  <2> QED BY <1>1, <1>2, <2>1 DEF WorkerType
<1>4. worker' \in [Ids -> WorkerType]
  BY <1>2, <1>3
<1> QED BY <1>3, <1>4

\* Only the fields of one worker change.
LEMMA OneWorker ==
  ASSUME TypeOK, NEW k \in Ids, NEW x \in WorkerType, worker' = [worker EXCEPT ![k] = x]
  PROVE  /\ worker' \in [Ids -> WorkerType] /\ worker'[k] = x
         /\ \A j \in Ids \ {k} : worker'[j] = worker[j]
BY TypesOf

LEMMA RepliedWorkers ==
  ASSUME TypeOK, NEW k \in Ids, NEW x \in Streams, NEW r, Replied(k, x, r)
  PROVE  /\ worker' \in [Ids -> WorkerType]
         /\ \A j \in Ids \ {k} : worker'[j] = worker[j]
         /\ worker'[k].st = "recv" /\ worker'[k].cmd = NoCmd /\ worker'[k].heard = FALSE
         /\ worker'[k].stream = x /\ worker'[k].slot = worker[k].slot
         /\ worker'[k].sender = worker[k].sender
         /\ reply' = IF worker[k].heard THEN r ELSE reply
         /\ UNCHANGED backendVars
<1> DEFINE new == [worker[k] EXCEPT !.st = "recv", !.cmd = NoCmd, !.stream = x, !.heard = FALSE]
<1>1. worker[k] \in WorkerType
  BY TypesOf
<1>2. /\ new \in WorkerType /\ new.st = "recv" /\ new.cmd = NoCmd /\ new.heard = FALSE
      /\ new.stream = x /\ new.slot = worker[k].slot /\ new.sender = worker[k].sender
  BY <1>1 DEF WorkerType
<1>3. worker' = [worker EXCEPT ![k] = new]
  BY <1>1 DEF Replied
<1> HIDE DEF new
<1> QED BY <1>2, <1>3, OneWorker DEF Replied

-----------------------------------------------------------------------------
(* The initial state, and steps that move no write.                        *)

LEMMA WorkerInvInit == WorkerAssumption /\ Init => WorkerInv
<1> SUFFICES ASSUME WorkerAssumption, Init PROVE WorkerInv
  OBVIOUS
<1>1. TypeOK
  BY TypeOKInit
<1>2. /\ inst = "none" /\ tx = 0 /\ pc = "idle" /\ call = NoCmd /\ reply = NoReply
      /\ open = FALSE /\ given = <<>> /\ ended = FALSE /\ issued = 0 /\ acked = {}
      /\ written = [j \in Writes |-> 0]
  BY DEF Init
<1>3. /\ reply.is = "none"
      /\ \A k \in Ids : /\ worker[k].st = "exit" /\ worker[k].slot = NoCmd
                        /\ worker[k].cmd = NoCmd /\ worker[k].heard = FALSE
  BY <1>2 DEF Init, Exited, NoReply
<1>4. TalkInv
  BY <1>2, <1>3 DEF TalkInv
<1>5. WriteInv
  BY <1>2, <1>3, CommandKinds DEF WriteInv
<1>6. ScanInv
  BY <1>2, <1>3, CommandKinds DEF ScanInv
<1> QED BY <1>1, <1>4, <1>5, <1>6 DEF WorkerInv

LEMMA NoWriteMoves ==
  ASSUME TypeOK, WriteInv,
         issued' = issued, acked' = acked, written' = written,
         \A k \in Ids, i \in Writes : /\ worker'[k].slot = Exec(i) => worker[k].slot = Exec(i)
                                      /\ worker'[k].cmd = Exec(i) => worker[k].cmd = Exec(i),
         \A i \in Writes : pc' = "send" /\ call' = Exec(i) => pc = "send" /\ call = Exec(i),
         reply'.is = "ok" => reply.is = "ok" /\ call' = call
  PROVE  WriteInv'
<1>1. /\ \A i \in Writes : written'[i] \in {0, 1} /\ (i > issued' => written'[i] = 0)
      /\ \A i \in acked' : written'[i] = 1
      /\ \A i \in Writes : pc' = "send" /\ call' = Exec(i) => i <= issued' /\ written'[i] = 0
      /\ reply'.is = "ok" => \E i \in Writes : call' = Exec(i) /\ written'[i] = 1
  BY DEF WriteInv
<1>2. ASSUME NEW i \in Writes, NEW k \in Ids, worker'[k].slot = Exec(i) \/ worker'[k].cmd = Exec(i)
      PROVE  /\ i <= issued' /\ written'[i] = 0
             /\ ~(pc' = "send" /\ call' = Exec(i))
             /\ worker'[k].slot = Exec(i) => worker'[k].cmd # Exec(i)
             /\ \A j \in Ids \ {k} : worker'[j].slot # Exec(i) /\ worker'[j].cmd # Exec(i)
  <2>1. worker[k].slot = Exec(i) \/ worker[k].cmd = Exec(i)
    BY <1>2
  <2> QED BY <2>1 DEF WriteInv
<1> QED BY <1>1, <1>2 DEF WriteInv

\* A reply that is not there is no answer of any kind.
LEMMA NoReplyKind == NoReply.is = "none"
BY DEF NoReply

-----------------------------------------------------------------------------
(* Steps of the backend.                                                   *)

LEMMA DropStep ==
  ASSUME WorkerAssumption, WorkerInv, DropInstance PROVE WorkerInv'
<1> USE DEF WorkerInv, scanVars, writeVars
<1>1. /\ inst' = "none" /\ tx' = 0 /\ pc' = "idle" /\ call' = NoCmd /\ reply' = NoReply
      /\ open' = FALSE /\ given' = <<>> /\ ended' = FALSE /\ asked' = asked
      /\ issued' = issued /\ acked' = acked /\ written' = written
  BY DEF DropInstance
<1>2. /\ worker' \in [Ids -> WorkerType]
      /\ \A k \in Ids : k # tx => worker'[k] = worker[k]
      /\ \A k \in Ids : /\ worker'[k].st = worker[k].st /\ worker'[k].slot = worker[k].slot
                        /\ worker'[k].cmd = worker[k].cmd
      /\ \A k \in Ids : k = tx => worker'[k].heard = FALSE
  BY DropInstanceWorkers
<1>3. TypeOK'
  <2>1. 0 \in 0..MaxWorkers /\ <<>> \in Seq(Rows)
    BY DEF WorkerAssumption
  <2> QED BY <1>1, <1>2, <2>1, TypesOf, TypesMake
<1>4. TalkInv'
  BY <1>1, <1>2 DEF TalkInv
<1>5. WriteInv'
  BY <1>1, <1>2, NoWriteMoves, NoReplyKind
<1>6. ScanInv'
  BY <1>1, NoReplyKind, CommandKinds DEF ScanInv
<1> QED BY <1>3, <1>4, <1>5, <1>6

LEMMA NewStep ==
  ASSUME WorkerAssumption, WorkerInv, NEW job \in {"scan", "modify", "import"}, New(job)
  PROVE  WorkerInv'
<1> USE DEF WorkerInv, scanVars, writeVars
<1>1. /\ inst = "none" /\ inst' = job /\ pc = "idle"
      /\ UNCHANGED <<pc, call, reply, open, asked, given, ended, issued, acked, written>>
  BY DEF New, TalkInv
<1>2. PICK k \in Ids :
           /\ tx' = k /\ tx' \in 0..MaxWorkers
           /\ worker' \in [Ids -> WorkerType]
           /\ worker'[k].st = "start" /\ worker'[k].slot = NoCmd /\ worker'[k].cmd = NoCmd
           /\ worker'[k].heard = FALSE /\ worker'[k].sender = TRUE
           /\ \A j \in Ids \ {k} : worker'[j] = worker[j]
  BY SpawnTypes DEF New
<1>3. TypeOK'
  BY <1>1, <1>2, TypesOf, TypesMake
<1>4. TalkInv'
  BY <1>1, <1>2 DEF TalkInv, Ids
<1>5. WriteInv'
  BY <1>1, <1>2, NoWriteMoves, CommandKinds
<1>6. ScanInv'
  <2>1. call = NoCmd /\ reply = NoReply /\ open = FALSE
    BY <1>1 DEF TalkInv, ScanInv, TypeOK
  <2> QED BY <1>1, <2>1, NoReplyKind, CommandKinds DEF ScanInv
<1> QED BY <1>3, <1>4, <1>5, <1>6

\* send_cmd, whatever the command, up to what it is for.
LEMMA SendCmdFacts ==
  ASSUME WorkerAssumption, WorkerInv, NEW x \in Cmds, SendCmd(x), inst # "none"
  PROVE  /\ pc = "idle" /\ pc' = "send" /\ call' = x /\ reply' = NoReply /\ inst' = inst
         /\ tx' \in Ids /\ (tx # 0 => tx' = tx /\ worker' = worker)
         /\ worker' \in [Ids -> WorkerType]
         /\ \A k \in Ids : \/ worker'[k] = worker[k]
                           \/ worker'[k].slot = NoCmd /\ worker'[k].cmd = NoCmd
         /\ TalkInv'
<1> USE DEF WorkerInv
<1>1. /\ pc = "idle" /\ pc' = "send" /\ call' = x /\ reply' = NoReply /\ inst' = inst
      /\ IF tx # 0 THEN UNCHANGED <<tx, worker>> ELSE SpawnWorker
  BY DEF SendCmd
<1>2. x # NoCmd
  BY DEF Cmds, NoCmd
<1>3. CASE tx # 0
  <2>1. tx' = tx /\ worker' = worker /\ tx \in Ids
    BY <1>1, <1>3, TypesOf DEF Ids
  <2>2. TalkInv'
    BY <1>1, <1>2, <1>3, <2>1 DEF TalkInv, Under
  <2> QED BY <1>1, <2>1, <2>2, TypesOf
<1>4. CASE tx = 0
  <2>1. PICK k \in Ids :
           /\ tx' = k
           /\ worker' \in [Ids -> WorkerType]
           /\ worker'[k].st = "start" /\ worker'[k].slot = NoCmd /\ worker'[k].cmd = NoCmd
           /\ worker'[k].heard = FALSE /\ worker'[k].sender = TRUE
           /\ \A j \in Ids \ {k} : worker'[j] = worker[j]
    BY <1>1, <1>4, SpawnTypes
  <2>2. k # 0
    BY DEF Ids
  <2>3. \A j \in Ids : worker'[j].heard = FALSE
    <3>1. \A j \in Ids : ~worker[j].heard
      BY <1>1 DEF TalkInv
    <3>2. \A j \in Ids : worker'[j].heard \in BOOLEAN
      BY <2>1 DEF WorkerType
    <3> QED BY <2>1, <3>1, <3>2
  <2>4. TalkInv'
    BY <1>1, <1>2, <2>1, <2>2, <2>3 DEF TalkInv
  <2> QED BY <1>1, <1>4, <2>1, <2>4
<1> QED BY <1>3, <1>4

LEMMA SetupStep ==
  ASSUME WorkerAssumption, WorkerInv, NEW a \in Asks, SetupStreaming(a), inst = "scan"
  PROVE  WorkerInv'
<1> USE DEF WorkerInv, writeVars
<1>1. /\ SendCmd(Query(a)) /\ asked' = a /\ open' = TRUE /\ given' = <<>> /\ ended' = FALSE
      /\ UNCHANGED <<issued, acked, written>>
  BY DEF SetupStreaming, Query
<1>2. Query(a) \in Cmds
  BY DEF Query, Cmds
<1>3. /\ pc' = "send" /\ call' = Query(a) /\ reply' = NoReply /\ inst' = inst
      /\ tx' \in Ids
      /\ worker' \in [Ids -> WorkerType]
      /\ \A k \in Ids : \/ worker'[k] = worker[k]
                        \/ worker'[k].slot = NoCmd /\ worker'[k].cmd = NoCmd
      /\ TalkInv'
  BY <1>1, <1>2, SendCmdFacts
<1>4. TypeOK'
  <2>1. tx' \in 0..MaxWorkers /\ <<>> \in Seq(Rows)
    BY <1>3 DEF Ids
  <2> QED BY <1>1, <1>2, <1>3, <2>1, TypesOf, TypesMake
<1>5. WriteInv'
  BY <1>1, <1>3, NoWriteMoves, NoReplyKind, CommandKinds
<1>6. ScanInv'
  <2>1. tx' # 0
    BY <1>3 DEF Ids
  <2> QED BY <1>1, <1>3, <2>1, NoReplyKind, CommandKinds DEF ScanInv
<1> QED BY <1>3, <1>4, <1>5, <1>6

LEMMA IterScanStep ==
  ASSUME WorkerAssumption, WorkerInv, IterScan PROVE WorkerInv'
<1> USE DEF WorkerInv, writeVars, scanVars
<1>1. /\ inst = "scan" /\ open /\ SendCmd(NextRow)
      /\ UNCHANGED <<open, asked, given, ended, issued, acked, written>>
  BY DEF IterScan, NextRow
<1>2. NextRow \in Cmds
  BY DEF NextRow, Cmds
<1>3. tx # 0
  BY <1>1 DEF ScanInv
<1>4. /\ pc = "idle" /\ pc' = "send" /\ call' = NextRow /\ reply' = NoReply /\ inst' = inst
      /\ tx' = tx /\ worker' = worker /\ TalkInv'
  BY <1>1, <1>2, <1>3, SendCmdFacts
<1>5. TypeOK'
  BY <1>1, <1>2, <1>4, TypesOf, TypesMake
<1>6. WriteInv'
  BY <1>1, <1>4, NoWriteMoves, NoReplyKind, CommandKinds
<1>7. AtRest(tx) /\ worker[tx].stream = <<asked, Len(given)>>
  BY <1>1, <1>4 DEF ScanInv
<1>8. ScanInv'
  BY <1>1, <1>3, <1>4, <1>7, NoReplyKind, CommandKinds DEF ScanInv, AtRest
<1> QED BY <1>4, <1>5, <1>6, <1>8

\* Outside a scan nothing is said of the scan.
LEMMA NoScan ==
  ASSUME ScanInv, open = FALSE, open' = FALSE, given' = given, ended' = ended,
         call' # NextRow, \A a \in Asks : call' # Query(a),
         reply'.is \in {"none", "rows", "err"} \/ (reply'.is = "ok" /\ AtRest(tx)')
  PROVE  ScanInv'
<1>1. given' = <<>> /\ ended' = FALSE
  BY DEF ScanInv
<1>2. reply'.is \notin {"streamReady", "row", "done"}
  OBVIOUS
<1> QED BY <1>1, <1>2 DEF ScanInv

LEMMA ExecuteSqlStep ==
  ASSUME WorkerAssumption, WorkerInv, ExecuteSql PROVE WorkerInv'
<1> USE DEF WorkerInv, scanVars
<1> DEFINE i0 == issued + 1
<1>1. /\ inst = "modify" /\ SendCmd(Exec(i0)) /\ issued' = i0 /\ issued < MaxWrites
      /\ UNCHANGED <<open, asked, given, ended, acked, written>>
  BY DEF ExecuteSql, Exec
<1>2. i0 \in Writes /\ i0 \in 0..MaxWrites /\ issued \in Nat
  BY <1>1, TypesOf DEF Writes, WorkerAssumption
<1>3. Exec(i0) \in Cmds
  BY <1>2 DEF Exec, Cmds
<1>4. /\ pc = "idle" /\ pc' = "send" /\ call' = Exec(i0) /\ reply' = NoReply /\ inst' = inst
      /\ tx' \in Ids
      /\ worker' \in [Ids -> WorkerType]
      /\ \A k \in Ids : \/ worker'[k] = worker[k]
                        \/ worker'[k].slot = NoCmd /\ worker'[k].cmd = NoCmd
      /\ TalkInv'
  BY <1>1, <1>3, SendCmdFacts
<1>5. TypeOK'
  <2>1. tx' \in 0..MaxWorkers
    BY <1>4 DEF Ids
  <2> QED BY <1>1, <1>2, <1>3, <1>4, <2>1, TypesOf, TypesMake
<1>6. WriteInv'
  <2>1. written[i0] = 0
    BY <1>2 DEF WriteInv
  <2>2. \A i \in Writes : i > issued' => written'[i] = 0
    BY <1>1, <1>2 DEF WriteInv, Writes
  <2>3. \A i \in Writes : pc' = "send" /\ call' = Exec(i) => i <= issued' /\ written'[i] = 0
    <3>1. \A i \in Writes : call' = Exec(i) => i = i0
      BY <1>4, CommandKinds
    <3> QED BY <1>1, <1>2, <2>1, <3>1
  <2>4. ASSUME NEW i \in Writes, NEW k \in Ids,
               worker'[k].slot = Exec(i) \/ worker'[k].cmd = Exec(i)
        PROVE  /\ i <= issued' /\ written'[i] = 0
               /\ ~(pc' = "send" /\ call' = Exec(i))
               /\ worker'[k].slot = Exec(i) => worker'[k].cmd # Exec(i)
               /\ \A j \in Ids \ {k} : worker'[j].slot # Exec(i) /\ worker'[j].cmd # Exec(i)
    <3>1. Exec(i) # NoCmd
      BY CommandKinds
    <3>2. worker'[k] = worker[k]
      BY <1>4, <2>4, <3>1
    <3>3. /\ i <= issued /\ written[i] = 0
          /\ worker[k].slot = Exec(i) => worker[k].cmd # Exec(i)
          /\ \A j \in Ids \ {k} : worker[j].slot # Exec(i) /\ worker[j].cmd # Exec(i)
      BY <2>4, <3>2 DEF WriteInv
    <3>4. \A j \in Ids \ {k} : worker'[j].slot # Exec(i) /\ worker'[j].cmd # Exec(i)
      BY <1>4, <3>1, <3>3
    <3>5. i \in Nat /\ i # i0 /\ i <= issued'
      BY <1>1, <1>2, <3>3 DEF Writes
    <3>6. call' # Exec(i)
      BY <1>4, <3>5, CommandKinds
    <3> QED BY <1>1, <3>2, <3>3, <3>4, <3>5, <3>6
  <2>5. \A i \in acked' : written'[i] = 1
    BY <1>1 DEF WriteInv
  <2>6. \A i \in Writes : written'[i] \in {0, 1}
    BY <1>1 DEF WriteInv
  <2>7. reply'.is # "ok"
    BY <1>4, NoReplyKind
  <2> QED BY <2>2, <2>3, <2>4, <2>5, <2>6, <2>7 DEF WriteInv
<1>7. ScanInv'
  <2>1. open = FALSE
    BY <1>1 DEF ScanInv, TypeOK
  <2> QED BY <1>1, <1>4, <2>1, NoScan, NoReplyKind, CommandKinds
<1> QED BY <1>4, <1>5, <1>6, <1>7

LEMMA ImportStep ==
  ASSUME WorkerAssumption, WorkerInv, ImportForeignSchema PROVE WorkerInv'
<1> USE DEF WorkerInv, scanVars, writeVars
<1> DEFINE x == [op |-> "queryAll"]
<1>1. /\ inst = "import" /\ SendCmd(x)
      /\ UNCHANGED <<open, asked, given, ended, issued, acked, written>>
  BY DEF ImportForeignSchema
<1>2. x \in Cmds /\ x # NextRow /\ (\A a : x # Query(a)) /\ (\A i : x # Exec(i))
  BY DEF Cmds, NextRow, Query, Exec
<1> HIDE DEF x
<1>3. /\ pc = "idle" /\ pc' = "send" /\ call' = x /\ reply' = NoReply /\ inst' = inst
      /\ tx' \in Ids
      /\ worker' \in [Ids -> WorkerType]
      /\ \A k \in Ids : \/ worker'[k] = worker[k]
                        \/ worker'[k].slot = NoCmd /\ worker'[k].cmd = NoCmd
      /\ TalkInv'
  BY <1>1, <1>2, SendCmdFacts
<1>4. TypeOK'
  <2>1. tx' \in 0..MaxWorkers
    BY <1>3 DEF Ids
  <2> QED BY <1>1, <1>2, <1>3, <2>1, TypesOf, TypesMake
<1>5. WriteInv'
  BY <1>1, <1>2, <1>3, NoWriteMoves, NoReplyKind, CommandKinds
<1>6. ScanInv'
  <2>1. open = FALSE
    BY <1>1 DEF ScanInv, TypeOK
  <2> QED BY <1>1, <1>2, <1>3, <2>1, NoScan, NoReplyKind
<1> QED BY <1>3, <1>4, <1>5, <1>6

\* The command under way goes into the slot of the worker.
LEMMA PutStep ==
  ASSUME WorkerAssumption, WorkerInv, Put PROVE WorkerInv'
<1> USE DEF WorkerInv, scanVars, writeVars
<1>1. CASE Fail
  BY <1>1, DropStep DEF Fail
<1>2. CASE /\ worker[tx].st # "exit" /\ worker[tx].slot = NoCmd
           /\ worker' = [worker EXCEPT ![tx].slot = call, ![tx].heard = TRUE]
           /\ pc' = "wait"
           /\ UNCHANGED <<inst, tx, call, reply, scanVars, writeVars, written>>
  <2> DEFINE x == [worker[tx] EXCEPT !.slot = call, !.heard = TRUE]
  <2>1. pc = "send" /\ tx # 0 /\ tx \in Ids /\ call # NoCmd /\ inst # "none" /\ reply = NoReply
    BY TypesOf DEF Put, TalkInv, Ids
  <2>2. worker[tx] \in WorkerType /\ worker[tx].st \in {"start", "recv"} /\ worker[tx].cmd = NoCmd
    BY <1>2, <2>1, TypesOf DEF TalkInv
  <2>3. /\ x \in WorkerType /\ x.slot = call /\ x.heard = TRUE /\ x.st = worker[tx].st
        /\ x.cmd = NoCmd /\ x.stream = worker[tx].stream /\ x.sender = worker[tx].sender
    BY <2>1, <2>2, TypesOf DEF WorkerType
  <2>4. worker' = [worker EXCEPT ![tx] = x]
    BY <1>2
  <2> HIDE DEF x
  <2>5. /\ worker' \in [Ids -> WorkerType] /\ worker'[tx] = x
        /\ \A j \in Ids \ {tx} : worker'[j] = worker[j]
    BY <2>1, <2>3, <2>4, OneWorker
  <2>6. TypeOK'
    BY <1>2, <2>5, TypesOf, TypesMake
  <2>7. TalkInv'
    <3>1. \A j \in Ids \ {tx} : worker'[j].heard = FALSE
      <4>1. \A j \in Ids : ~worker[j].heard
        BY <2>1 DEF TalkInv
      <4>2. \A j \in Ids : worker'[j].heard \in BOOLEAN
        BY <2>5 DEF WorkerType
      <4> QED BY <2>5, <4>1, <4>2
    <3>2. Under(tx)'
      BY <1>2, <2>2, <2>3, <2>5 DEF Under
    <3>3. \A j \in Ids : worker'[j].st # "busy" => worker'[j].cmd = NoCmd
      BY <2>3, <2>5 DEF TalkInv
    <3>4. worker'[tx].sender
      BY <1>2, <2>1, <2>3, <2>5 DEF TalkInv
    <3>5. \A j \in Ids : worker'[j].heard =>
            j = tx' /\ pc' = "wait" /\ reply' = NoReply /\ Under(j)'
      BY <1>2, <2>1, <3>1, <3>2
    <3> QED BY <1>2, <2>1, <3>3, <3>4, <3>5 DEF TalkInv
  <2>8. WriteInv'
    <3>1. /\ \A i \in Writes : written'[i] \in {0, 1}
          /\ \A i \in Writes : i > issued' => written'[i] = 0
          /\ \A i \in acked' : written'[i] = 1
          /\ pc' # "send" /\ reply'.is # "ok"
      BY <1>2, <2>1, NoReplyKind DEF WriteInv
    <3>2. ASSUME NEW i \in Writes, NEW k \in Ids,
                 worker'[k].slot = Exec(i) \/ worker'[k].cmd = Exec(i)
          PROVE  /\ i <= issued' /\ written'[i] = 0
                 /\ worker'[k].slot = Exec(i) => worker'[k].cmd # Exec(i)
                 /\ \A j \in Ids \ {k} : worker'[j].slot # Exec(i) /\ worker'[j].cmd # Exec(i)
      <4>1. Exec(i) # NoCmd
        BY CommandKinds
      <4>2. CASE call = Exec(i)
        <5>1. \A j \in Ids : worker[j].slot # Exec(i) /\ worker[j].cmd # Exec(i)
          BY <2>1, <4>2 DEF WriteInv
        <5>2. i <= issued /\ written[i] = 0
          BY <2>1, <4>2 DEF WriteInv
        <5>3. k = tx
          BY <2>5, <3>2, <5>1
        <5> QED BY <1>2, <2>3, <2>5, <4>1, <5>1, <5>2, <5>3
      <4>3. CASE call # Exec(i)
        <5>1. \A j \in Ids : /\ worker'[j].slot = Exec(i) => worker[j].slot = Exec(i)
                             /\ worker'[j].cmd = Exec(i) => worker[j].cmd = Exec(i)
          BY <2>3, <2>5, <4>1, <4>3
        <5> QED BY <1>2, <3>2, <5>1 DEF WriteInv
      <4> QED BY <4>2, <4>3
    <3> QED BY <3>1, <3>2 DEF WriteInv
  <2>9. ScanInv'
    <3>1. open /\ call = NextRow => worker[tx].stream = <<asked, Len(given)>>
      BY <2>1 DEF ScanInv
    <3> QED BY <1>2, <2>1, <2>3, <2>5, <3>1, NoReplyKind, CommandKinds DEF ScanInv, AtRest
  <2> QED BY <2>6, <2>7, <2>8, <2>9
<1> QED BY <1>1, <1>2 DEF Put

\* The method goes on with its answer.
LEMMA AnsweredStep ==
  ASSUME WorkerAssumption, WorkerInv, Answered PROVE WorkerInv'
<1> USE DEF WorkerInv, scanVars, writeVars
<1>1. CASE Fail
  BY <1>1, DropStep DEF Fail
<1>2. CASE /\ reply.is # "err"
           /\ pc' = IF reply.is = "rows" THEN "disconnect" ELSE "idle"
           /\ call' = NoCmd /\ reply' = NoReply
           /\ given' = IF reply.is = "row" THEN Append(given, reply.row) ELSE given
           /\ ended' = (ended \/ reply.is = "done")
           /\ acked' = IF reply.is = "ok" THEN acked \cup {call.write} ELSE acked
           /\ UNCHANGED <<inst, tx, worker, open, asked, issued, written>>
  <2>1. /\ pc = "wait" /\ reply # NoReply /\ tx # 0 /\ tx \in Ids
        /\ inst # "none" /\ call # NoCmd
    BY TypesOf DEF Answered, TalkInv, Ids
  <2>2. /\ reply.is \in {"streamReady", "rows", "done", "ok", "row"}
        /\ reply.is = "row" => reply.row \in Rows
    BY <1>2, <2>1, TypesOf, ReplyOf
  <2>3. worker \in [Ids -> WorkerType] /\ given \in Seq(Rows) /\ ended \in BOOLEAN
    BY TypesOf
  <2>4. reply.is = "ok" => \E i \in Writes : call = Exec(i) /\ call.write = i /\ written[i] = 1
    BY CommandKinds DEF WriteInv
  <2>5. TypeOK'
    <3>1. given' \in Seq(Rows)
      BY <1>2, <2>2, <2>3
    <3>2. acked' \subseteq Writes
      BY <1>2, <2>4, TypesOf
    <3>3. ended' \in BOOLEAN /\ pc' \in {"idle", "disconnect"}
      BY <1>2, <2>3
    <3> QED BY <1>2, <3>1, <3>2, <3>3, TypesOf, TypesMake
  <2>6. reply.is # "rows" => AtRest(tx)
    BY <2>2 DEF ScanInv
  <2>7. TalkInv'
    <3>1. \A k \in Ids : ~worker'[k].heard
      BY <1>2, <2>1 DEF TalkInv
    <3> QED BY <1>2, <2>1, <2>6, <3>1 DEF TalkInv, AtRest
  <2>8. WriteInv'
    <3>1. \A i \in acked' : written'[i] = 1
      BY <1>2, <2>4 DEF WriteInv
    <3>2. pc' # "send" /\ reply'.is # "ok"
      BY <1>2, NoReplyKind
    <3>3. \A i \in Writes, k \in Ids :
            worker[k].slot = Exec(i) \/ worker[k].cmd = Exec(i) =>
              /\ i <= issued /\ written[i] = 0
              /\ worker[k].slot = Exec(i) => worker[k].cmd # Exec(i)
              /\ \A j \in Ids \ {k} : worker[j].slot # Exec(i) /\ worker[j].cmd # Exec(i)
      BY DEF WriteInv
    <3>4. /\ \A i \in Writes : written[i] \in {0, 1}
          /\ \A i \in Writes : i > issued => written[i] = 0
      BY DEF WriteInv
    <3> QED BY <1>2, <3>1, <3>2, <3>3, <3>4 DEF WriteInv
  <2>9. ScanInv'
    <3>1. ASSUME open
          PROVE  /\ call = NextRow \/ (call = Query(asked) /\ given = <<>> /\ ended = FALSE)
                 /\ reply.is \in {"streamReady", "row", "done"}
      <4>1. call = NextRow \/ (call = Query(asked) /\ given = <<>> /\ ended = FALSE)
        BY <2>1, <3>1 DEF ScanInv
      <4>2. asked \in Asks
        BY TypesOf
      <4> QED BY <2>2, <4>1, <4>2 DEF ScanInv
    <3>2. ASSUME ~open
          PROVE  reply.is \notin {"streamReady", "row", "done"} /\ given = <<>> /\ ended = FALSE
      <4>1. asked \in Asks
        BY TypesOf
      <4> QED BY <3>2, <4>1 DEF ScanInv
    <3>3. open => inst' = "scan" /\ pc' = "idle"
      BY <1>2, <3>1 DEF ScanInv
    <3>4. ~open => given' = <<>> /\ ended' = FALSE
      BY <1>2, <3>2
    <3>5. /\ \A i \in DOMAIN given' : given'[i] = <<asked, i>>
          /\ ended' => Len(given') = N
          /\ open => worker[tx].stream = <<asked, Len(given')>>
      <4>1. CASE reply.is = "row"
        <5>1. /\ reply.row = <<asked, Len(given) + 1>> /\ Len(given) < N /\ ended = FALSE
              /\ worker[tx].stream = <<asked, Len(given) + 1>>
          BY <2>3, <4>1 DEF ScanInv, WorkerAssumption
        <5>2. given' = Append(given, <<asked, Len(given) + 1>>)
          BY <1>2, <4>1, <5>1
        <5>3. /\ DOMAIN given' = 1..(Len(given) + 1) /\ Len(given') = Len(given) + 1
              /\ \A i \in 1..Len(given) : given'[i] = given[i]
              /\ given'[Len(given) + 1] = <<asked, Len(given) + 1>>
          BY <2>2, <2>3, <4>1, <5>1, <5>2
        <5>4. \A i \in 1..Len(given) : given[i] = <<asked, i>>
          BY <2>3 DEF ScanInv
        <5>5. ended' = FALSE
          BY <1>2, <4>1, <5>1
        <5>6. \A i \in 1..(Len(given) + 1) : i \in 1..Len(given) \/ i = Len(given) + 1
          BY <2>3
        <5> QED BY <5>1, <5>3, <5>4, <5>5, <5>6
      <4>2. CASE reply.is # "row"
        <5>1. given' = given
          BY <1>2, <4>2
        <5>2. ended' => Len(given) = N
          BY <1>2 DEF ScanInv
        <5>3. open => worker[tx].stream = <<asked, Len(given)>>
          <6>1. open /\ reply.is = "streamReady" => given = <<>>
            BY <3>1, CommandKinds DEF ScanInv
          <6>2. Len(<<>>) = 0
            OBVIOUS
          <6> QED BY <3>1, <4>2, <6>1, <6>2 DEF ScanInv
        <5> QED BY <5>1, <5>2, <5>3 DEF ScanInv
      <4> QED BY <4>1, <4>2
    <3>6. call' # NextRow /\ (\A a \in Asks : call' # Query(a)) /\ reply'.is = "none"
      BY <1>2, NoReplyKind, CommandKinds
    <3>7. open => AtRest(tx)
      BY <2>6, <3>1
    <3>8. AtRest(tx) => AtRest(tx)'
      BY <1>2 DEF AtRest
    <3> QED BY <1>2, <2>1, <3>3, <3>4, <3>5, <3>6, <3>7, <3>8 DEF ScanInv
  <2> QED BY <2>5, <2>7, <2>8, <2>9
<1> QED BY <1>1, <1>2 DEF Answered

\* end_scan and end_modify.
LEMMA EndStep ==
  ASSUME WorkerAssumption, WorkerInv, End PROVE WorkerInv'
<1> USE DEF WorkerInv, writeVars
<1>1. /\ inst # "none" /\ pc = "idle" /\ pc' = "disconnect"
      /\ open' = FALSE /\ given' = <<>> /\ ended' = FALSE
      /\ UNCHANGED <<inst, tx, call, reply, worker, asked, issued, acked, written>>
  BY DEF End
<1>2. call = NoCmd /\ reply = NoReply
  BY <1>1 DEF TalkInv
<1>3. TypeOK'
  <2>1. <<>> \in Seq(Rows)
    OBVIOUS
  <2> QED BY <1>1, <2>1, TypesOf, TypesMake
<1>4. TalkInv'
  BY <1>1 DEF TalkInv
<1>5. WriteInv'
  BY <1>1, <1>2, NoWriteMoves, NoReplyKind
<1>6. ScanInv'
  BY <1>1, <1>2, NoReplyKind, CommandKinds DEF ScanInv
<1> QED BY <1>3, <1>4, <1>5, <1>6

LEMMA DisconnectStep ==
  ASSUME WorkerAssumption, WorkerInv, Disconnect PROVE WorkerInv'
<1> USE DEF WorkerInv, scanVars, writeVars
<1>1. /\ pc = "disconnect" /\ tx' = 0 /\ pc' = "idle"
      /\ UNCHANGED <<inst, call, reply, open, asked, given, ended, issued, acked, written>>
  BY DEF Disconnect
<1>2. call = NoCmd /\ reply = NoReply /\ open = FALSE
  BY <1>1 DEF TalkInv, ScanInv, TypeOK
<1>3. /\ worker' \in [Ids -> WorkerType]
      /\ \A k \in Ids : /\ worker'[k].st = worker[k].st
                        /\ worker'[k].slot \in {worker[k].slot, [op |-> "disconnect"]}
                        /\ worker'[k].cmd = worker[k].cmd
                        /\ worker'[k].heard => worker[k].heard
  BY DisconnectWorkers
<1>4. TypeOK'
  <2>1. 0 \in 0..MaxWorkers
    BY DEF WorkerAssumption
  <2> QED BY <1>1, <1>3, <2>1, TypesOf, TypesMake
<1>5. TalkInv'
  BY <1>1, <1>2, <1>3 DEF TalkInv
<1>6. WriteInv'
  <2>1. \A i : [op |-> "disconnect"] # Exec(i)
    BY DEF Exec
  <2> QED BY <1>1, <1>2, <1>3, <2>1, NoWriteMoves, NoReplyKind
<1>7. ScanInv'
  BY <1>1, <1>2, NoScan, NoReplyKind, CommandKinds
<1> QED BY <1>4, <1>5, <1>6, <1>7

\* The instance is left behind.
LEMMA AbortStep ==
  ASSUME WorkerAssumption, WorkerInv, AbortElsewhere PROVE WorkerInv'
<1> USE DEF WorkerInv, writeVars
<1>1. /\ pc = "idle" /\ inst' = "none" /\ tx' = 0
      /\ open' = FALSE /\ given' = <<>> /\ ended' = FALSE
      /\ UNCHANGED <<pc, call, reply, asked, issued, acked, written>>
  BY DEF AbortElsewhere
<1>2. call = NoCmd /\ reply = NoReply
  BY <1>1 DEF TalkInv
<1>3. /\ worker' \in [Ids -> WorkerType]
      /\ \A k \in Ids : /\ worker'[k].st = worker[k].st /\ worker'[k].slot = worker[k].slot
                        /\ worker'[k].cmd = worker[k].cmd
                        /\ worker'[k].heard = worker[k].heard
  BY AbortWorkers
<1>4. TypeOK'
  <2>1. 0 \in 0..MaxWorkers /\ <<>> \in Seq(Rows)
    BY DEF WorkerAssumption
  <2> QED BY <1>1, <1>3, <2>1, TypesOf, TypesMake
<1>5. TalkInv'
  BY <1>1, <1>2, <1>3 DEF TalkInv
<1>6. WriteInv'
  BY <1>1, <1>2, <1>3, NoWriteMoves, NoReplyKind
<1>7. ScanInv'
  BY <1>1, <1>2, NoReplyKind, CommandKinds DEF ScanInv
<1> QED BY <1>4, <1>5, <1>6, <1>7

-----------------------------------------------------------------------------
(* Steps of the workers.                                                   *)

\* Worker k goes on without an answer: to x.
LEMMA QuietStep ==
  ASSUME WorkerAssumption, WorkerInv, NEW k \in Ids, NEW x \in WorkerType,
         worker' = [worker EXCEPT ![k] = x], UNCHANGED <<backendVars, reply, written>>,
         k # tx \/ ~AtRest(k),
         x.st # "busy" => x.cmd = NoCmd,
         k = tx /\ pc \in {"idle", "send"} => x.slot = NoCmd /\ x.st \in {"start", "recv", "exit"},
         k = tx /\ x.st # "exit" => x.sender,
         x.heard =>
           /\ worker[k].heard
           /\ \/ x.st \in {"start", "recv"} /\ x.slot = call
              \/ x.st = "busy" /\ x.slot = NoCmd /\ x.cmd = call
              \/ x.st = "hung"
           /\ x.st # "hung" => worker[k].st # "hung" /\ x.stream = worker[k].stream,
         \A i \in Writes :
           /\ x.slot = Exec(i) \/ x.cmd = Exec(i) => worker[k].slot = Exec(i) \/ worker[k].cmd = Exec(i)
           /\ x.slot = Exec(i) => x.cmd # Exec(i)
  PROVE  WorkerInv'
<1> USE DEF WorkerInv
<1>1. /\ UNCHANGED <<inst, tx, pc, call, reply, open, asked, given, ended, issued, acked, written>>
  BY DEF backendVars, scanVars, writeVars
<1>2. /\ worker' \in [Ids -> WorkerType] /\ worker'[k] = x
      /\ \A j \in Ids \ {k} : worker'[j] = worker[j]
  BY OneWorker
<1>3. TypeOK'
  BY <1>1, <1>2, TypesOf, TypesMake
<1>4. tx # 0 => tx \in Ids
  BY TypesOf DEF Ids
<1>5. TalkInv'
  <2>1. \A j \in Ids : worker'[j].heard =>
          j = tx' /\ pc' = "wait" /\ reply' = NoReply /\ Under(j)'
    <3>1. ASSUME worker'[k].heard
          PROVE  k = tx' /\ pc' = "wait" /\ reply' = NoReply /\ Under(k)'
      BY <1>1, <1>2, <3>1 DEF TalkInv, Under
    <3>2. ASSUME NEW j \in Ids \ {k}, worker'[j].heard
          PROVE  j = tx' /\ pc' = "wait" /\ reply' = NoReply /\ Under(j)'
      BY <1>1, <1>2, <3>2 DEF TalkInv, Under
    <3> QED BY <3>1, <3>2
  <2>2. \A j \in Ids : worker'[j].st # "busy" => worker'[j].cmd = NoCmd
    BY <1>2 DEF TalkInv
  <2>3. tx' # 0 /\ worker'[tx'].st # "exit" => worker'[tx'].sender
    BY <1>1, <1>2, <1>4 DEF TalkInv
  <2>4. tx' # 0 /\ pc' \in {"idle", "send"} =>
          worker'[tx'].slot = NoCmd /\ worker'[tx'].st \in {"start", "recv", "exit"}
    BY <1>1, <1>2, <1>4 DEF TalkInv
  <2> QED BY <1>1, <2>1, <2>2, <2>3, <2>4 DEF TalkInv
<1>6. WriteInv'
  <2>1. ASSUME NEW i \in Writes, NEW j \in Ids, worker'[j].slot = Exec(i) \/ worker'[j].cmd = Exec(i)
        PROVE  /\ i <= issued' /\ written'[i] = 0
               /\ ~(pc' = "send" /\ call' = Exec(i))
               /\ worker'[j].slot = Exec(i) => worker'[j].cmd # Exec(i)
               /\ \A l \in Ids \ {j} : worker'[l].slot # Exec(i) /\ worker'[l].cmd # Exec(i)
    <3>1. \A l \in Ids : worker'[l].slot = Exec(i) \/ worker'[l].cmd = Exec(i) =>
            worker[l].slot = Exec(i) \/ worker[l].cmd = Exec(i)
      BY <1>2
    <3>2. /\ i <= issued /\ written[i] = 0
          /\ ~(pc = "send" /\ call = Exec(i))
          /\ worker[j].slot = Exec(i) => worker[j].cmd # Exec(i)
          /\ \A l \in Ids \ {j} : worker[l].slot # Exec(i) /\ worker[l].cmd # Exec(i)
      BY <2>1, <3>1 DEF WriteInv
    <3>3. worker'[j].slot = Exec(i) => worker'[j].cmd # Exec(i)
      BY <1>2, <3>2
    <3> QED BY <1>1, <3>1, <3>2, <3>3
  <2> QED BY <1>1, <2>1 DEF WriteInv
<1>7. ScanInv'
  <2>1. tx \in Ids /\ AtRest(tx) => worker'[tx] = worker[tx] /\ AtRest(tx)'
    BY <1>1, <1>2 DEF AtRest
  <2>2. tx \in Ids /\ worker'[tx].heard /\ worker'[tx].st # "hung" =>
          /\ worker[tx].heard /\ worker[tx].st # "hung"
          /\ worker'[tx].stream = worker[tx].stream
    BY <1>1, <1>2
  <2>3. pc \in {"send", "wait"} \/ open \/ reply # NoReply => tx \in Ids
    BY <1>4 DEF TalkInv, ScanInv
  <2>4. reply.is \notin {"streamReady", "row", "done", "ok"} \/ tx \in Ids
    BY <2>3, NoReplyKind
  <2> QED BY <1>1, <2>1, <2>2, <2>3, <2>4 DEF ScanInv
<1> QED BY <1>3, <1>5, <1>6, <1>7

\* A worker may always exit, unless it is the one of this instance and rests.
LEMMA ExitedStep ==
  ASSUME WorkerAssumption, WorkerInv, NEW k \in Ids, worker' = [worker EXCEPT ![k] = Exited],
         UNCHANGED <<backendVars, reply, written>>, k # tx \/ ~AtRest(k)
  PROVE  WorkerInv'
<1>1. Exited.st = "exit" /\ Exited.slot = NoCmd /\ Exited.cmd = NoCmd /\ ~Exited.heard
  BY DEF Exited
<1>2. \A i \in Writes : Exec(i) # NoCmd
  BY CommandKinds
<1> HIDE DEF Exited
<1> QED BY <1>1, <1>2, ExitedType, QuietStep

LEMMA StartStep ==
  ASSUME WorkerAssumption, WorkerInv, NEW k \in Ids, Start(k) PROVE WorkerInv'
<1> USE DEF WorkerInv
<1>1. worker[k].st = "start" /\ UNCHANGED <<backendVars, reply, written>> /\ worker[k] \in WorkerType
  BY TypesOf DEF Start
<1>2. k = tx => k # 0
  BY DEF Ids
<1>3. CASE worker' = [worker EXCEPT ![k].st = "recv"]
  <2> DEFINE x == [worker[k] EXCEPT !.st = "recv"]
  <2>1. /\ x \in WorkerType /\ x.st = "recv" /\ x.slot = worker[k].slot /\ x.cmd = worker[k].cmd
        /\ x.heard = worker[k].heard /\ x.sender = worker[k].sender /\ x.stream = worker[k].stream
    BY <1>1 DEF WorkerType
  <2>2. worker' = [worker EXCEPT ![k] = x]
    BY <1>3
  <2> HIDE DEF x
  <2>3. x.cmd = NoCmd
    BY <1>1, <2>1 DEF TalkInv
  <2>4. x.heard => worker[k].heard /\ x.slot = call
    BY <1>1, <2>1 DEF TalkInv, Under
  <2>5. k = tx /\ pc \in {"idle", "send"} => x.slot = NoCmd
    BY <1>2, <2>1 DEF TalkInv
  <2>6. k = tx => x.sender
    BY <1>1, <1>2, <2>1 DEF TalkInv
  <2>7. \A i \in Writes :
          /\ x.slot = Exec(i) \/ x.cmd = Exec(i) => worker[k].slot = Exec(i) \/ worker[k].cmd = Exec(i)
          /\ x.slot = Exec(i) => x.cmd # Exec(i)
    BY <2>1, <2>3, CommandKinds
  <2> QED BY <1>1, <2>1, <2>2, <2>3, <2>4, <2>5, <2>6, <2>7, QuietStep DEF AtRest
<1>4. CASE worker' = [worker EXCEPT ![k] = Exited]
  <2>1. ~AtRest(k)
    BY <1>1 DEF AtRest
  <2> QED BY <1>1, <1>4, <2>1, ExitedStep
<1> QED BY <1>3, <1>4 DEF Start

LEMMA TakeStep ==
  ASSUME WorkerAssumption, WorkerInv, NEW k \in Ids, Take(k) PROVE WorkerInv'
<1> USE DEF WorkerInv
<1> DEFINE x == [worker[k] EXCEPT !.st = "busy", !.cmd = worker[k].slot, !.slot = NoCmd]
<1>1. /\ worker[k].st = "recv" /\ worker[k].slot # NoCmd
      /\ UNCHANGED <<backendVars, reply, written>> /\ worker[k] \in WorkerType
  BY TypesOf DEF Take
<1>2. k = tx => k # 0
  BY DEF Ids
<1>3. /\ x \in WorkerType /\ x.st = "busy" /\ x.slot = NoCmd /\ x.cmd = worker[k].slot
      /\ x.heard = worker[k].heard /\ x.sender = worker[k].sender /\ x.stream = worker[k].stream
  BY <1>1 DEF WorkerType
<1>4. worker' = [worker EXCEPT ![k] = x]
  BY DEF Take
<1> HIDE DEF x
<1>5. x.heard => worker[k].heard /\ x.cmd = call
  BY <1>1, <1>3 DEF TalkInv, Under
<1>6. ~(k = tx /\ pc \in {"idle", "send"})
  BY <1>1, <1>2 DEF TalkInv
<1>7. k = tx => x.sender
  BY <1>1, <1>2, <1>3 DEF TalkInv
<1>8. \A i \in Writes :
        /\ x.slot = Exec(i) \/ x.cmd = Exec(i) => worker[k].slot = Exec(i) \/ worker[k].cmd = Exec(i)
        /\ x.slot = Exec(i) => x.cmd # Exec(i)
  BY <1>3, CommandKinds
<1> QED BY <1>1, <1>3, <1>4, <1>5, <1>6, <1>7, <1>8, QuietStep DEF AtRest

\* The worker exits; it is not the one of this instance, or had not answered.
LEMMA ExitStep ==
  ASSUME WorkerAssumption, WorkerInv, NEW k \in Ids, Gone(k) \/ DoDisconnect(k) PROVE WorkerInv'
<1> USE DEF WorkerInv
<1>1. worker' = [worker EXCEPT ![k] = Exited] /\ UNCHANGED <<backendVars, reply, written>>
  BY DEF Gone, DoDisconnect
<1>2. k # tx \/ ~AtRest(k)
  <2>1. k = tx => k # 0
    BY DEF Ids
  <2>2. CASE Gone(k)
    BY <2>1, <2>2 DEF Gone, TalkInv
  <2>3. CASE DoDisconnect(k)
    BY <2>3 DEF DoDisconnect, Busy, AtRest
  <2> QED BY <2>2, <2>3
<1> QED BY <1>1, <1>2, ExitedStep

LEMMA HangStep ==
  ASSUME WorkerAssumption, WorkerInv, NEW k \in Ids, Hang(k) PROVE WorkerInv'
<1> USE DEF WorkerInv
<1> DEFINE x == [worker[k] EXCEPT !.st = "hung", !.cmd = NoCmd, !.stream = NoStream]
<1>1. worker[k].st = "busy" /\ UNCHANGED <<backendVars, reply, written>> /\ worker[k] \in WorkerType
  BY TypesOf DEF Hang
<1>2. k = tx => k # 0
  BY DEF Ids
<1>3. /\ x \in WorkerType /\ x.st = "hung" /\ x.slot = worker[k].slot /\ x.cmd = NoCmd
      /\ x.heard = worker[k].heard /\ x.sender = worker[k].sender
  BY <1>1, StreamTypes DEF WorkerType
<1>4. worker' = [worker EXCEPT ![k] = x]
  BY DEF Hang
<1> HIDE DEF x
<1>5. ~(k = tx /\ pc \in {"idle", "send"})
  BY <1>1, <1>2 DEF TalkInv
<1>6. k = tx => x.sender
  BY <1>1, <1>2, <1>3 DEF TalkInv
<1>7. \A i \in Writes :
        /\ x.slot = Exec(i) \/ x.cmd = Exec(i) => worker[k].slot = Exec(i) \/ worker[k].cmd = Exec(i)
        /\ x.slot = Exec(i) => x.cmd # Exec(i)
  BY <1>3, CommandKinds
<1> QED BY <1>1, <1>3, <1>4, <1>5, <1>6, <1>7, QuietStep DEF AtRest

\* An answer: what the backend hears of it is about the command under way.
LEMMA AnswerFacts ==
  ASSUME WorkerAssumption, WorkerInv, NEW k \in Ids, worker[k].st = "busy",
         NEW x \in Streams, NEW r \in Replies, Replied(k, x, r)
  PROVE  /\ worker[k].heard => /\ k = tx /\ pc = "wait" /\ reply = NoReply
                               /\ worker[k].slot = NoCmd /\ worker[k].cmd = call
         /\ UNCHANGED <<inst, tx, pc, call, open, asked, given, ended, issued, acked>>
         /\ worker' \in [Ids -> WorkerType] /\ reply' \in Replies \cup {NoReply}
         /\ TalkInv'
<1> USE DEF WorkerInv
<1>1. /\ worker' \in [Ids -> WorkerType]
      /\ \A j \in Ids \ {k} : worker'[j] = worker[j]
      /\ worker'[k].st = "recv" /\ worker'[k].cmd = NoCmd /\ worker'[k].heard = FALSE
      /\ worker'[k].slot = worker[k].slot /\ worker'[k].sender = worker[k].sender
      /\ reply' = IF worker[k].heard THEN r ELSE reply
      /\ UNCHANGED backendVars
  BY RepliedWorkers
<1>2. UNCHANGED <<inst, tx, pc, call, open, asked, given, ended, issued, acked>>
  BY <1>1 DEF backendVars, scanVars, writeVars
<1>3. worker[k].heard => /\ k = tx /\ pc = "wait" /\ reply = NoReply
                         /\ worker[k].slot = NoCmd /\ worker[k].cmd = call
  BY DEF TalkInv, Under
<1>4. reply' \in Replies \cup {NoReply}
  BY <1>1, TypesOf
<1>5. TalkInv'
  <2>1. tx # 0 => tx \in Ids
    BY TypesOf DEF Ids
  <2>2. \A j \in Ids : worker'[j].heard =>
          j = tx' /\ pc' = "wait" /\ reply' = NoReply /\ Under(j)'
    <3>1. ~worker'[k].heard
      BY <1>1
    <3>2. ASSUME NEW j \in Ids \ {k}, worker'[j].heard
          PROVE  j = tx' /\ pc' = "wait" /\ reply' = NoReply /\ Under(j)'
      <4>1. j = tx /\ pc = "wait" /\ reply = NoReply /\ Under(j)
        BY <1>1, <3>2 DEF TalkInv
      <4>2. ~worker[k].heard
        BY <1>3, <3>2, <4>1
      <4> QED BY <1>1, <1>2, <4>1, <4>2 DEF Under
    <3> QED BY <3>1, <3>2
  <2>3. \A j \in Ids : worker'[j].st # "busy" => worker'[j].cmd = NoCmd
    BY <1>1 DEF TalkInv
  <2>4. tx' # 0 /\ pc' \in {"idle", "send"} =>
          worker'[tx'].slot = NoCmd /\ worker'[tx'].st \in {"start", "recv", "exit"}
    BY <1>1, <1>2, <2>1 DEF TalkInv
  <2>5. tx' # 0 /\ worker'[tx'].st # "exit" => worker'[tx'].sender
    BY <1>1, <1>2, <2>1 DEF TalkInv
  <2>6. reply' # NoReply => pc' = "wait"
    BY <1>1, <1>2, <1>3 DEF TalkInv
  <2> QED BY <1>2, <2>2, <2>3, <2>4, <2>5, <2>6 DEF TalkInv
<1> QED BY <1>1, <1>2, <1>3, <1>4, <1>5

\* The answer agrees with where the query is.
LEMMA AnswerScan ==
  ASSUME WorkerAssumption, WorkerInv, NEW k \in Ids, worker[k].st = "busy",
         NEW x \in Streams, NEW r \in Replies, Replied(k, x, r),
         worker[k].heard =>
           /\ r.is = "streamReady" => \E a \in Asks : call = Query(a) /\ x = <<a, 0>>
           /\ r.is = "row" => /\ call = NextRow /\ r.row = <<asked, Len(given) + 1>>
                              /\ Len(given) < N /\ x = <<asked, Len(given) + 1>>
           /\ r.is = "done" => call = NextRow /\ Len(given) = N /\ x = <<asked, Len(given)>>
           /\ r.is \in {"ok", "rows"} => call # NextRow /\ \A a \in Asks : call # Query(a)
  PROVE  ScanInv'
<1> USE DEF WorkerInv
<1>1. /\ \A j \in Ids \ {k} : worker'[j] = worker[j]
      /\ worker'[k].st = "recv" /\ worker'[k].heard = FALSE
      /\ worker'[k].stream = x /\ worker'[k].slot = worker[k].slot
      /\ reply' = IF worker[k].heard THEN r ELSE reply
  BY RepliedWorkers
<1>2. /\ worker[k].heard => /\ k = tx /\ pc = "wait" /\ reply = NoReply
                            /\ worker[k].slot = NoCmd /\ worker[k].cmd = call
      /\ UNCHANGED <<inst, tx, pc, call, open, asked, given, ended>>
  BY AnswerFacts
<1>3. pc \in {"send", "wait"} \/ open \/ reply # NoReply => tx \in Ids
  BY TypesOf DEF TalkInv, ScanInv, Ids
<1>4. tx \in Ids /\ AtRest(tx) => worker'[tx] = worker[tx] /\ AtRest(tx)'
  BY <1>1, <1>2 DEF AtRest
<1>5. worker[k].heard => AtRest(tx)' /\ worker'[tx].stream = x
  BY <1>1, <1>2 DEF AtRest
<1>6. /\ open' => inst' = "scan" /\ tx' # 0 /\ pc' \in {"idle", "send", "wait"}
      /\ ~open' => given' = <<>> /\ ended' = FALSE
      /\ \A i \in DOMAIN given' : given'[i] = <<asked', i>>
      /\ ended' => Len(given') = N
      /\ open' /\ pc' \in {"send", "wait"} =>
           \/ call' = Query(asked') /\ given' = <<>> /\ ended' = FALSE
           \/ call' = NextRow
      /\ call' = NextRow => open'
      /\ \A a \in Asks : call' = Query(a) => open'
  BY <1>2 DEF ScanInv
<1>7. open' /\ (pc' = "idle" \/ (pc' = "send" /\ call' = NextRow)) =>
        AtRest(tx)' /\ worker'[tx'].stream = <<asked', Len(given')>>
  BY <1>2, <1>3, <1>4 DEF ScanInv
<1>8. pc' = "wait" /\ call' = NextRow /\ worker'[tx'].heard /\ worker'[tx'].st # "hung" =>
        worker'[tx'].stream = <<asked', Len(given')>>
  BY <1>1, <1>2, <1>3 DEF ScanInv
<1>9. CASE worker[k].heard
  <2>1. reply' = r /\ pc = "wait"
    BY <1>1, <1>2, <1>9
  <2>2. r.is = "streamReady" => call = Query(asked) /\ x = <<asked, 0>>
    <3>1. ASSUME NEW a \in Asks, call = Query(a), x = <<a, 0>>
          PROVE  call = Query(asked) /\ x = <<asked, 0>>
      BY <2>1, <3>1, CommandKinds DEF ScanInv
    <3> QED BY <1>9, <3>1
  <2> QED BY <1>2, <1>5, <1>6, <1>7, <1>8, <1>9, <2>1, <2>2 DEF ScanInv
<1>10. CASE ~worker[k].heard
  <2>1. reply' = reply
    BY <1>1, <1>10
  <2>2. reply.is \notin {"streamReady", "row", "done", "ok"} \/ tx \in Ids
    BY <1>3, NoReplyKind
  <2> QED BY <1>2, <1>4, <1>6, <1>7, <1>8, <2>1, <2>2 DEF ScanInv
<1> QED BY <1>9, <1>10

\* An answer that executed no statement.
LEMMA AnswerWrite ==
  ASSUME WorkerAssumption, WorkerInv, NEW k \in Ids, worker[k].st = "busy",
         NEW x \in Streams, NEW r \in Replies, Replied(k, x, r), r.is # "ok", written' = written
  PROVE  TypeOK' /\ WriteInv'
<1> USE DEF WorkerInv
<1>1. /\ \A j \in Ids \ {k} : worker'[j] = worker[j]
      /\ worker'[k].cmd = NoCmd /\ worker'[k].slot = worker[k].slot
      /\ reply' = IF worker[k].heard THEN r ELSE reply
  BY RepliedWorkers
<1>2. /\ UNCHANGED <<inst, tx, pc, call, open, asked, given, ended, issued, acked>>
      /\ worker' \in [Ids -> WorkerType] /\ reply' \in Replies \cup {NoReply}
  BY AnswerFacts
<1>3. TypeOK'
  BY <1>2, TypesOf, TypesMake
<1>4. \A j \in Ids, i \in Writes : /\ worker'[j].slot = Exec(i) => worker[j].slot = Exec(i)
                                   /\ worker'[j].cmd = Exec(i) => worker[j].cmd = Exec(i)
  BY <1>1, CommandKinds
<1>5. reply'.is = "ok" => reply.is = "ok"
  BY <1>1
<1> QED BY <1>2, <1>3, <1>4, <1>5, NoWriteMoves

LEMMA DoQueryStep ==
  ASSUME WorkerAssumption, WorkerInv, NEW k \in Ids, DoQuery(k) PROVE WorkerInv'
<1> USE DEF WorkerInv
<1>1. worker[k].st = "busy" /\ worker[k].cmd.op = "query" /\ written' = written
  BY DEF DoQuery, Busy
<1>2. PICK a \in Asks : worker[k].cmd = Query(a) /\ worker[k].cmd.ask = a
  <2>1. worker[k].cmd \in Cmds \cup {NoCmd}
    BY TypesOf DEF WorkerType
  <2> QED BY <1>1, <2>1, CommandOf
<1>3. PICK x \in Streams, r \in Replies :
        /\ Replied(k, x, r)
        /\ (x = <<a, 0>> /\ r.is = "streamReady") \/ r.is = "err"
  <2>1. <<a, 0>> \in Streams /\ NoStream \in Streams
    BY StreamTypes DEF WorkerAssumption
  <2>2. [is |-> "streamReady"] \in Replies /\ [is |-> "err"] \in Replies
    BY DEF Replies
  <2>3. Replied(k, <<a, 0>>, [is |-> "streamReady"]) \/ Replied(k, NoStream, [is |-> "err"])
    BY <1>2 DEF DoQuery
  <2> QED BY <2>1, <2>2, <2>3
<1>4. worker[k].heard => worker[k].cmd = call
  BY <1>1, <1>3, AnswerFacts
<1>5. ScanInv'
  BY <1>1, <1>2, <1>3, <1>4, AnswerScan
<1> QED BY <1>1, <1>3, <1>5, AnswerFacts, AnswerWrite

LEMMA DoNextStep ==
  ASSUME WorkerAssumption, WorkerInv, NEW k \in Ids, DoNext(k) PROVE WorkerInv'
<1> USE DEF WorkerInv
<1> DEFINE z == worker[k].stream
           after == <<z[1], z[2] + 1>>
           more == z # NoStream /\ z[2] < N
<1>1. worker[k].st = "busy" /\ worker[k].cmd.op = "next" /\ written' = written
  BY DEF DoNext, Busy
<1>2. worker[k].cmd = NextRow /\ z \in Streams
  <2>1. worker[k] \in WorkerType
    BY TypesOf
  <2> QED BY <1>1, <2>1, CommandOf DEF WorkerType
<1>3. z # NoStream => z[1] \in Asks /\ z[2] \in 0..N /\ z = <<z[1], z[2]>>
  BY <1>2, StreamTypes
<1>4. more => after \in Streams /\ after \in Rows
  BY <1>3, StreamTypes DEF Rows, WorkerAssumption
<1>5. worker[k].heard /\ worker[k].cmd = call /\ k = tx /\ pc = "wait" => z = <<asked, Len(given)>>
  BY <1>1, <1>2 DEF ScanInv
<1>6. PICK x \in Streams, r \in Replies :
        /\ Replied(k, x, r)
        /\ \/ more /\ x = after /\ r.is = "row" /\ r.row = after
           \/ ~more /\ x = z /\ r.is = "done"
           \/ r.is = "err"
  <2>1. [is |-> "done"] \in Replies /\ [is |-> "err"] \in Replies
    BY DEF Replies
  <2>2. more => [is |-> "row", row |-> after] \in Replies
    BY <1>4 DEF Replies
  <2>3. \/ more /\ Replied(k, after, [is |-> "row", row |-> after])
        \/ ~more /\ Replied(k, z, [is |-> "done"])
        \/ z # NoStream /\ Replied(k, z, [is |-> "err"])
    BY DEF DoNext
  <2> HIDE DEF z
  <2> QED BY <1>2, <1>4, <2>1, <2>2, <2>3
<1>7. worker[k].heard => k = tx /\ pc = "wait" /\ worker[k].cmd = call
  BY <1>1, <1>6, AnswerFacts
<1>8. ASSUME worker[k].heard
      PROVE  /\ call = NextRow
             /\ r.is = "row" => /\ r.row = <<asked, Len(given) + 1>>
                                /\ Len(given) < N /\ x = <<asked, Len(given) + 1>>
             /\ r.is = "done" => Len(given) = N /\ x = <<asked, Len(given)>>
             /\ r.is \notin {"streamReady", "ok", "rows"}
  <2>1. z = <<asked, Len(given)>> /\ call = NextRow
    BY <1>2, <1>5, <1>7, <1>8
  <2>2. z # NoStream /\ z[1] = asked /\ z[2] = Len(given) /\ Len(given) \in 0..N
    <3>1. <<asked, Len(given)>> # <<>>
      OBVIOUS
    <3>2. z # NoStream
      BY <2>1, <3>1 DEF NoStream
    <3> QED BY <1>3, <2>1, <3>2
  <2> HIDE DEF z
  <2> QED BY <1>6, <2>1, <2>2 DEF WorkerAssumption
<1>9. r.is # "ok"
  BY <1>6
<1>10. ScanInv'
  BY <1>1, <1>6, <1>8, AnswerScan
<1> QED BY <1>1, <1>6, <1>9, <1>10, AnswerFacts, AnswerWrite

LEMMA DoQueryAllStep ==
  ASSUME WorkerAssumption, WorkerInv, NEW k \in Ids, DoQueryAll(k) PROVE WorkerInv'
<1> USE DEF WorkerInv
<1>1. worker[k].st = "busy" /\ worker[k].cmd.op = "queryAll" /\ written' = written
  BY DEF DoQueryAll, Busy
<1>2. worker[k].stream \in Streams
  BY TypesOf DEF WorkerType
<1>3. PICK r \in Replies : Replied(k, worker[k].stream, r) /\ r.is \in {"rows", "err"}
  <2>1. [is |-> "rows"] \in Replies /\ [is |-> "err"] \in Replies
    BY DEF Replies
  <2> QED BY <2>1 DEF DoQueryAll
<1>4. worker[k].heard => call.op = "queryAll"
  BY <1>1, <1>2, <1>3, AnswerFacts
<1>5. NextRow.op = "next" /\ \A a : Query(a).op = "query"
  BY DEF NextRow, Query
<1>6. ScanInv'
  BY <1>1, <1>2, <1>3, <1>4, <1>5, AnswerScan
<1> QED BY <1>1, <1>2, <1>3, <1>6, AnswerFacts, AnswerWrite

\* The statement is executed, or not, and only then is its row written.
LEMMA DoExecuteStep ==
  ASSUME WorkerAssumption, WorkerInv, NEW k \in Ids, DoExecute(k) PROVE WorkerInv'
<1> USE DEF WorkerInv
<1>1. worker[k].st = "busy" /\ worker[k].cmd.op = "execute"
  BY DEF DoExecute, Busy
<1>2. worker[k].stream \in Streams /\ worker[k].cmd \in Cmds \cup {NoCmd}
  BY TypesOf DEF WorkerType
<1>3. PICK i \in Writes : worker[k].cmd = Exec(i) /\ worker[k].cmd.write = i
  BY <1>1, <1>2, CommandOf
<1>4. PICK r \in Replies :
        /\ Replied(k, worker[k].stream, r) /\ r.is \in {"ok", "err"}
        /\ \/ written' = [written EXCEPT ![i] = @ + 1]
           \/ r.is = "err" /\ written' = written
  <2>1. [is |-> "ok"] \in Replies /\ [is |-> "err"] \in Replies
    BY DEF Replies
  <2> QED BY <1>3, <2>1 DEF DoExecute
<1>5. worker[k].heard => call = Exec(i) /\ k = tx
  BY <1>1, <1>2, <1>3, <1>4, AnswerFacts
<1>6. /\ UNCHANGED <<inst, tx, pc, call, open, asked, given, ended, issued, acked>>
      /\ worker' \in [Ids -> WorkerType] /\ reply' \in Replies \cup {NoReply} /\ TalkInv'
  BY <1>1, <1>2, <1>4, AnswerFacts
<1>7. ScanInv'
  BY <1>1, <1>2, <1>4, <1>5, CommandKinds, AnswerScan
<1>8. CASE r.is = "err" /\ written' = written
  BY <1>1, <1>2, <1>4, <1>6, <1>7, <1>8, AnswerWrite
<1>9. CASE written' = [written EXCEPT ![i] = @ + 1]
  <2>1. /\ i <= issued /\ written[i] = 0
        /\ ~(pc = "send" /\ call = Exec(i))
        /\ worker[k].slot # Exec(i)
        /\ \A j \in Ids \ {k} : worker[j].slot # Exec(i) /\ worker[j].cmd # Exec(i)
    BY <1>3 DEF WriteInv
  <2>2. /\ written' \in [Writes -> Nat] /\ written'[i] = 1
        /\ \A h \in Writes \ {i} : written'[h] = written[h]
    BY <1>9, <2>1, TypesOf
  <2>3. TypeOK'
    BY <1>6, <2>2, TypesOf, TypesMake
  <2>4. /\ \A j \in Ids \ {k} : worker'[j] = worker[j]
        /\ worker'[k].cmd = NoCmd /\ worker'[k].slot = worker[k].slot
        /\ reply' = IF worker[k].heard THEN r ELSE reply
    BY <1>2, <1>4, RepliedWorkers
  <2>5. \A j \in Ids : worker'[j].slot # Exec(i) /\ worker'[j].cmd # Exec(i)
    BY <2>1, <2>4, CommandKinds
  <2>6. ASSUME NEW h \in Writes, NEW j \in Ids, worker'[j].slot = Exec(h) \/ worker'[j].cmd = Exec(h)
        PROVE  /\ h <= issued' /\ written'[h] = 0
               /\ ~(pc' = "send" /\ call' = Exec(h))
               /\ worker'[j].slot = Exec(h) => worker'[j].cmd # Exec(h)
               /\ \A l \in Ids \ {j} : worker'[l].slot # Exec(h) /\ worker'[l].cmd # Exec(h)
    <3>1. h # i
      BY <2>5, <2>6
    <3>2. \A l \in Ids : /\ worker'[l].slot = Exec(h) => worker[l].slot = Exec(h)
                         /\ worker'[l].cmd = Exec(h) => worker[l].cmd = Exec(h)
      BY <2>4, CommandKinds
    <3>3. /\ h <= issued /\ written[h] = 0
          /\ ~(pc = "send" /\ call = Exec(h))
          /\ worker[j].slot = Exec(h) => worker[j].cmd # Exec(h)
          /\ \A l \in Ids \ {j} : worker[l].slot # Exec(h) /\ worker[l].cmd # Exec(h)
      BY <2>6, <3>2 DEF WriteInv
    <3> QED BY <1>6, <2>2, <3>1, <3>2, <3>3
  <2>7. /\ \A h \in Writes : written'[h] \in {0, 1}
        /\ \A h \in acked' : written'[h] = 1
    BY <1>6, <2>2, TypesOf DEF WriteInv
  <2>8. \A h \in Writes : h > issued' => written'[h] = 0
    <3>1. ~(i > issued)
      BY <2>1, TypesOf DEF Writes, WorkerAssumption
    <3> QED BY <1>6, <2>2, <3>1 DEF WriteInv
  <2>9. \A h \in Writes : pc' = "send" /\ call' = Exec(h) => h <= issued' /\ written'[h] = 0
    BY <1>6, <2>1, <2>2 DEF WriteInv
  <2>10. reply'.is = "ok" => \E h \in Writes : call' = Exec(h) /\ written'[h] = 1
    <3>1. CASE worker[k].heard
      BY <1>5, <1>6, <2>2, <3>1
    <3>2. CASE ~worker[k].heard
      <4>1. reply' = reply
        BY <2>4, <3>2
      <4>2. ASSUME NEW h \in Writes, call = Exec(h), written[h] = 1
            PROVE  call' = Exec(h) /\ written'[h] = 1
        BY <1>6, <2>1, <2>2, <4>2
      <4> QED BY <4>1, <4>2 DEF WriteInv
    <3> QED BY <3>1, <3>2
  <2>11. WriteInv'
    BY <2>6, <2>7, <2>8, <2>9, <2>10 DEF WriteInv
  <2> QED BY <1>6, <1>7, <2>3, <2>11
<1> QED BY <1>4, <1>8, <1>9

-----------------------------------------------------------------------------
(* The theorems.                                                           *)

LEMMA WorkerInvStep == WorkerAssumption /\ WorkerInv /\ [Next]_vars => WorkerInv'
<1> SUFFICES ASSUME WorkerAssumption, WorkerInv, [Next]_vars PROVE WorkerInv'
  OBVIOUS
<1>1. CASE \E job \in {"scan", "modify", "import"} : New(job)
  BY <1>1, NewStep
<1>2. CASE BeginScan
  BY <1>2, SetupStep DEF BeginScan
<1>3. CASE ReScan
  BY <1>3, SetupStep, TypesOf DEF ReScan, WorkerInv
<1>4. CASE IterScan \/ ExecuteSql \/ ImportForeignSchema \/ End
  BY <1>4, IterScanStep, ExecuteSqlStep, ImportStep, EndStep
<1>5. CASE Proceed
  BY <1>5, PutStep, AnsweredStep, DropStep, DisconnectStep DEF Proceed, TimedOut, Fail
<1>6. CASE Drop \/ AbortElsewhere
  BY <1>6, DropStep, AbortStep DEF Drop
<1>7. ASSUME NEW k \in Ids, Work(k) PROVE WorkerInv'
  BY <1>7, StartStep, TakeStep, ExitStep, HangStep, DoQueryStep, DoNextStep, DoExecuteStep,
     DoQueryAllStep DEF Work
<1>8. CASE UNCHANGED vars
  BY <1>8 DEF vars, scanVars, writeVars, WorkerInv, TypeOK, TalkInv, WriteInv, ScanInv, Under, AtRest
<1> QED
  BY <1>1, <1>2, <1>3, <1>4, <1>5, <1>6, <1>7, <1>8 DEF Next, Call

\* Every reachable state is of its type, however many workers are left behind.
THEOREM TypeCorrect == Spec => []TypeOK
<1>1. Init => WorkerInv
  BY WorkerAssumption, WorkerInvInit
<1>2. WorkerInv /\ [Next]_vars => WorkerInv'
  BY WorkerAssumption, WorkerInvStep
<1>3. WorkerInv => TypeOK
  BY DEF WorkerInv
<1> QED BY <1>1, <1>2, <1>3, PTL DEF Spec

\* No row is written twice and none is reported that was not written, whatever
\* times out, hangs or loses its answer (execute_sql, send_cmd).
THEOREM WritesOnce == Spec => []WrittenOnce
<1>1. Init => WorkerInv
  BY WorkerAssumption, WorkerInvInit
<1>2. WorkerInv /\ [Next]_vars => WorkerInv'
  BY WorkerAssumption, WorkerInvStep
<1>3. WorkerInv => WrittenOnce
  BY DEF WorkerInv, WriteInv, WrittenOnce
<1> QED BY <1>1, <1>2, <1>3, PTL DEF Spec

\* The rows of a query are those of its own question, in their order, and all
\* of them when it is told that there are no more (iter_scan).
THEOREM RowsArrive == Spec => []NothingLost
<1>1. Init => WorkerInv
  BY WorkerAssumption, WorkerInvInit
<1>2. WorkerInv /\ [Next]_vars => WorkerInv'
  BY WorkerAssumption, WorkerInvStep
<1>3. WorkerInv => NothingLost
  BY DEF WorkerInv, ScanInv, NothingLost
<1> QED BY <1>1, <1>2, <1>3, PTL DEF Spec

-----------------------------------------------------------------------------
(* What the framework relies on.                                           *)

\* The rows given so far are those the stream has passed.
LEMMA GivenRows ==
  ASSUME WorkerInv
  PROVE  R!Range(given) = {<<asked, i>> : i \in 1..Len(given)}
<1>1. given \in Seq(Rows) /\ DOMAIN given = 1..Len(given)
  BY TypesOf DEF WorkerInv
<1>2. \A i \in 1..Len(given) : given[i] = <<asked, i>>
  BY <1>1 DEF WorkerInv, ScanInv
<1>3. R!Range(given) = {given[i] : i \in DOMAIN given}
  BY DEF R!Range
<1> QED BY <1>1, <1>2, <1>3

LEMMA RemoteScanStep == WorkerAssumption /\ WorkerInv /\ [Next]_vars => [R!Next]_(R!vars)
<1> SUFFICES ASSUME WorkerAssumption, WorkerInv, [Next]_vars PROVE R!Next \/ UNCHANGED R!vars
  OBVIOUS
<1> USE DEF scanVars, writeVars
<1>1. CASE \E job \in {"scan", "modify", "import"} : New(job)
  BY <1>1 DEF New, R!vars
<1>2. ASSUME NEW a \in Asks, SetupStreaming(a) PROVE R!Next
  BY <1>2 DEF SetupStreaming, R!Begin, R!Next
<1>3. CASE BeginScan \/ ReScan
  BY <1>2, <1>3, TypesOf DEF BeginScan, ReScan, WorkerInv
<1>4. CASE IterScan \/ ExecuteSql \/ ImportForeignSchema
  BY <1>4 DEF IterScan, ExecuteSql, ImportForeignSchema, R!vars
<1>5. CASE End \/ DropInstance \/ AbortElsewhere
  BY <1>5 DEF End, DropInstance, AbortElsewhere, R!Close, R!Next
<1>6. CASE Put
  BY <1>5, <1>6 DEF Put, Fail, R!vars
<1>7. CASE Answered
  <2>1. CASE Fail
    BY <1>5, <2>1 DEF Fail
  <2>2. CASE /\ given' = (IF reply.is = "row" THEN Append(given, reply.row) ELSE given)
             /\ ended' = (ended \/ reply.is = "done")
             /\ UNCHANGED <<open, asked>>
    <3>1. asked \in Asks /\ given \in Seq(Rows) /\ ended \in BOOLEAN /\ open \in BOOLEAN
      BY TypesOf DEF WorkerInv
    <3>2. CASE reply.is = "row"
      <4>1. open /\ reply.row = <<asked, Len(given) + 1>> /\ Len(given) < N
        BY <3>2 DEF WorkerInv, ScanInv
      <4>2. ended = FALSE /\ ended' = ended
        BY <2>2, <3>1, <3>2, <4>1 DEF WorkerInv, ScanInv, WorkerAssumption
      <4>3. reply.row \in Rows \ R!Range(given)
        <5>1. reply.row \in Rows
          BY <3>1, <4>1 DEF Rows, WorkerAssumption
        <5>2. \A i \in 1..Len(given) : <<asked, i>> # <<asked, Len(given) + 1>>
          BY <3>1
        <5> QED BY <4>1, <5>1, <5>2, GivenRows
      <4> QED BY <2>2, <3>2, <4>1, <4>2, <4>3 DEF R!Give, R!Next
    <3>3. CASE reply.is = "done"
      <4>1. open /\ Len(given) = N
        BY <3>3 DEF WorkerInv, ScanInv
      <4>2. {asked} \X (1..N) \subseteq R!Range(given)
        BY <4>1, GivenRows
      <4>3. [a \in Asks |-> {a} \X (1..N)][asked] \subseteq R!Range(given)
        BY <3>1, <4>2
      <4>4. ended' = TRUE /\ given' = given
        BY <2>2, <3>3
      <4> QED BY <2>2, <4>1, <4>3, <4>4 DEF R!Finish, R!Next
    <3>4. CASE reply.is \notin {"row", "done"}
      BY <2>2, <3>1, <3>4 DEF R!vars
    <3> QED BY <3>2, <3>3, <3>4
  <2> QED BY <1>7, <2>1, <2>2 DEF Answered
<1>8. CASE TimedOut \/ Drop
  BY <1>5, <1>8 DEF TimedOut, Fail, Drop
<1>9. CASE Disconnect
  BY <1>9 DEF Disconnect, R!vars
<1>10. ASSUME NEW k \in Ids, Work(k) PROVE UNCHANGED R!vars
  BY <1>10 DEF Work, Start, Take, Gone, DoQuery, DoNext, DoExecute, DoQueryAll, DoDisconnect, Hang,
     Replied, backendVars, R!vars
<1>11. CASE UNCHANGED vars
  BY <1>11 DEF vars, R!vars
<1> QED
  BY <1>1, <1>3, <1>4, <1>5, <1>6, <1>7, <1>8, <1>9, <1>10, <1>11 DEF Next, Call, Proceed

\* The wrapper implements what the framework relies on, whatever the workers of
\* earlier commands, scans and instances still do.
THEOREM ImplementsRemoteScan == Spec => Implements
<1>1. Init => WorkerInv
  BY WorkerAssumption, WorkerInvInit
<1>2. WorkerInv /\ [Next]_vars => WorkerInv'
  BY WorkerAssumption, WorkerInvStep
<1>3. Init => R!Init
  BY DEF Init, R!Init
<1>4. WorkerInv /\ [Next]_vars => [R!Next]_(R!vars)
  BY WorkerAssumption, RemoteScanStep
<1> QED BY <1>1, <1>2, <1>3, <1>4, PTL DEF Spec, Implements, R!Spec
=============================================================================
