---------------------------- MODULE DbWriteQueue ----------------------------
(***************************************************************************)
(* The queue that writes what a sync pulls (db_write_queue.rs).  Any task  *)
(* may submit writes or ask for a flush through a bounded channel; one     *)
(* worker collects a batch, merges neighbours, waits for the write lease   *)
(* and runs one transaction.  Failures are kept until a flush takes them.  *)
(*                                                                         *)
(* A caller is a task that makes one call at a time.  It may be aborted in *)
(* every await of a call: while it waits for room in the channel, for the  *)
(* answer, and between the answer and its next poll.  The collection       *)
(* windows (2 ms quiet, 10 ms at most) may close at any moment.            *)
(***************************************************************************)
EXTENDS Naturals, Sequences, FiniteSets, SequencesExt

CONSTANTS
  Caller, Key, Msg, Content,
  Payloads,       \* what callers submit, see WriteLog
  Capacity,       \* DB_WRITE_QUEUE_CAPACITY
  MaxTasks,       \* MAX_TASKS_PER_TRANSACTION
  MaxMessages,    \* MAX_MESSAGES_PER_TRANSACTION
  MaxLog,         \* bound on the tasks submitted
  MaxFlush        \* bound on the flush calls

\* The writes of a task are of different messages: pull_executor.rs, which
\* submits them, refuses a topic that names a message twice.
ASSUME QueueAssumption ==
  /\ Payloads \subseteq [key : Key \cup {"meta"}, writes : Seq([msg : Msg, content : Content])]
  /\ \A p \in Payloads :
       /\ p.key = "meta" => p.writes = <<>>
       /\ \A i, j \in DOMAIN p.writes : i # j => p.writes[i].msg # p.writes[j].msg
  /\ {Capacity, MaxTasks, MaxMessages} \subseteq Nat \ {0}
  /\ {MaxLog, MaxFlush} \subseteq Nat

VARIABLES
  call,      \* call[c]: what caller c is doing
  chan,      \* the channel: tasks (positions in log) and flushes
  worker,    \* where the worker is
  batch,     \* the tasks collected for the transaction
  carried,   \* carried_task: a task that would overfill the batch
  ack,       \* the flush that closed the batch
  errors,    \* pending_errors, as the positions of the tasks that failed
  table,     \* the messages in the database
  log,       \* history: the tasks in the order the channel accepted them
  settled,   \* history: how many of them were committed or failed
  failed,    \* history: the tasks that failed
  told,      \* history: failed tasks a flush was told of
  heard,     \* history: failed tasks a caller of flush learned of
  flushes    \* history: flush calls made

vars == <<call, chan, worker, batch, carried, ack, errors, table, log, settled, failed, told,
          heard, flushes>>
workerVars == <<worker, batch, carried, ack, errors, table, settled, failed, told>>

Absent == "absent"
None   == "none"

\* A caller is not the absence of one.
ASSUME NoneAssumption == None \notin Caller

Count(p) == Len(p.writes)          \* task_message_count

\* A call: where it stands, what it submits (nothing: it is a flush), what was
\* accepted before the flush, and the failures in the answer.
Idle == [pc |-> "idle", item |-> <<>>, after |-> 0, err |-> {}]

Init ==
  /\ call = [c \in Caller |-> Idle]
  /\ chan = <<>>
  /\ worker = "recv"
  /\ batch = <<>> /\ carried = <<>> /\ ack = None
  /\ errors = {}
  /\ table = [k \in Key |-> [m \in Msg |-> Absent]]
  /\ log = <<>> /\ settled = 0
  /\ failed = {} /\ told = {} /\ heard = {} /\ flushes = 0

-----------------------------------------------------------------------------
(* Callers.                                                                *)

Sending == {c \in Caller : call[c].pc = "send"}

Submit(c) ==
  /\ call[c].pc = "idle"
  /\ Len(log) + Cardinality({d \in Sending : call[d].item # <<>>}) < MaxLog
  /\ \E p \in Payloads : call' = [call EXCEPT ![c] = [Idle EXCEPT !.pc = "send", !.item = <<p>>]]
  /\ UNCHANGED <<chan, log, heard, flushes, workerVars>>

CallFlush(c) ==
  /\ call[c].pc = "idle"
  /\ flushes < MaxFlush
  /\ flushes' = flushes + 1
  /\ call' = [call EXCEPT ![c] = [Idle EXCEPT !.pc = "send"]]
  /\ UNCHANGED <<chan, log, heard, workerVars>>

\* Mutation of Enqueue: the channel has no bound.
EnqueueUnbounded(c) ==
  /\ call[c].pc = "send" /\ call[c].item # <<>>
  /\ log' = log \o call[c].item
  /\ chan' = Append(chan, [task |-> Len(log) + 1])
  /\ call' = [call EXCEPT ![c] = Idle]
  /\ UNCHANGED <<heard, flushes, workerVars>>

\* The channel has room: a submit returns, a flush waits for its answer.
Enqueue(c) ==
  /\ call[c].pc = "send"
  /\ Len(chan) < Capacity
  /\ IF call[c].item = <<>>
     THEN /\ chan' = Append(chan, [flush |-> c])
          /\ call' = [call EXCEPT ![c] = [Idle EXCEPT !.pc = "wait", !.after = Len(log)]]
          /\ UNCHANGED log
     ELSE /\ log' = log \o call[c].item
          /\ chan' = Append(chan, [task |-> Len(log) + 1])
          /\ call' = [call EXCEPT ![c] = Idle]
  /\ UNCHANGED <<heard, flushes, workerVars>>

\* The caller is polled and reads the answer to its flush.
FlushReturns(c) ==
  /\ call[c].pc = "answered"
  /\ heard' = heard \cup call[c].err
  /\ call' = [call EXCEPT ![c] = Idle]
  /\ UNCHANGED <<chan, log, flushes, workerVars>>

\* The task that makes the call is aborted: the receiver of its answer is
\* dropped, and so is an answer it did not read.
Cancel(c) ==
  /\ call[c].pc \in {"send", "wait", "answered"}
  /\ call' = [call EXCEPT ![c] = [Idle EXCEPT !.pc = "gone"]]
  /\ UNCHANGED <<chan, log, heard, flushes, workerVars>>

-----------------------------------------------------------------------------
(* The worker.                                                             *)

IsFlush(x) == "flush" \in DOMAIN x
BatchTasks == [i \in DOMAIN batch |-> log[batch[i]]]
Messages(tasks) == FoldLeft(LAMBDA n, p : n + Count(p), 0, tasks)
BatchCount == Messages(BatchTasks)

\* Mutation of Deliver: the failures are forgotten although nobody takes them.
DeliverForgets(c) ==
  /\ errors' = {}
  /\ IF call[c].pc = "wait"
     THEN /\ call' = [call EXCEPT ![c].pc = "answered", ![c].err = errors]
          /\ told' = told \cup errors
     ELSE UNCHANGED <<call, told>>

\* deliver_flush_ack: the failures are forgotten when the send succeeds,
\* which it does while the receiver exists.
Deliver(c) ==
  IF call[c].pc = "wait"
  THEN /\ call' = [call EXCEPT ![c].pc = "answered", ![c].err = errors]
       /\ told' = told \cup errors
       /\ errors' = {}
  ELSE UNCHANGED <<call, told, errors>>

\* Mutation of AckFirst: the flush overtakes the carried task.
AckFirstOvertakes ==
  /\ worker = "recv"
  /\ chan # <<>> /\ IsFlush(Head(chan))
  /\ chan' = Tail(chan)
  /\ Deliver(Head(chan).flush)
  /\ UNCHANGED <<worker, batch, carried, ack, table, log, settled, failed, heard, flushes>>

\* A flush with nothing before it is answered at once.
AckFirst ==
  /\ worker = "recv" /\ carried = <<>>
  /\ chan # <<>> /\ IsFlush(Head(chan))
  /\ chan' = Tail(chan)
  /\ Deliver(Head(chan).flush)
  /\ UNCHANGED <<worker, batch, carried, ack, table, log, settled, failed, heard, flushes>>

\* The carried task or the head of the channel opens a batch.
TakeFirst ==
  /\ worker = "recv"
  /\ \/ /\ carried # <<>>
        /\ batch' = carried /\ carried' = <<>>
        /\ UNCHANGED chan
     \/ /\ carried = <<>> /\ chan # <<>> /\ ~IsFlush(Head(chan))
        /\ batch' = <<Head(chan).task>> /\ chan' = Tail(chan)
        /\ UNCHANGED carried
  /\ worker' = "collect"
  /\ UNCHANGED <<call, ack, errors, table, log, settled, failed, told, heard,
                 flushes>>

MayCollect == Len(batch) < MaxTasks /\ BatchCount < MaxMessages

\* Mutation of TooMuch: only the task itself is measured.
TooMuchAlone(n) == n > MaxMessages
TooMuch(n) == n > 0 /\ BatchCount > 0 /\ BatchCount + n > MaxMessages

\* collect_batch: the next item joins the batch, closes it, or is carried.
Collect ==
  /\ worker = "collect" /\ MayCollect /\ chan # <<>>
  /\ chan' = Tail(chan)
  /\ LET x == Head(chan)
     IN  IF IsFlush(x)
         THEN ack' = x.flush /\ worker' = "lease" /\ UNCHANGED <<batch, carried>>
         ELSE IF TooMuch(Count(log[x.task]))
         THEN carried' = <<x.task>> /\ worker' = "lease" /\ UNCHANGED <<batch, ack>>
         ELSE batch' = Append(batch, x.task) /\ UNCHANGED <<worker, carried, ack>>
  /\ UNCHANGED <<call, errors, table, log, settled, failed, told, heard,
                 flushes>>

\* The batch is full or a window closes.
CloseBatch ==
  /\ worker = "collect"
  /\ worker' = "lease"
  /\ UNCHANGED <<call, chan, batch, carried, ack, errors, table, log, settled, failed, told, heard,
                 flushes>>

\* coalesce_adjacent_topic_message_tasks: a task joins the one before it if
\* both write the same topic, no message twice, and not too many.
Ids(p) == {w.msg : w \in Range(p.writes)}
\* Mutation of Mergeable: tasks that write the same message are merged.
MergeableAnyway(p, q) ==
  p.key = q.key /\ p.key # "meta" /\ Count(p) + Count(q) <= MaxMessages

Mergeable(p, q) ==
  /\ p.key = q.key /\ p.key # "meta"
  /\ Count(p) + Count(q) <= MaxMessages
  /\ Ids(p) \cap Ids(q) = {}

Join(done, p) ==
  IF done # <<>> /\ Mergeable(Last(done), p)
  THEN Append(Front(done), [p EXCEPT !.writes = Last(done).writes \o @])
  ELSE Append(done, p)

Coalesce(tasks) == FoldLeft(Join, <<>>, tasks)

\* rusqlite_upsert_messages_batch: a write that repeats the stored message is
\* dropped, against what was stored before this task.  No message here is
\* deleted: writes to a deleted one are dropped too, and a deleted topic fails
\* the transaction.
Upsert(t, p) ==
  IF p.key = "meta" THEN t
  ELSE LET row == t[p.key]
       IN  [t EXCEPT ![p.key] =
              FoldLeft(LAMBDA r, w : IF row[w.msg] = w.content THEN r
                                     ELSE [r EXCEPT ![w.msg] = w.content],
                       row, p.writes)]

\* The transaction, under the write lease: all of the batch or nothing.
\* The flush that closed the batch is answered after it.
Transact ==
  /\ worker = "lease"
  /\ settled' = settled + Len(batch)
  /\ \E ok \in BOOLEAN :
       /\ table' = IF ok THEN FoldLeft(Upsert, table, Coalesce(BatchTasks)) ELSE table
       /\ errors' = IF ok THEN errors ELSE errors \cup Range(batch)
       /\ failed' = IF ok THEN failed ELSE failed \cup Range(batch)
  /\ batch' = <<>>
  /\ worker' = IF ack = None THEN "recv" ELSE "answer"
  /\ UNCHANGED <<call, chan, carried, ack, log, told, heard, flushes>>

\* Mutation of AckBatch: the flush that closed the batch is dropped.
AckBatchDropped ==
  /\ worker = "answer"
  /\ ack' = None
  /\ worker' = "recv"
  /\ UNCHANGED <<call, told, errors, chan, batch, carried, table, log, settled, failed, heard,
                 flushes>>

AckBatch ==
  /\ worker = "answer"
  /\ Deliver(ack)
  /\ ack' = None
  /\ worker' = "recv"
  /\ UNCHANGED <<chan, batch, carried, table, log, settled, failed, heard, flushes>>

-----------------------------------------------------------------------------
Work == AckFirst \/ TakeFirst \/ Collect \/ CloseBatch \/ Transact \/ AckBatch
Proceed(c) == Enqueue(c) \/ FlushReturns(c)

Quiet == /\ worker = "recv" /\ carried = <<>> /\ chan = <<>>
         /\ \A c \in Caller : call[c].pc \in {"idle", "gone"}
         /\ UNCHANGED vars

Next ==
  \/ \E c \in Caller : Submit(c) \/ CallFlush(c) \/ Proceed(c) \/ Cancel(c)
  \/ Work
  \/ Quiet

\* The worker task runs, the lease is granted in turn, and a caller is polled.
Spec == /\ Init /\ [][Next]_vars
        /\ WF_vars(Work)
        /\ \A c \in Caller : WF_vars(Proceed(c))

-----------------------------------------------------------------------------
TypeOK ==
  /\ call \in [Caller -> [pc : {"idle", "send", "wait", "answered", "gone"},
                          item : {<<>>} \cup {<<p>> : p \in Payloads},
                          after : Nat, err : SUBSET Nat]]
  /\ Len(chan) <= Capacity
  /\ \A i \in DOMAIN chan : chan[i] \in [flush : Caller] \cup [task : Nat]
  /\ worker \in {"recv", "collect", "lease", "answer"}
  /\ batch \in Seq(Nat) /\ carried \in Seq(Nat)
  /\ ack \in Caller \cup {None}
  /\ errors \subseteq Nat /\ failed \subseteq Nat /\ told \subseteq Nat /\ heard \subseteq Nat
  /\ table \in [Key -> [Msg -> Content \cup {Absent}]]
  /\ log \in Seq(Payloads)
  /\ settled \in 0 .. Len(log)
  /\ flushes \in 0 .. MaxFlush

\* The queue is a log worked off in order: batches, the carried task, merged
\* neighbours and dropped repeats do not show in the database.
Log == INSTANCE WriteLog WITH unreported <- errors
IsALog == Log!WLSpec

\* A flush is a barrier: its answer comes after every task accepted before it
\* was committed or failed.
FlushIsBarrier == \A c \in Caller : call[c].pc = "answered" => settled >= call[c].after

\* A flush that answers Ok does not hide a failure: every failed task accepted before
\* it was in the answer of some flush.
OkHidesNothing ==
  \A c \in Caller : call[c].pc = "answered" /\ call[c].err = {} =>
    \A i \in failed : i <= call[c].after => i \in told

\* A transaction carries at most MaxMessages messages, unless a single task
\* has more, and never more than MaxTasks tasks.
BatchBound ==
  /\ Len(batch) <= MaxTasks
  /\ BatchCount > MaxMessages =>
       Cardinality({i \in DOMAIN batch : Count(BatchTasks[i]) > 0}) = 1

\* Every flush that is waited for is answered, however full the channel is.
FlushEnds == \A c \in Caller : call[c].pc = "send" ~> call[c].pc \in {"idle", "gone"}

\* Failures stay until somebody has learned of them: what was told to a
\* flush is in its unread answer or was heard by its caller.
StaySticky ==
  told \subseteq heard \cup UNION {call[c].err : c \in Caller}
=============================================================================
