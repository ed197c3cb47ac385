------------------------------ MODULE DbWrite ------------------------------
(***************************************************************************)
(* The write transactions of the application (persistence/db_write.rs).    *)
(* A caller of write_transaction waits for the gate, a FIFO mutex; from    *)
(* then on a task of its own takes a connection from the pool and begins.  *)
(* The caller gets the open transaction and either commits it, again in a  *)
(* task of its own, or drops it, which spawns the rollback.  The lease on  *)
(* the gate travels with the connection and outlives the caller.           *)
(*                                                                         *)
(* A caller may be cancelled whenever it waits.  Every statement may fail, *)
(* leaving the transaction open or not, and the tasks that run the         *)
(* statements may die; a connection in doubt is closed, never returned.    *)
(*                                                                         *)
(* A writer is one call of write_transaction.  SQLite's own lock is left   *)
(* out: that it is never contended is what has to be shown.                *)
(***************************************************************************)
EXTENDS Naturals, Sequences, SequencesExt

CONSTANTS
  Writer,   \* the calls
  Conn,     \* the connections of the pool
  None      \* no writer, no connection

ASSUME NoneAssumption == None \notin Writer /\ None \notin Conn

VARIABLES
  pc,       \* pc[w]: where the write is
  caller,   \* caller[w]: "live", or "gone" when it dropped what it waited for
  queue,    \* writers waiting for the gate
  holder,   \* the writer whose lease holds the gate, or None
  idle,     \* connections in the pool
  conn,     \* conn[w]: its connection, or None
  txn,      \* txn[c]: the writer whose transaction is open on connection c, or None
  durable,  \* writers whose transaction SQLite committed
  verdict,  \* what the task of the write is going to return
  told      \* what the caller was returned

vars == <<pc, caller, queue, holder, idle, conn, txn, durable, verdict, told>>

Working   == {"begin", "commit", "undo", "rollback"}           \* a statement is running
Connected == Working \cup {"ready", "open", "return", "close"}
Holding   == Connected \cup {"acquire", "unlock"}
Location  == Holding \cup {"idle", "wait", "answer", "over"}
Verdict   == {"none", "ok", "error", "lost"}

Init ==
  /\ pc = [w \in Writer |-> "idle"]
  /\ caller = [w \in Writer |-> "live"]
  /\ queue = <<>>
  /\ holder = None
  /\ idle = Conn
  /\ conn = [w \in Writer |-> None]
  /\ txn = [c \in Conn |-> None]
  /\ durable = {}
  /\ verdict = [w \in Writer |-> "none"]
  /\ told = [w \in Writer |-> "none"]

At(w, l)   == pc[w] = l
Goto(w, l) == pc' = [pc EXCEPT ![w] = l]
Result(w, v) == verdict' = [verdict EXCEPT ![w] = v]

\* The transaction on the connection of w is t from now on.
SetTxn(w, t) == txn' = [txn EXCEPT ![conn[w]] = t]

-----------------------------------------------------------------------------
(* The caller.                                                             *)

Call(w) ==
  /\ At(w, "idle")
  /\ Goto(w, "wait")
  /\ queue' = Append(queue, w)
  /\ UNCHANGED <<caller, holder, idle, conn, txn, durable, verdict, told>>

\* Cancelled while it waits for the gate.
LeaveQueue(w) ==
  /\ At(w, "wait")
  /\ Goto(w, "over")
  /\ caller' = [caller EXCEPT ![w] = "gone"]
  /\ \E i \in DOMAIN queue : queue[i] = w /\ queue' = RemoveAt(queue, i)
  /\ UNCHANGED <<holder, idle, conn, txn, durable, verdict, told>>

\* Cancelled while a task works for it.
Cancel(w) ==
  /\ pc[w] \in (Holding \ {"open", "rollback"}) \cup {"answer"}
  /\ caller' = [caller EXCEPT ![w] = "gone"]
  /\ UNCHANGED <<pc, queue, holder, idle, conn, txn, durable, verdict, told>>

Commit(w) ==
  /\ At(w, "open")
  /\ Goto(w, "commit")
  /\ UNCHANGED <<caller, queue, holder, idle, conn, txn, durable, verdict, told>>

\* Mutation of Abandon: the lease is dropped with the transaction.
AbandonDropsLease(w) ==
  /\ At(w, "open")
  /\ Goto(w, "rollback")
  /\ caller' = [caller EXCEPT ![w] = "gone"]
  /\ holder' = None
  /\ UNCHANGED <<queue, idle, conn, txn, durable, verdict, told>>

\* The caller drops the open transaction: it was cancelled, or one of its own
\* statements failed.
Abandon(w) ==
  /\ At(w, "open")
  /\ Goto(w, "rollback")
  /\ caller' = [caller EXCEPT ![w] = "gone"]
  /\ UNCHANGED <<queue, holder, idle, conn, txn, durable, verdict, told>>

-----------------------------------------------------------------------------
(* The tasks: begin_active_write.                                          *)

\* The gate is granted in FIFO order; BEGIN is spawned without another await.
Admit(w) ==
  /\ holder = None
  /\ At(w, "wait")
  /\ queue # <<>> /\ Head(queue) = w
  /\ holder' = w
  /\ queue' = Tail(queue)
  /\ Goto(w, "acquire")
  /\ UNCHANGED <<caller, idle, conn, txn, durable, verdict, told>>

TakeConnection(w) ==
  /\ At(w, "acquire")
  /\ \/ \E c \in idle :
          /\ idle' = idle \ {c}
          /\ conn' = [conn EXCEPT ![w] = c]
          /\ Goto(w, "begin")
          /\ UNCHANGED verdict
     \/ /\ Goto(w, "unlock") /\ Result(w, "error")
        /\ UNCHANGED <<idle, conn>>
  /\ UNCHANGED <<caller, queue, holder, txn, durable, told>>

\* Mutation of BeginTransaction: after an error the connection is returned.
BeginTransactionOrReturn(w) ==
  /\ At(w, "begin")
  /\ \/ Goto(w, "ready") /\ SetTxn(w, w) /\ UNCHANGED verdict
     \/ /\ Goto(w, "return") /\ Result(w, "error")
        /\ \E t \in {None, w} : SetTxn(w, t)
  /\ UNCHANGED <<caller, queue, holder, idle, conn, durable, told>>

\* After an error the transaction may have begun nevertheless.
BeginTransaction(w) ==
  /\ At(w, "begin")
  /\ \/ Goto(w, "ready") /\ SetTxn(w, w) /\ UNCHANGED verdict
     \/ /\ Goto(w, "close") /\ Result(w, "error")
        /\ \E t \in {None, w} : SetTxn(w, t)
  /\ UNCHANGED <<caller, queue, holder, idle, conn, durable, told>>

\* Mutation of HandOver: nobody drops the transaction of a caller that is gone.
HandOverToCaller(w) ==
  /\ At(w, "ready") /\ caller[w] = "live"
  /\ Goto(w, "open")
  /\ UNCHANGED <<caller, queue, holder, idle, conn, txn, durable, verdict, told>>

\* The transaction reaches its caller, or is dropped with the unread result.
HandOver(w) ==
  /\ At(w, "ready")
  /\ Goto(w, IF caller[w] = "live" THEN "open" ELSE "rollback")
  /\ UNCHANGED <<caller, queue, holder, idle, conn, txn, durable, verdict, told>>

-----------------------------------------------------------------------------
(* The tasks: commit_active_write, rollback_active_write.                  *)

\* Mutation of CommitTransaction: the error of COMMIT is not passed on.
CommitTransactionAnyway(w) ==
  /\ At(w, "commit")
  /\ Result(w, "ok")
  /\ \/ Goto(w, "return") /\ SetTxn(w, None) /\ durable' = durable \cup {w}
     \/ /\ Goto(w, "undo") /\ UNCHANGED durable
        /\ \E t \in {None, w} : SetTxn(w, t)
  /\ UNCHANGED <<caller, queue, holder, idle, conn, told>>

\* After an error the transaction is still open, or SQLite has ended it.
CommitTransaction(w) ==
  /\ At(w, "commit")
  /\ \/ /\ Goto(w, "return") /\ Result(w, "ok")
        /\ SetTxn(w, None) /\ durable' = durable \cup {w}
     \/ /\ Goto(w, "undo") /\ Result(w, "error")
        /\ \E t \in {None, w} : SetTxn(w, t)
        /\ UNCHANGED durable
  /\ UNCHANGED <<caller, queue, holder, idle, conn, told>>

\* ROLLBACK fails, among other reasons, when no transaction is open.
Rollback(w) ==
  /\ pc[w] \in {"undo", "rollback"}
  /\ \/ txn[conn[w]] = w /\ Goto(w, "return") /\ SetTxn(w, None)
     \/ Goto(w, "close") /\ \E t \in {None, txn[conn[w]]} : SetTxn(w, t)
  /\ UNCHANGED <<caller, queue, holder, idle, conn, durable, verdict, told>>

\* The task panics or is aborted around its statement: ActiveWrite is dropped
\* and closed by yet another task.  The statement may have been executed.
\* Before it has a connection the task only drops the lease.
TaskDies(w) ==
  /\ Result(w, "lost")
  /\ \/ /\ At(w, "acquire") /\ Goto(w, "unlock")
        /\ UNCHANGED <<txn, durable>>
     \/ /\ pc[w] \in Working /\ Goto(w, "close")
        /\ \/ UNCHANGED <<txn, durable>>
           \/ At(w, "begin") /\ SetTxn(w, w) /\ UNCHANGED durable
           \/ At(w, "commit") /\ SetTxn(w, None) /\ durable' = durable \cup {w}
           \/ pc[w] \in {"undo", "rollback"} /\ SetTxn(w, None) /\ UNCHANGED durable
  /\ UNCHANGED <<caller, queue, holder, idle, conn, told>>

\* Mutation of ReturnConnection: the connection is taken before it is returned.
ReturnTakenConnection(w) ==
  /\ At(w, "return")
  /\ Goto(w, "unlock")
  /\ conn' = [conn EXCEPT ![w] = None]
  /\ idle' = idle \cup {conn'[w]}
  /\ UNCHANGED <<caller, queue, holder, txn, durable, verdict, told>>

\* ActiveWrite::finish: first the connection, then the lease.
ReturnConnection(w) ==
  /\ At(w, "return")
  /\ Goto(w, "unlock")
  /\ idle' = idle \cup {conn[w]}
  /\ conn' = [conn EXCEPT ![w] = None]
  /\ UNCHANGED <<caller, queue, holder, txn, durable, verdict, told>>

\* spawn_close_with_lease: closing ends the transaction; the pool may open a
\* fresh connection instead.
CloseConnection(w) ==
  /\ At(w, "close")
  /\ Goto(w, "unlock")
  /\ SetTxn(w, None)
  /\ idle' = idle \cup {conn[w]}
  /\ conn' = [conn EXCEPT ![w] = None]
  /\ UNCHANGED <<caller, queue, holder, durable, verdict, told>>

\* WriteLease::drop.
ReleaseLease(w) ==
  /\ At(w, "unlock")
  /\ Goto(w, "answer")
  /\ holder' = None
  /\ UNCHANGED <<caller, queue, idle, conn, txn, durable, verdict, told>>

\* The caller of a task that died is told so while the connection is being closed.
AnswerLost(w) ==
  /\ pc[w] \in {"close", "unlock"}
  /\ verdict[w] = "lost" /\ caller[w] = "live"
  /\ told' = [told EXCEPT ![w] = "lost"]
  /\ UNCHANGED <<pc, caller, queue, holder, idle, conn, txn, durable, verdict>>

Answer(w) ==
  /\ At(w, "answer")
  /\ Goto(w, "over")
  /\ told' = [told EXCEPT ![w] = IF caller[w] = "live" THEN verdict[w] ELSE @]
  /\ UNCHANGED <<caller, queue, holder, idle, conn, txn, durable, verdict>>

-----------------------------------------------------------------------------
Client(w) == Call(w) \/ LeaveQueue(w) \/ Cancel(w)
Decide(w) == Commit(w) \/ Abandon(w)
Work(w) ==
  \/ Admit(w) \/ TakeConnection(w) \/ BeginTransaction(w) \/ HandOver(w)
  \/ CommitTransaction(w) \/ Rollback(w) \/ ReturnConnection(w) \/ CloseConnection(w)
  \/ ReleaseLease(w) \/ Answer(w)

\* No call is under way.
Quiet == (\A w \in Writer : pc[w] = "over") /\ UNCHANGED vars

Next ==
  \/ \E w \in Writer :
       Client(w) \/ Decide(w) \/ Work(w) \/ AnswerLost(w) \/ TaskDies(w)
  \/ Quiet

\* The tasks are scheduled and their statements end (the busy timeout is
\* bounded); who holds an open transaction commits or drops it.
Fairness == \A w \in Writer : WF_vars(Work(w)) /\ WF_vars(Decide(w))

Spec == Init /\ [][Next]_vars /\ Fairness

-----------------------------------------------------------------------------
TypeOK ==
  /\ pc \in [Writer -> Location]
  /\ caller \in [Writer -> {"live", "gone"}]
  /\ queue \in Seq(Writer)
  /\ holder \in Writer \cup {None}
  /\ idle \subseteq Conn
  /\ conn \in [Writer -> Conn \cup {None}]
  /\ txn \in [Conn -> Writer \cup {None}]
  /\ durable \subseteq Writer
  /\ verdict \in [Writer -> Verdict]
  /\ told \in [Writer -> Verdict]

\* As long as SQLite may have a transaction open, on whatever connection and
\* whoever was cancelled or died meanwhile, its lease holds the gate: the next
\* writer of the process never meets a transaction in its way.
LeaseCoversTransaction ==
  \A c \in Conn : txn[c] # None =>
    holder = txn[c] /\ \A d \in Conn : txn[d] # None => d = c

\* No connection goes back to the pool with a transaction on it.
PoolIsClean == \A c \in idle : txn[c] = None

\* Seen from outside transactions are serial, atomic and truly reported.
Serial == INSTANCE SerialWrites WITH
  active <- {w \in Writer : \E c \in Conn : txn[c] = w}
SerialSpec == Serial!SWSpec

\* A writer that waits is admitted, unless it goes away itself.
Served == \A w \in Writer : pc[w] = "wait" ~> pc[w] # "wait"
=============================================================================
