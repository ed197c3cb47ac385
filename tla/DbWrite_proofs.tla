--------------------------- MODULE DbWrite_proofs ---------------------------
(***************************************************************************)
(* Proofs about DbWrite, for every set of writers and connections.         *)
(*                                                                         *)
(* The lease is the key: whoever is anywhere between being admitted and    *)
(* having its connection put away holds the gate (Gate), so what is said   *)
(* of the connections need only be said of one writer at a time.           *)
(***************************************************************************)
EXTENDS DbWrite, TLAPS

MayBeOpen == {"ready", "open", "commit", "undo", "rollback", "close"}
Open      == {"ready", "open", "commit"}
Settled   == {"return", "close", "unlock", "answer", "over"}
Ended     == {"close", "unlock", "answer", "over"}

\* The gate is held by the writer that is inside, and by nobody else.
Gate == \A w \in Writer : pc[w] \in Holding <=> holder = w

\* Who is connected has a connection that is not in the pool.
Connection ==
  \A w \in Writer :
    /\ conn[w] # None <=> pc[w] \in Connected
    /\ conn[w] \notin idle

\* A transaction belongs to the writer that has its connection, and is open
\* for certain until the statement that may end it.
Transaction ==
  /\ \A c \in Conn : txn[c] # None => conn[txn[c]] = c /\ pc[txn[c]] \in MayBeOpen
  /\ \A w \in Writer : pc[w] \in Open => txn[conn[w]] = w

\* What is going to be reported is what became of the transaction.
Report ==
  \A w \in Writer :
    /\ w \in durable => pc[w] \in Settled /\ verdict[w] \in {"ok", "lost"}
    /\ verdict[w] = "ok" => w \in durable
    /\ told[w] # "none" => told[w] = verdict[w] /\ pc[w] \in Ended

IInv == TypeOK /\ Gate /\ Connection /\ Transaction /\ Report

-----------------------------------------------------------------------------
Step(w) ==
  Client(w) \/ Decide(w) \/ Work(w) \/ AnswerLost(w) \/ TaskDies(w)

\* Taking one element out of a sequence leaves a sequence of the same elements.
LEMMA RemoveAtType ==
  ASSUME NEW S, NEW s \in Seq(S), NEW i \in DOMAIN s
  PROVE  RemoveAt(s, i) \in Seq(S)
<1>1. /\ SubSeq(s, 1, i - 1) \in Seq(S)
      /\ SubSeq(s, i + 1, Len(s)) \in Seq(S)
  OBVIOUS
<1> QED  BY <1>1 DEF RemoveAt

\* A statement runs on a connection of the pool, and what becomes of it is typed.
LEMMA TypeStep ==
  ASSUME TypeOK, Connection, Transaction, NEW w \in Writer, Step(w)
  PROVE  TypeOK'
<1> USE NoneAssumption DEF At, Goto, Result, SetTxn,
       TypeOK, Location, Verdict, Working, Connected, Holding,
       Connection, Transaction, MayBeOpen
<1>1. CASE Call(w)
  BY <1>1 DEF Call
<1>2. CASE LeaveQueue(w)
  <2>1. PICK i \in DOMAIN queue : queue' = RemoveAt(queue, i)
    BY <1>2 DEF LeaveQueue
  <2>2. queue' \in Seq(Writer)
    BY <2>1, RemoveAtType
  <2> QED  BY <1>2, <2>2 DEF LeaveQueue
<1>3. CASE Cancel(w)
  BY <1>3 DEF Cancel
<1>4. CASE Commit(w)
  BY <1>4 DEF Commit
<1>5. CASE Abandon(w)
  BY <1>5 DEF Abandon
<1>6. CASE Admit(w)
  BY <1>6 DEF Admit
<1>7. CASE TakeConnection(w)
  BY <1>7 DEF TakeConnection
<1>8. CASE BeginTransaction(w)
  BY <1>8 DEF BeginTransaction
<1>9. CASE HandOver(w)
  BY <1>9 DEF HandOver
<1>10. CASE CommitTransaction(w)
  BY <1>10 DEF CommitTransaction
<1>11. CASE Rollback(w)
  BY <1>11 DEF Rollback
<1>12. CASE TaskDies(w)
  BY <1>12 DEF TaskDies
<1>13. CASE ReturnConnection(w)
  BY <1>13 DEF ReturnConnection
<1>14. CASE CloseConnection(w)
  BY <1>14 DEF CloseConnection
<1>15. CASE ReleaseLease(w)
  BY <1>15 DEF ReleaseLease
<1>16. CASE AnswerLost(w)
  BY <1>16 DEF AnswerLost
<1>17. CASE Answer(w)
  BY <1>17 DEF Answer
<1> QED
  BY <1>1, <1>2, <1>3, <1>4, <1>5, <1>6, <1>7, <1>8, <1>9,
     <1>10, <1>11, <1>12, <1>13, <1>14, <1>15, <1>16, <1>17
  DEF Step, Client, Decide, Work

\* The gate is entered by Admit when it is free and left by ReleaseLease only.
LEMMA GateStep ==
  ASSUME TypeOK, Gate, NEW w \in Writer, Step(w)
  PROVE  Gate'
<1> USE NoneAssumption DEF At, Goto, Result, SetTxn,
       TypeOK, Location, Verdict, Working, Connected, Holding, Gate
<1>1. CASE Call(w)
  BY <1>1 DEF Call
<1>2. CASE LeaveQueue(w)
  BY <1>2 DEF LeaveQueue
<1>3. CASE Cancel(w)
  BY <1>3 DEF Cancel
<1>4. CASE Commit(w)
  BY <1>4 DEF Commit
<1>5. CASE Abandon(w)
  BY <1>5 DEF Abandon
<1>6. CASE Admit(w)
  BY <1>6 DEF Admit
<1>7. CASE TakeConnection(w)
  BY <1>7 DEF TakeConnection
<1>8. CASE BeginTransaction(w)
  BY <1>8 DEF BeginTransaction
<1>9. CASE HandOver(w)
  BY <1>9 DEF HandOver
<1>10. CASE CommitTransaction(w)
  BY <1>10 DEF CommitTransaction
<1>11. CASE Rollback(w)
  BY <1>11 DEF Rollback
<1>12. CASE TaskDies(w)
  BY <1>12 DEF TaskDies
<1>13. CASE ReturnConnection(w)
  BY <1>13 DEF ReturnConnection
<1>14. CASE CloseConnection(w)
  BY <1>14 DEF CloseConnection
<1>15. CASE ReleaseLease(w)
  BY <1>15 DEF ReleaseLease
<1>16. CASE AnswerLost(w)
  BY <1>16 DEF AnswerLost
<1>17. CASE Answer(w)
  BY <1>17 DEF Answer
<1> QED
  BY <1>1, <1>2, <1>3, <1>4, <1>5, <1>6, <1>7, <1>8, <1>9,
     <1>10, <1>11, <1>12, <1>13, <1>14, <1>15, <1>16, <1>17
  DEF Step, Client, Decide, Work

\* Connections are taken from the pool and put back while the gate is held, so
\* no two writers ever have the same one.
LEMMA ConnectionStep ==
  ASSUME TypeOK, Gate, Connection, NEW w \in Writer, Step(w)
  PROVE  Connection'
<1> USE NoneAssumption DEF At, Goto, Result, SetTxn,
       TypeOK, Location, Verdict, Working, Connected, Holding,
       Gate, Connection
<1>1. CASE Call(w)
  BY <1>1 DEF Call
<1>2. CASE LeaveQueue(w)
  BY <1>2 DEF LeaveQueue
<1>3. CASE Cancel(w)
  BY <1>3 DEF Cancel
<1>4. CASE Commit(w)
  BY <1>4 DEF Commit
<1>5. CASE Abandon(w)
  BY <1>5 DEF Abandon
<1>6. CASE Admit(w)
  BY <1>6 DEF Admit
<1>7. CASE TakeConnection(w)
  BY <1>7 DEF TakeConnection
<1>8. CASE BeginTransaction(w)
  BY <1>8 DEF BeginTransaction
<1>9. CASE HandOver(w)
  BY <1>9 DEF HandOver
<1>10. CASE CommitTransaction(w)
  BY <1>10 DEF CommitTransaction
<1>11. CASE Rollback(w)
  BY <1>11 DEF Rollback
<1>12. CASE TaskDies(w)
  BY <1>12 DEF TaskDies
<1>13. CASE ReturnConnection(w)
  BY <1>13 DEF ReturnConnection
<1>14. CASE CloseConnection(w)
  BY <1>14 DEF CloseConnection
<1>15. CASE ReleaseLease(w)
  BY <1>15 DEF ReleaseLease
<1>16. CASE AnswerLost(w)
  BY <1>16 DEF AnswerLost
<1>17. CASE Answer(w)
  BY <1>17 DEF Answer
<1> QED
  BY <1>1, <1>2, <1>3, <1>4, <1>5, <1>6, <1>7, <1>8, <1>9,
     <1>10, <1>11, <1>12, <1>13, <1>14, <1>15, <1>16, <1>17
  DEF Step, Client, Decide, Work

\* A connection is put back only when its transaction has ended.
LEMMA TransactionStep ==
  ASSUME TypeOK, Gate, Connection, Transaction, NEW w \in Writer, Step(w)
  PROVE  Transaction'
<1> USE NoneAssumption DEF At, Goto, Result, SetTxn,
       TypeOK, Location, Verdict, Working, Connected, Holding,
       Gate, Connection, Transaction, MayBeOpen, Open
<1>1. CASE Call(w)
  BY <1>1 DEF Call
<1>2. CASE LeaveQueue(w)
  BY <1>2 DEF LeaveQueue
<1>3. CASE Cancel(w)
  BY <1>3 DEF Cancel
<1>4. CASE Commit(w)
  BY <1>4 DEF Commit
<1>5. CASE Abandon(w)
  BY <1>5 DEF Abandon
<1>6. CASE Admit(w)
  BY <1>6 DEF Admit
<1>7. CASE TakeConnection(w)
  BY <1>7 DEF TakeConnection
<1>8. CASE BeginTransaction(w)
  BY <1>8 DEF BeginTransaction
<1>9. CASE HandOver(w)
  BY <1>9 DEF HandOver
<1>10. CASE CommitTransaction(w)
  BY <1>10 DEF CommitTransaction
<1>11. CASE Rollback(w)
  BY <1>11 DEF Rollback
<1>12. CASE TaskDies(w)
  BY <1>12 DEF TaskDies
<1>13. CASE ReturnConnection(w)
  BY <1>13 DEF ReturnConnection
<1>14. CASE CloseConnection(w)
  BY <1>14 DEF CloseConnection
<1>15. CASE ReleaseLease(w)
  BY <1>15 DEF ReleaseLease
<1>16. CASE AnswerLost(w)
  BY <1>16 DEF AnswerLost
<1>17. CASE Answer(w)
  BY <1>17 DEF Answer
<1> QED
  BY <1>1, <1>2, <1>3, <1>4, <1>5, <1>6, <1>7, <1>8, <1>9,
     <1>10, <1>11, <1>12, <1>13, <1>14, <1>15, <1>16, <1>17
  DEF Step, Client, Decide, Work

\* The report is fixed before it is delivered, and only COMMIT makes a write
\* durable.
LEMMA ReportStep ==
  ASSUME TypeOK, Report, NEW w \in Writer, Step(w)
  PROVE  Report'
<1> USE NoneAssumption DEF At, Goto, Result, SetTxn,
       TypeOK, Location, Verdict, Working, Connected, Holding,
       Report, Settled, Ended
<1>1. CASE Call(w)
  BY <1>1 DEF Call
<1>2. CASE LeaveQueue(w)
  BY <1>2 DEF LeaveQueue
<1>3. CASE Cancel(w)
  BY <1>3 DEF Cancel
<1>4. CASE Commit(w)
  BY <1>4 DEF Commit
<1>5. CASE Abandon(w)
  BY <1>5 DEF Abandon
<1>6. CASE Admit(w)
  BY <1>6 DEF Admit
<1>7. CASE TakeConnection(w)
  BY <1>7 DEF TakeConnection
<1>8. CASE BeginTransaction(w)
  BY <1>8 DEF BeginTransaction
<1>9. CASE HandOver(w)
  BY <1>9 DEF HandOver
<1>10. CASE CommitTransaction(w)
  BY <1>10 DEF CommitTransaction
<1>11. CASE Rollback(w)
  BY <1>11 DEF Rollback
<1>12. CASE TaskDies(w)
  BY <1>12 DEF TaskDies
<1>13. CASE ReturnConnection(w)
  BY <1>13 DEF ReturnConnection
<1>14. CASE CloseConnection(w)
  BY <1>14 DEF CloseConnection
<1>15. CASE ReleaseLease(w)
  BY <1>15 DEF ReleaseLease
<1>16. CASE AnswerLost(w)
  BY <1>16 DEF AnswerLost
<1>17. CASE Answer(w)
  BY <1>17 DEF Answer
<1> QED
  BY <1>1, <1>2, <1>3, <1>4, <1>5, <1>6, <1>7, <1>8, <1>9,
     <1>10, <1>11, <1>12, <1>13, <1>14, <1>15, <1>16, <1>17
  DEF Step, Client, Decide, Work

-----------------------------------------------------------------------------
\* The inductive invariant holds in every reachable state.
THEOREM Invariance == Spec => []IInv
<1>1. Init => IInv
  BY NoneAssumption DEF Init, IInv, TypeOK, Location, Verdict, Working, Connected, Holding,
     Gate, Connection, Transaction, MayBeOpen, Open, Report, Settled, Ended
<1>2. IInv /\ [Next]_vars => IInv'
  <2> SUFFICES ASSUME IInv, [Next]_vars
               PROVE  IInv'
    OBVIOUS
  <2>1. CASE \E w \in Writer : Step(w)
    BY <2>1, TypeStep, GateStep, ConnectionStep, TransactionStep, ReportStep DEF IInv
  <2>2. CASE UNCHANGED vars
    BY <2>2 DEF vars, IInv, TypeOK, Gate, Connection, Transaction, Report
  <2> QED  BY <2>1, <2>2 DEF Next, Step, Quiet
<1> QED  BY <1>1, <1>2, PTL DEF Spec

\* Every variable keeps its type; no connection is ever lost to None.
THEOREM TypeCorrect == Spec => []TypeOK
BY Invariance, PTL DEF IInv

\* Wherever a transaction may be open, and whoever was cancelled or died, its
\* writer still holds the gate and no other transaction is open.
THEOREM LeaseOutlivesTransaction == Spec => []LeaseCoversTransaction
<1>1. IInv => LeaseCoversTransaction
  <2> SUFFICES ASSUME IInv, NEW c \in Conn, txn[c] # None
               PROVE  holder = txn[c] /\ \A d \in Conn : txn[d] # None => d = c
    BY DEF LeaseCoversTransaction
  <2>1. \A d \in Conn : txn[d] # None => holder = txn[d] /\ conn[txn[d]] = d
    BY DEF IInv, TypeOK, Transaction, MayBeOpen, Gate, Holding, Connected, Working
  <2> QED  BY <2>1
<1> QED  BY <1>1, Invariance, PTL

\* No connection returns to the pool with a transaction on it.
THEOREM CleanPool == Spec => []PoolIsClean
<1>1. IInv => PoolIsClean
  BY DEF IInv, TypeOK, Connection, Transaction, PoolIsClean
<1> QED  BY <1>1, Invariance, PTL

-----------------------------------------------------------------------------
Active == {w \in Writer : \E c \in Conn : txn[c] = w}

\* While w is inside, nobody else has a transaction open.
LEMMA AloneInside ==
  ASSUME IInv, NEW w \in Writer, pc[w] \in Holding
  PROVE  /\ \A c \in Conn : txn[c] \in {None, w}
         /\ \A c \in Conn : txn[c] = w => c = conn[w]
BY NoneAssumption DEF IInv, TypeOK, Gate, Transaction, MayBeOpen, Holding, Connected, Working

\* What a statement of w leaves open is then all that is open.
LEMMA OpenAfterStatement ==
  ASSUME IInv, NEW w \in Writer, pc[w] \in Connected,
         NEW t \in {None, w}, SetTxn(w, t)
  PROVE  Active' = {t} \ {None}
<1>1. conn[w] \in Conn /\ txn \in [Conn -> Writer \cup {None}]
  BY DEF IInv, TypeOK, Connection
<1>2. \A c \in Conn : c # conn[w] => txn[c] = None
  BY AloneInside, NoneAssumption DEF Holding
<1>3. \A c \in Conn : txn'[c] = IF c = conn[w] THEN t ELSE None
  BY <1>1, <1>2 DEF SetTxn
<1> QED  BY <1>1, <1>3, NoneAssumption DEF Active

\* What is open while w is connected is what w has open.
LEMMA OpenInside ==
  ASSUME IInv, NEW w \in Writer, pc[w] \in Connected
  PROVE  Active = {txn[conn[w]]} \ {None}
<1>1. conn[w] \in Conn /\ txn \in [Conn -> Writer \cup {None}]
  BY DEF IInv, TypeOK, Connection
<1> QED  BY <1>1, AloneInside, NoneAssumption DEF Active, Holding

\* Every step of the detailed specification is one of SerialWrites, or none.
LEMMA StepRefines ==
  ASSUME IInv, NEW w \in Writer, Step(w)
  PROVE  Serial!SWNext \/ UNCHANGED <<Active, durable, told>>
<1>1. CASE \/ Call(w) \/ LeaveQueue(w) \/ Cancel(w) \/ Commit(w) \/ Abandon(w) \/ Admit(w)
          \/ TakeConnection(w) \/ HandOver(w) \/ ReturnConnection(w) \/ ReleaseLease(w)
  BY <1>1 DEF Active, Call, LeaveQueue, Cancel, Commit, Abandon, Admit,
     TakeConnection, HandOver, ReturnConnection, ReleaseLease
<1>2. ASSUME pc[w] = "begin", NEW t \in {None, w}, SetTxn(w, t), UNCHANGED <<durable, told>>
      PROVE  Serial!Begin(w) \/ UNCHANGED <<Active, durable, told>>
  <2>1. txn[conn[w]] = None /\ w \notin durable /\ told[w] = "none"
    BY <1>2, AloneInside, NoneAssumption DEF IInv, TypeOK, Connection, Transaction, Report,
       MayBeOpen, Settled, Ended, Holding, Connected, Working
  <2>2. Active = {} /\ Active' = {t} \ {None}
    BY <1>2, <2>1, OpenInside, OpenAfterStatement DEF Connected, Working
  <2>3. CASE t = w
    BY <1>2, <2>1, <2>2, <2>3, NoneAssumption DEF Serial!Begin, Active
  <2>4. CASE t = None
    BY <1>2, <2>2, <2>4
  <2> QED  BY <2>3, <2>4
<1>3. ASSUME pc[w] = "commit", SetTxn(w, None), durable' = durable \cup {w}, UNCHANGED told
      PROVE  Serial!Commit(w)
  <2>1. txn[conn[w]] = w
    BY <1>3 DEF IInv, Transaction, Open
  <2>2. Active = {w} /\ Active' = {}
    BY <1>3, <2>1, OpenInside, OpenAfterStatement, NoneAssumption DEF Connected, Working
  <2> QED  BY <1>3, <2>2 DEF Serial!Commit, Active
<1>4. ASSUME pc[w] \in Connected, SetTxn(w, None), UNCHANGED <<durable, told>>
      PROVE  Serial!Abort
  <2>1. Active' = {}
    BY <1>4, OpenAfterStatement
  <2> QED  BY <1>4, <2>1 DEF Serial!Abort, Active
<1>5. ASSUME pc[w] \in Connected, SetTxn(w, txn[conn[w]]), UNCHANGED <<durable, told>>
      PROVE  UNCHANGED <<Active, durable, told>>
  <2>1. UNCHANGED txn
    BY <1>5 DEF SetTxn, IInv, TypeOK, Connection
  <2> QED  BY <1>5, <2>1 DEF Active
<1>6. ASSUME pc[w] \in Ended, told' = [told EXCEPT ![w] = verdict[w]], UNCHANGED <<txn, durable>>,
             verdict[w] = "lost" \/ pc[w] = "answer"
      PROVE  Serial!Tell(w) \/ UNCHANGED <<Active, durable, told>>
  <2>1. /\ told \in [Writer -> Verdict] /\ verdict[w] \in Verdict
        /\ told[w] # "none" => told[w] = verdict[w]
        /\ verdict[w] = "ok" => w \in durable
        /\ verdict[w] = "error" => w \notin durable
    BY DEF IInv, TypeOK, Report
  <2>2. UNCHANGED Active
    BY <1>6 DEF Active
  <2>3. CASE verdict[w] = told[w]
    BY <1>6, <2>1, <2>2, <2>3
  <2>4. CASE verdict[w] # told[w]
    <3>1. verdict[w] # "lost" => w \notin Active
      BY <1>6, NoneAssumption DEF IInv, Transaction, MayBeOpen, Active
    <3> QED  BY <1>6, <2>1, <2>2, <2>4, <3>1 DEF Serial!Tell, Active, Verdict
  <2> QED  BY <2>3, <2>4
<1>7. CASE BeginTransaction(w)
  BY <1>2, <1>7 DEF BeginTransaction, At, Serial!SWNext
<1>8. CASE CommitTransaction(w)
  <2>1. pc[w] = "commit" /\ txn[conn[w]] = w
    BY <1>8 DEF CommitTransaction, At, IInv, Transaction, Open
  <2> QED
    BY <1>3, <1>4, <1>5, <1>8, <2>1
    DEF CommitTransaction, Connected, Working, Serial!SWNext
<1>9. CASE Rollback(w)
  BY <1>4, <1>5, <1>9 DEF Rollback, Connected, Working, Serial!SWNext
<1>10. CASE TaskDies(w)
  <2>1. UNCHANGED told
    BY <1>10 DEF TaskDies
  <2> QED
    BY <1>2, <1>3, <1>4, <1>10, <2>1
    DEF TaskDies, At, Connected, Working, Active, Serial!SWNext
<1>11. CASE CloseConnection(w)
  BY <1>4, <1>11 DEF CloseConnection, At, Connected, Serial!SWNext
<1>12. CASE AnswerLost(w)
  BY <1>6, <1>12 DEF AnswerLost, Ended, Serial!SWNext
<1>13. CASE Answer(w)
  <2>1. CASE caller[w] = "live"
    BY <1>6, <1>13, <2>1 DEF Answer, At, Ended, Serial!SWNext
  <2>2. CASE caller[w] # "live"
    BY <1>13, <2>2 DEF Answer, Active, IInv, TypeOK
  <2> QED  BY <2>1, <2>2
<1> QED
  BY <1>1, <1>7, <1>8, <1>9, <1>10, <1>11, <1>12, <1>13 DEF Step, Client, Decide, Work

\* The write transactions as coded implement the serial, atomic and truthfully
\* reported ones of SerialWrites.
THEOREM Refinement == Spec => SerialSpec
<1>1. Init => Serial!SWInit
  BY NoneAssumption DEF Init, Serial!SWInit
<1>2. IInv /\ [Next]_vars => [Serial!SWNext]_<<Active, durable, told>>
  <2> SUFFICES ASSUME IInv, [Next]_vars
               PROVE  Serial!SWNext \/ UNCHANGED <<Active, durable, told>>
    OBVIOUS
  <2>1. CASE \E w \in Writer : Step(w)
    BY <2>1, StepRefines
  <2>2. CASE UNCHANGED vars
    BY <2>2 DEF vars, Active
  <2> QED  BY <2>1, <2>2 DEF Next, Step, Quiet
<1> QED
  BY <1>1, <1>2, Invariance, PTL DEF Spec, SerialSpec, Serial!SWSpec, Active
=============================================================================
