------------------------- MODULE SyncSession_proofs -------------------------
(***************************************************************************)
(* Proofs about SyncSession, for every number of retries and generations.  *)
(*                                                                         *)
(* The properties are not inductive.  What makes them so is the bookkeeping *)
(* between the lifecycle operation, the handle and the owner generation    *)
(* (Ownership), and what is known, at each place the owner can be at, of   *)
(* the verdict it has published or is bound to publish (Verdict).          *)
(***************************************************************************)
EXTENDS SyncSession, TLAPS

Starting == {"own", "spawn"}
Stopping == {"check", "mark", "cancel", "join", "clear"}

\* The task that runs is the one whose handle is kept; there is none while a
\* start is under way or a stop has joined it.
HandleInv ==
  /\ \A s \in Sess : Live(s) => s = handle
  /\ op \in {"preflight", "own", "spawn", "clear"} => handle = 0
  /\ op = "join" => handle # 0
  /\ handle # 0 => pc[handle] # "none"

\* Generations are used once: what the next start or stop takes is new.
FreshInv ==
  /\ \A s \in Sess : s > next => pc[s] = "none"
  /\ current <= next
  /\ op \in Starting => opId = next /\ opId \in Sess /\ pc[opId] = "none"
  /\ op \in Stopping =>
       router = 0 /\ current = next /\ current \in Sess /\ pc[current] = "none"

\* The router serves the owner, the logger belongs to a running session.
ClientInv ==
  /\ router # 0 => router = current /\ (Live(router) \/ (op = "spawn" /\ opId = router))
  /\ logger # 0 => Live(logger)

Ownership == HandleInv /\ FreshInv /\ ClientInv

\* What is known of the owner s at each location.
VerdictAt(s) ==
  /\ cancelled[s] => pc[s] \in {"finish", "done"} \/ (pc[s] = "publish" /\ after[s] = "finish")
  /\ pc[s] \in {"shutdown", "finish", "done"} => status \in Terminal
  /\ pc[s] = "teardown" /\ (fatal[s] \/ success[s]) => status \in Terminal
  /\ pc[s] = "attempt" => ~fatal[s] /\ ~success[s]
  /\ pc[s] = "publish" /\ after[s] \in {"shutdown", "finish", "teardown"} =>
       say[s] \in Terminal
  /\ pc[s] = "publish" /\ after[s] = "attempt" => ~fatal[s] /\ ~success[s] /\ say[s] = "open"
  /\ pc[s] = "none" => ~cancelled[s]

Verdict == \A s \in Sess : (pc[s] = "none" => ~cancelled[s]) /\ (current = s => VerdictAt(s))

IInv == TypeOK /\ Ownership /\ Verdict

-----------------------------------------------------------------------------
(* What a step of a session task changes of the locations.                 *)

Place == Location \ {"none"}
AfterPlace == {"connect", "attempt", "teardown", "shutdown", "finish"}

\* Task s was running and moves; the other tasks stay where they are.
Moved(s) ==
  /\ Live(s)
  /\ pc' \in [Sess -> Location] /\ pc'[s] # "none"
  /\ say' \in [Sess -> Published]
  /\ after' \in [Sess -> AfterPlace]
  /\ \A t \in Sess \ {s} : pc'[t] = pc[t] /\ say'[t] = say[t] /\ after'[t] = after[t]

\* Goto moves the task and nothing else.
LEMMA GotoMoves ==
  ASSUME TypeOK, NEW s \in Sess, NEW l \in Place, Live(s), Goto(s, l)
  PROVE  Moved(s) /\ pc'[s] = l /\ say'[s] = say[s] /\ after'[s] = after[s]
BY DEF TypeOK, Goto, Moved, Place, AfterPlace, Location

\* Say moves the task to its publication.
LEMMA SayMoves ==
  ASSUME TypeOK, NEW s \in Sess, NEW x \in Published, NEW l \in AfterPlace, Live(s), Say(s, x, l)
  PROVE  Moved(s) /\ pc'[s] = "publish" /\ say'[s] = x /\ after'[s] = l
BY DEF TypeOK, Say, Moved, Location, AfterPlace

TaskStep(s) == Step(s) \/ AttemptEnds(s)

\* Every step of a task is such a move.  It ends the task only in Finish.
LEMMA TaskMoves ==
  ASSUME TypeOK, NEW s \in Sess, TaskStep(s)
  PROVE  Moved(s) /\ (pc'[s] = "done" => Finish(s))
<1> USE DEF At, Live, Place, AfterPlace, Published, Terminal, Location
<1>1. CASE Setup(s)
  <2>1. CASE Goto(s, "register")
    BY <1>1, <2>1, GotoMoves DEF Setup
  <2>2. CASE Say(s, "error", "finish")
    BY <1>1, <2>2, SayMoves DEF Setup
  <2> QED  BY <1>1, <2>1, <2>2 DEF Setup
<1>2. CASE Register(s)
  <2>1. CASE Goto(s, "loop")
    BY <1>2, <2>1, GotoMoves DEF Register
  <2>2. CASE Goto(s, "finish")
    BY <1>2, <2>2, GotoMoves DEF Register
  <2> QED  BY <1>2, <2>1, <2>2 DEF Register
<1>3. CASE LoopHead(s)
  <2>1. CASE Goto(s, "shutdown")
    BY <1>3, <2>1, GotoMoves DEF LoopHead
  <2>2. CASE Say(s, "connecting", "connect")
    BY <1>3, <2>2, SayMoves DEF LoopHead
  <2> QED  BY <1>3, <2>1, <2>2 DEF LoopHead
<1>4. CASE Connect(s)
  <2>1. CASE Goto(s, "shutdown")
    BY <1>4, <2>1, GotoMoves DEF Connect
  <2>2. CASE Goto(s, "handshake")
    BY <1>4, <2>2, GotoMoves DEF Connect
  <2>3. CASE Goto(s, "retry")
    BY <1>4, <2>3, GotoMoves DEF Connect
  <2>4. CASE Say(s, "error", "shutdown")
    BY <1>4, <2>4, SayMoves DEF Connect
  <2> QED  BY <1>4, <2>1, <2>2, <2>3, <2>4 DEF Connect
<1>5. CASE Handshake(s)
  <2>1. CASE Goto(s, "shutdown")
    BY <1>5, <2>1, GotoMoves DEF Handshake
  <2>2. CASE Goto(s, "retry")
    BY <1>5, <2>2, GotoMoves DEF Handshake
  <2>3. CASE Say(s, "error", "shutdown")
    BY <1>5, <2>3, SayMoves DEF Handshake
  <2>4. CASE Say(s, "open", "attempt")
    BY <1>5, <2>4, SayMoves DEF Handshake
  <2> QED  BY <1>5, <2>1, <2>2, <2>3, <2>4 DEF Handshake
<1>6. CASE AttemptEnds(s)
  <2>1. CASE Goto(s, "teardown")
    BY <1>6, <2>1, GotoMoves DEF AttemptEnds
  <2>2. CASE Say(s, "error", "teardown")
    BY <1>6, <2>2, SayMoves DEF AttemptEnds
  <2>3. CASE Say(s, "completed", "teardown")
    BY <1>6, <2>3, SayMoves DEF AttemptEnds
  <2> QED  BY <1>6, <2>1, <2>2, <2>3 DEF AttemptEnds
<1>7. CASE Teardown(s)
  <2>1. CASE Goto(s, "shutdown")
    BY <1>7, <2>1, GotoMoves DEF Teardown
  <2>2. CASE Goto(s, "retry")
    BY <1>7, <2>2, GotoMoves DEF Teardown
  <2>3. CASE Say(s, "error", "shutdown")
    BY <1>7, <2>3, SayMoves DEF Teardown
  <2> QED  BY <1>7, <2>1, <2>2, <2>3 DEF Teardown
<1>8. CASE Retry(s)
  <2>1. CASE Goto(s, "shutdown")
    BY <1>8, <2>1, GotoMoves DEF Retry
  <2>2. CASE Say(s, "error", "shutdown")
    BY <1>8, <2>2, SayMoves DEF Retry
  <2>3. CASE Goto(s, "backoff")
    BY <1>8, <2>3, GotoMoves DEF Retry
  <2> QED  BY <1>8, <2>1, <2>2, <2>3 DEF Retry
<1>9. CASE Backoff(s)
  <2>1. CASE Goto(s, "shutdown")
    BY <1>9, <2>1, GotoMoves DEF Backoff
  <2>2. CASE Goto(s, "loop")
    BY <1>9, <2>2, GotoMoves DEF Backoff
  <2> QED  BY <1>9, <2>1, <2>2 DEF Backoff
<1>10. CASE Shutdown(s)
  <2>1. CASE Goto(s, "finish")
    BY <1>10, <2>1, GotoMoves DEF Shutdown
  <2>2. CASE Say(s, "error", "finish")
    BY <1>10, <2>2, SayMoves DEF Shutdown
  <2> QED  BY <1>10, <2>1, <2>2 DEF Shutdown
<1>11. CASE Publish(s)
  <2>1. after[s] \in AfterPlace
    BY DEF TypeOK
  <2> QED  BY <1>11, <2>1 DEF Publish, Write, TypeOK, Moved
<1>12. CASE Finish(s)
  BY <1>12, GotoMoves DEF Finish
<1> QED
  BY <1>1, <1>2, <1>3, <1>4, <1>5, <1>6, <1>7, <1>8, <1>9, <1>10, <1>11, <1>12 DEF TaskStep, Step
-----------------------------------------------------------------------------
\* Every step keeps the types.
LEMMA TypeStep == TypeOK /\ [Next]_vars => TypeOK'
<1> SUFFICES ASSUME TypeOK, [Next]_vars PROVE TypeOK'
  OBVIOUS
<1> USE SessionAssumption DEF TypeOK, shared, opVars, taskVars
<1>1. CASE StartBegin
  BY <1>1 DEF StartBegin, OpLocation, Status, Location, Sess, Live
<1>2. CASE Preflight
  BY <1>2 DEF Preflight, OpLocation, Status, Location, Sess, Live
<1>3. CASE StartOwns
  BY <1>3 DEF StartOwns, OpLocation, Status, Location, Sess, Live
<1>4. CASE StartSpawns
  BY <1>4 DEF StartSpawns, OpLocation, Status, Location, Sess, Live
<1>5. CASE StopBegin
  BY <1>5 DEF StopBegin, OpLocation, Status, Location, Sess, Live
<1>6. CASE StopChecks
  BY <1>6 DEF StopChecks, OpLocation, Status, Location, Sess, Live
<1>7. CASE StopMarks
  BY <1>7 DEF StopMarks, OpLocation, Status, Location, Sess, Live
<1>8. CASE StopCancels
  BY <1>8 DEF StopCancels, OpLocation, Status, Location, Sess, Live
<1>9. CASE StopJoins
  BY <1>9 DEF StopJoins, OpLocation, Status, Location, Sess, Live
<1>10. CASE StopTimesOut
  BY <1>10 DEF StopTimesOut, OpLocation, Status, Location, Sess, Live
<1>11. CASE StopClears
  BY <1>11 DEF StopClears, OpLocation, Status, Location, Sess, Live
<1>12. ASSUME NEW s \in Sess, TaskStep(s) PROVE TypeOK'
  <2>1. Moved(s)
    BY <1>12, TaskMoves
  <2> USE <2>1 DEF Moved, AfterPlace
  <2>2. CASE Setup(s)
    BY <2>2 DEF Setup
  <2>3. CASE Register(s)
    BY <2>3 DEF Register
  <2>4. CASE LoopHead(s)
    BY <2>4 DEF LoopHead
  <2>5. CASE Connect(s)
    BY <2>5 DEF Connect
  <2>6. CASE Handshake(s)
    BY <2>6 DEF Handshake
  <2>7. CASE AttemptEnds(s)
    BY <2>7 DEF AttemptEnds
  <2>8. CASE Teardown(s)
    BY <2>8 DEF Teardown
  <2>9. CASE Retry(s)
    BY <2>9 DEF Retry
  <2>10. CASE Backoff(s)
    BY <2>10 DEF Backoff
  <2>11. CASE Shutdown(s)
    BY <2>11 DEF Shutdown
  <2>12. CASE Publish(s)
    BY <2>12 DEF Publish, Write, Status, Published, Terminal, Sess
  <2>13. CASE Finish(s)
    BY <2>13 DEF Finish, Status, Published, Terminal, Sess
  <2> QED  BY <1>12, <2>2, <2>3, <2>4, <2>5, <2>6, <2>7, <2>8, <2>9, <2>10, <2>11, <2>12,
       <2>13 DEF TaskStep, Step
<1>13. CASE UNCHANGED vars
  BY <1>13 DEF vars
<1> QED
  BY <1>1, <1>2, <1>3, <1>4, <1>5, <1>6, <1>7, <1>8, <1>9, <1>10, <1>11, <1>12, <1>13 DEF Next,
       Start, Stop, TaskStep, Rest
-----------------------------------------------------------------------------
(* Ownership.                                                              *)

\* A task step leaves operation, handle and generations alone; it touches
\* router and logger only to register itself or, in Finish, to clean up.
LEMMA TaskFrame ==
  ASSUME NEW s \in Sess, TaskStep(s)
  PROVE  /\ UNCHANGED <<op, opId, next, current, handle>>
         /\ Finish(s) \/ (router' = router /\ logger' \in {logger, s})
<1> USE DEF opVars, shared
<1>1. CASE Setup(s)
  BY <1>1 DEF Setup
<1>2. CASE Register(s)
  BY <1>2 DEF Register
<1>3. CASE LoopHead(s)
  BY <1>3 DEF LoopHead
<1>4. CASE Connect(s)
  BY <1>4 DEF Connect
<1>5. CASE Handshake(s)
  BY <1>5 DEF Handshake
<1>6. CASE AttemptEnds(s)
  BY <1>6 DEF AttemptEnds
<1>7. CASE Teardown(s)
  BY <1>7 DEF Teardown
<1>8. CASE Retry(s)
  BY <1>8 DEF Retry
<1>9. CASE Backoff(s)
  BY <1>9 DEF Backoff
<1>10. CASE Shutdown(s)
  BY <1>10 DEF Shutdown
<1>11. CASE Publish(s)
  BY <1>11 DEF Publish, Write
<1>12. CASE Finish(s)
  BY <1>12 DEF Finish
<1> QED
  BY <1>1, <1>2, <1>3, <1>4, <1>5, <1>6, <1>7, <1>8, <1>9, <1>10, <1>11, <1>12 DEF TaskStep, Step

\* Every step keeps the bookkeeping of the ownership.
LEMMA OwnershipStep == TypeOK /\ Ownership /\ [Next]_vars => Ownership'
<1> SUFFICES ASSUME TypeOK, Ownership, [Next]_vars PROVE Ownership'
  OBVIOUS
<1> USE SessionAssumption DEF Ownership, HandleInv, FreshInv, ClientInv, Starting, Stopping
<1>1. CASE StartBegin
  BY <1>1 DEF StartBegin, TypeOK, Live, Sess, Location, opVars, shared, taskVars
<1>2. CASE Preflight
  BY <1>2 DEF Preflight, TypeOK, Live, Sess, Location, opVars, shared, taskVars
<1>3. CASE StartOwns
  BY <1>3 DEF StartOwns, TypeOK, Live, Sess, Location, opVars, shared, taskVars
<1>4. CASE StartSpawns
  BY <1>4 DEF StartSpawns, TypeOK, Live, Sess, Location, opVars, shared, taskVars
<1>5. CASE StopBegin
  BY <1>5 DEF StopBegin, TypeOK, Live, Sess, Location, opVars, shared, taskVars
<1>6. CASE StopChecks
  BY <1>6 DEF StopChecks, TypeOK, Live, Sess, Location, opVars, shared, taskVars
<1>7. CASE StopMarks
  BY <1>7 DEF StopMarks, TypeOK, Live, Sess, Location, opVars, shared, taskVars
<1>8. CASE StopCancels
  BY <1>8 DEF StopCancels, TypeOK, Live, Sess, Location, opVars, shared, taskVars
<1>9. CASE StopJoins
  BY <1>9 DEF StopJoins, TypeOK, Live, Sess, Location, opVars, shared, taskVars
<1>10. CASE StopTimesOut
  BY <1>10 DEF StopTimesOut, TypeOK, Live, Sess, Location, opVars, shared, taskVars
<1>11. CASE StopClears
  BY <1>11 DEF StopClears, TypeOK, Live, Sess, Location, opVars, shared, taskVars
<1>12. ASSUME NEW s \in Sess, TaskStep(s) PROVE Ownership'
  <2>1. Moved(s) /\ (pc'[s] = "done" => Finish(s))
    BY <1>12, TaskMoves
  <2>2. /\ UNCHANGED <<op, opId, next, current, handle>>
        /\ Finish(s) \/ (router' = router /\ logger' \in {logger, s})
    BY <1>12, TaskFrame
  <2>3. s = handle /\ Live(s) /\ \A t \in Sess : Live(t)' => Live(t)
    BY <2>1 DEF Moved, Live
  <2>4. HandleInv'
    BY <2>1, <2>2, <2>3 DEF Moved, Live, TypeOK
  <2>5. FreshInv'
    <3>1. pc[s] # "none" /\ s # 0 /\ op \notin Starting
      BY <2>1, <2>3 DEF Moved, Live, Sess
    <3>2. \A t \in Sess : pc[t] = "none" => pc'[t] = "none"
      BY <2>1, <3>1 DEF Moved
    <3> QED  BY <2>2, <3>1, <3>2 DEF Finish
  <2>6. ClientInv'
    <3>1. CASE Finish(s)
      BY <3>1, <2>1, <2>2 DEF Finish, Moved, Live, TypeOK, Sess
    <3>2. CASE ~Finish(s)
      BY <3>2, <2>1, <2>2 DEF Moved, Live, TypeOK, Sess
    <3> QED  BY <3>1, <3>2
  <2> QED  BY <2>4, <2>5, <2>6
<1>13. CASE UNCHANGED vars
  BY <1>13 DEF vars, opVars, shared, taskVars, Live
<1> QED
  BY <1>1, <1>2, <1>3, <1>4, <1>5, <1>6, <1>7, <1>8, <1>9, <1>10, <1>11, <1>12, <1>13 DEF Next,
       Start, Stop, TaskStep, Rest
-----------------------------------------------------------------------------
(* The verdict.                                                            *)

\* A task step leaves the flags of the other tasks and a verdict alone.
LEMMA TaskKeeps ==
  ASSUME TypeOK, NEW s \in Sess, TaskStep(s)
  PROVE  /\ status \in Terminal => status' = status
         /\ \A t \in Sess \ {s} : /\ cancelled'[t] = cancelled[t]
                                  /\ fatal'[t] = fatal[t] /\ success'[t] = success[t]
<1> USE DEF TypeOK, shared
<1>1. CASE Setup(s)
  BY <1>1 DEF Setup
<1>2. CASE Register(s)
  BY <1>2 DEF Register
<1>3. CASE LoopHead(s)
  BY <1>3 DEF LoopHead
<1>4. CASE Connect(s)
  BY <1>4 DEF Connect
<1>5. CASE Handshake(s)
  BY <1>5 DEF Handshake
<1>6. CASE AttemptEnds(s)
  BY <1>6 DEF AttemptEnds
<1>7. CASE Teardown(s)
  BY <1>7 DEF Teardown
<1>8. CASE Retry(s)
  BY <1>8 DEF Retry
<1>9. CASE Backoff(s)
  BY <1>9 DEF Backoff
<1>10. CASE Shutdown(s)
  BY <1>10 DEF Shutdown
<1>11. CASE Publish(s)
  BY <1>11 DEF Publish, Write, Terminal
<1>12. CASE Finish(s)
  BY <1>12 DEF Finish, Terminal
<1> QED
  BY <1>1, <1>2, <1>3, <1>4, <1>5, <1>6, <1>7, <1>8, <1>9, <1>10, <1>11, <1>12 DEF TaskStep, Step

\* A step of the owner keeps its own verdict on its way.
LEMMA OwnerStep ==
  ASSUME TypeOK, NEW s \in Sess, TaskStep(s), current = s, current' = s, VerdictAt(s), Moved(s)
  PROVE  VerdictAt(s)'
<1>1. /\ pc'[s] # "none"
      /\ status \in Terminal => status' = status
  BY TaskKeeps DEF Moved
<1> USE <1>1 DEF VerdictAt, TypeOK, At, Place, AfterPlace, Location, Published, Terminal, shared
<1>2. CASE Setup(s)
  <2>1. CASE Goto(s, "register")
    BY <1>2, <2>1 DEF Setup, Goto
  <2>2. CASE Say(s, "error", "finish")
    BY <1>2, <2>2 DEF Setup, Say
  <2> QED  BY <1>2, <2>1, <2>2 DEF Setup
<1>3. CASE Register(s)
  <2>1. CASE Goto(s, "loop")
    BY <1>3, <2>1 DEF Register, Goto
  <2>2. CASE Goto(s, "finish")
    BY <1>3, <2>2 DEF Register, Goto
  <2> QED  BY <1>3, <2>1, <2>2 DEF Register
<1>4. CASE LoopHead(s)
  <2>1. CASE cancelled[s] /\ Goto(s, "shutdown")
    BY <1>4, <2>1 DEF LoopHead, Goto
  <2>2. CASE Say(s, "connecting", "connect")
    BY <1>4, <2>2 DEF LoopHead, Say
  <2> QED  BY <1>4, <2>1, <2>2 DEF LoopHead
<1>5. CASE Connect(s)
  <2>1. CASE cancelled[s] /\ Goto(s, "shutdown")
    BY <1>5, <2>1 DEF Connect, Goto
  <2>2. CASE Goto(s, "handshake")
    BY <1>5, <2>2 DEF Connect, Goto
  <2>3. CASE Goto(s, "retry")
    BY <1>5, <2>3 DEF Connect, Goto
  <2>4. CASE Say(s, "error", "shutdown")
    BY <1>5, <2>4 DEF Connect, Say
  <2> QED  BY <1>5, <2>1, <2>2, <2>3, <2>4 DEF Connect
<1>6. CASE Handshake(s)
  <2>1. CASE cancelled[s] /\ Goto(s, "shutdown")
    BY <1>6, <2>1 DEF Handshake, Goto
  <2>2. CASE Goto(s, "retry")
    BY <1>6, <2>2 DEF Handshake, Goto
  <2>3. CASE Say(s, "error", "shutdown")
    BY <1>6, <2>3 DEF Handshake, Say
  <2>4. CASE Say(s, "open", "attempt")
    BY <1>6, <2>4 DEF Handshake, Say
  <2> QED  BY <1>6, <2>1, <2>2, <2>3, <2>4 DEF Handshake
<1>7. CASE AttemptEnds(s)
  <2>1. CASE Goto(s, "teardown") /\ UNCHANGED fatal
    BY <1>7, <2>1 DEF AttemptEnds, Goto
  <2>2. CASE Say(s, "error", "teardown")
    BY <1>7, <2>2 DEF AttemptEnds, Say
  <2>3. CASE Say(s, "completed", "teardown")
    BY <1>7, <2>3 DEF AttemptEnds, Say
  <2> QED  BY <1>7, <2>1, <2>2, <2>3 DEF AttemptEnds
<1>8. CASE Teardown(s)
  <2>1. CASE (success[s] \/ fatal[s]) /\ Goto(s, "shutdown")
    BY <1>8, <2>1 DEF Teardown, Goto
  <2>2. CASE Goto(s, "retry")
    BY <1>8, <2>2 DEF Teardown, Goto
  <2>3. CASE Say(s, "error", "shutdown")
    BY <1>8, <2>3 DEF Teardown, Say
  <2> QED  BY <1>8, <2>1, <2>2, <2>3 DEF Teardown
<1>9. CASE Retry(s)
  <2>1. CASE cancelled[s] /\ Goto(s, "shutdown")
    BY <1>9, <2>1 DEF Retry, Goto
  <2>2. CASE Say(s, "error", "shutdown")
    BY <1>9, <2>2 DEF Retry, Say
  <2>3. CASE Goto(s, "backoff")
    BY <1>9, <2>3 DEF Retry, Goto
  <2> QED  BY <1>9, <2>1, <2>2, <2>3 DEF Retry
<1>10. CASE Backoff(s)
  <2>1. CASE Goto(s, "shutdown")
    BY <1>10, <2>1 DEF Backoff, Goto
  <2>2. CASE Goto(s, "loop")
    BY <1>10, <2>2 DEF Backoff, Goto
  <2> QED  BY <1>10, <2>1, <2>2 DEF Backoff
<1>11. CASE Shutdown(s)
  <2>1. CASE Goto(s, "finish")
    BY <1>11, <2>1 DEF Shutdown, Goto
  <2>2. CASE Say(s, "error", "finish")
    BY <1>11, <2>2 DEF Shutdown, Say
  <2> QED  BY <1>11, <2>1, <2>2 DEF Shutdown
<1>12. CASE Publish(s)
  BY <1>12 DEF Publish, Write, Goto
<1>13. CASE Finish(s)
  BY <1>13 DEF Finish, Goto
<1> QED
  BY <1>2, <1>3, <1>4, <1>5, <1>6, <1>7, <1>8, <1>9, <1>10, <1>11, <1>12, <1>13 DEF TaskStep, Step

\* Every step keeps the verdict: a generation that becomes current is new, and
\* no task but the owner's can undo what is known of the owner.
LEMMA VerdictStep == TypeOK /\ Ownership /\ Verdict /\ [Next]_vars => Verdict'
<1> SUFFICES ASSUME TypeOK, Ownership, Verdict, [Next]_vars PROVE Verdict'
  OBVIOUS
<1> USE SessionAssumption DEF Verdict
<1>1. CASE StartBegin
  BY <1>1 DEF StartBegin, VerdictAt, Ownership, HandleInv, FreshInv, Starting, Stopping, TypeOK,
       Sess, Live,
     opVars, shared, taskVars
<1>2. CASE Preflight
  BY <1>2 DEF Preflight, VerdictAt, Ownership, HandleInv, FreshInv, Starting, Stopping, TypeOK,
       Sess, Live,
     opVars, shared, taskVars
<1>3. CASE StartOwns
  BY <1>3 DEF StartOwns, VerdictAt, Ownership, HandleInv, FreshInv, Starting, Stopping, TypeOK,
       Sess, Live,
     opVars, shared, taskVars
<1>4. CASE StartSpawns
  BY <1>4 DEF StartSpawns, VerdictAt, Ownership, HandleInv, FreshInv, Starting, Stopping, TypeOK,
       Sess, Live,
     opVars, shared, taskVars
<1>5. CASE StopBegin
  BY <1>5 DEF StopBegin, VerdictAt, Ownership, HandleInv, FreshInv, Starting, Stopping, TypeOK,
       Sess, Live,
     opVars, shared, taskVars
<1>6. CASE StopChecks
  BY <1>6 DEF StopChecks, VerdictAt, Ownership, HandleInv, FreshInv, Starting, Stopping, TypeOK,
       Sess, Live,
     opVars, shared, taskVars
<1>7. CASE StopMarks
  BY <1>7 DEF StopMarks, VerdictAt, Ownership, HandleInv, FreshInv, Starting, Stopping, TypeOK,
       Sess, Live,
     opVars, shared, taskVars
<1>8. CASE StopCancels
  BY <1>8 DEF StopCancels, VerdictAt, Ownership, HandleInv, FreshInv, Starting, Stopping, TypeOK,
       Sess, Live,
     opVars, shared, taskVars
<1>9. CASE StopJoins
  BY <1>9 DEF StopJoins, VerdictAt, Ownership, HandleInv, FreshInv, Starting, Stopping, TypeOK,
       Sess, Live,
     opVars, shared, taskVars
<1>10. CASE StopTimesOut
  BY <1>10 DEF StopTimesOut, VerdictAt, Ownership, HandleInv, FreshInv, Starting, Stopping,
       TypeOK, Sess, Live,
     opVars, shared, taskVars
<1>11. CASE StopClears
  BY <1>11 DEF StopClears, VerdictAt, Ownership, HandleInv, FreshInv, Starting, Stopping, TypeOK,
       Sess, Live,
     opVars, shared, taskVars
<1>12. ASSUME NEW s \in Sess, TaskStep(s) PROVE Verdict'
  <2>1. Moved(s) /\ current' = current
    BY <1>12, TaskMoves, TaskFrame
  <2>2. current = s => VerdictAt(s)'
    BY <1>12, <2>1, OwnerStep
  <2>3. \A t \in Sess \ {s} : (pc'[t] = "none" => ~cancelled'[t]) /\ (current' = t => VerdictAt(t)')
    BY <1>12, <2>1, TaskKeeps DEF Moved, VerdictAt
  <2> QED  BY <2>1, <2>2, <2>3 DEF Moved
<1>13. CASE UNCHANGED vars
  BY <1>13 DEF vars, opVars, shared, taskVars, VerdictAt
<1> QED
  BY <1>1, <1>2, <1>3, <1>4, <1>5, <1>6, <1>7, <1>8, <1>9, <1>10, <1>11, <1>12, <1>13 DEF Next,
       Start, Stop, TaskStep, Rest

-----------------------------------------------------------------------------
(* Theorems.                                                               *)

\* The inductive invariant holds in every reachable state.
THEOREM Invariance == Spec => []IInv
<1>1. Init => IInv
  BY SessionAssumption DEF Init, IInv, TypeOK, OpLocation, Status, Published, Terminal, Location,
     Ownership, HandleInv, FreshInv, ClientInv, Starting, Stopping, Live, Verdict, VerdictAt, Sess
<1>2. IInv /\ [Next]_vars => IInv'
  BY TypeStep, OwnershipStep, VerdictStep DEF IInv
<1> QED
  BY <1>1, <1>2, PTL DEF Spec

\* The variables keep their types, whatever the interleaving.
THEOREM TypeCorrect == Spec => []TypeOK
BY Invariance, PTL DEF IInv

\* At most one session task runs, also after a stop that gave up waiting.
THEOREM SingleSession == Spec => []OneSession
<1>1. IInv => OneSession
  BY DEF IInv, Ownership, HandleInv, OneSession
<1> QED
  BY <1>1, Invariance, PTL

\* A stop that returns Ok leaves no task behind.
THEOREM StopLeavesNothing == Spec => []StopIsFinal
<1>1. IInv => StopIsFinal
  BY DEF IInv, Ownership, HandleInv, StopIsFinal, Sess
<1> QED
  BY <1>1, Invariance, PTL

\* Commands reach the running owner or nobody.
THEOREM RoutedToOwner == Spec => []RouterServesOwner
<1>1. IInv => RouterServesOwner
  BY DEF IInv, Ownership, ClientInv, RouterServesOwner
<1> QED
  BY <1>1, Invariance, PTL

\* A session that was not stopped ends with a verdict.
THEOREM EndsWithVerdict == Spec => []VerdictWhenDone
<1>1. IInv => VerdictWhenDone
  BY DEF IInv, Verdict, VerdictAt, VerdictWhenDone
<1> QED
  BY <1>1, Invariance, PTL

\* Of the task steps only Publish and Finish write the status.
LEMMA TaskStatus ==
  ASSUME NEW s \in Sess, TaskStep(s), status' # status
  PROVE  Publish(s) \/ Finish(s)
BY DEF TaskStep, Step, shared, Setup, Register, LoopHead, Connect, Handshake, AttemptEnds,
       Teardown, Retry, Backoff, Shutdown

\* A published status comes from the running owner.
THEOREM PublishedByOwner == Spec => OnlyOwnerPublishes
<1>1. ASSUME IInv, [Next]_vars, status' # status, status' \in Published
      PROVE  current \in Sess /\ Live(current)
  <2>1. PICK s \in Sess : TaskStep(s)
    BY <1>1 DEF Next, Start, Stop, Rest, TaskStep, vars, shared, opVars, StartBegin, Preflight,
       StartOwns, StartSpawns, StopBegin, StopChecks, StopMarks, StopCancels, StopJoins,
       StopTimesOut, StopClears, Published, Terminal
  <2>2. CASE Publish(s)
    BY <1>1, <2>2 DEF Publish, Write, At, Live
  <2>3. CASE Finish(s)
    BY <1>1, <2>3 DEF Finish, Published, Terminal
  <2> QED  BY <1>1, <2>1, <2>2, <2>3, TaskStatus
<1> QED
  BY <1>1, Invariance, PTL DEF Spec, OnlyOwnerPublishes

\* Only a start or a stop takes a verdict back.
THEOREM VerdictIsFinal == Spec => VerdictStays
<1>1. ASSUME IInv, [Next]_vars, status \in Terminal, status' # status
      PROVE  op' # op
  <2>1. CASE \E s \in Sess : TaskStep(s)
    BY <1>1, <2>1, TaskKeeps DEF IInv
  <2>2. CASE Start \/ Stop
    BY <1>1, <2>2 DEF Start, Stop, shared, StartBegin, Preflight, StartOwns, StartSpawns,
       StopBegin, StopChecks, StopMarks, StopCancels, StopJoins, StopTimesOut, StopClears
  <2> QED  BY <1>1, <2>1, <2>2 DEF Next, Rest, TaskStep, vars, shared
<1> QED
  BY <1>1, Invariance, PTL DEF Spec, VerdictStays

\* The unconditional cleanup of a session finds no newer logger or router to
\* take away.
THEOREM CleanupHarmsNobody == Spec => CleanupIsOwn
<1>1. ASSUME IInv, [Next]_vars, NEW s \in Sess
      PROVE  /\ logger = s /\ logger' # s => pc'[s] = "done" \/ current # s
             /\ router = s /\ router' # s => pc'[s] = "done" \/ current' # s
  <2>1. CASE \E t \in Sess : TaskStep(t)
    <3>1. PICK t \in Sess : TaskStep(t)
      BY <2>1
    <3>2. /\ Moved(t) /\ UNCHANGED current
          /\ Finish(t) \/ (router' = router /\ logger' \in {logger, t})
      BY <1>1, <3>1, TaskMoves, TaskFrame DEF IInv
    <3>3. logger = s => s = t
      BY <1>1, <3>2 DEF IInv, Ownership, HandleInv, ClientInv, Moved, Sess
    <3>4. router = s /\ Finish(t) /\ router' # s => s = t
      BY <3>2 DEF Finish
    <3>5. Finish(t) => pc'[t] = "done"
      BY <1>1 DEF Finish, Goto, IInv, TypeOK
    <3> QED  BY <3>2, <3>3, <3>4, <3>5
  <2>2. CASE Start \/ Stop
    BY <1>1, <2>2 DEF IInv, TypeOK, Ownership, HandleInv, FreshInv, ClientInv, Stopping, Starting,
         Start, Stop,
       shared, StartBegin, Preflight, StartOwns, StartSpawns, StopBegin, StopChecks, StopMarks,
       StopCancels, StopJoins, StopTimesOut, StopClears, Live, Sess
  <2> QED  BY <1>1, <2>1, <2>2 DEF Next, Rest, TaskStep, vars, shared
<1>2. IInv /\ [Next]_vars =>
        [\A s \in Sess :
           /\ logger = s /\ logger' # s => pc'[s] = "done" \/ current # s
           /\ router = s /\ router' # s => pc'[s] = "done" \/ current' # s]_vars
  BY <1>1
<1> QED
  BY <1>2, Invariance, PTL DEF Spec, CleanupIsOwn
=============================================================================
