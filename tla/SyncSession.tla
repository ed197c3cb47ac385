---------------------------- MODULE SyncSession -----------------------------
(***************************************************************************)
(* Ownership and lifecycle of the manual sync session (sync_service.rs):   *)
(* start_manual_sync, stop_sync_session and the session task they control, *)
(* from its setup through the attempts and their retries to the final      *)
(* cleanup.  What happens inside an attempt is the subject of SyncManifest *)
(* and SyncMessages; here it only ends, in one of the ways it can end.     *)
(*                                                                         *)
(* start and stop hold the lifecycle mutex from beginning to end, so one   *)
(* of them runs at a time ("op").  They and the session meet in the owner  *)
(* commit mutex, under which the owner generation is changed, and checked  *)
(* before a status is published.  Each action here is one such critical    *)
(* section or one step between awaits.                                     *)
(***************************************************************************)
EXTENDS Naturals, FiniteSets

CONSTANTS
  MaxRetries,   \* MAX_SYNC_RETRIES
  MaxId         \* bound on the generations: starts and stops

ASSUME SessionAssumption == MaxRetries \in Nat /\ MaxId \in Nat

Sess == 1 .. MaxId

VARIABLES
  op,         \* where the start or stop that holds the lifecycle mutex is
  opId,       \* the session it starts, or found running
  next,       \* next_session_id
  current,    \* current_session_id: the owner generation
  router,     \* the session the command router sends to, or 0
  status,     \* connection_status
  logger,     \* the session current_logger and current_log_path belong to, or 0
  handle,     \* the SyncSessionHandle kept in SyncState, or 0
  pc,         \* pc[s]: where the task of session s is
  say,        \* the status it is about to publish
  after,      \* and where it goes on
  cancelled,  \* its cancel token
  retries,    \* retry_count
  fatal,      \* fatal_error of the attempt
  success,    \* sync_success of the attempt
  result      \* the outcome of the task

shared   == <<next, current, router, status, logger, handle>>
opVars   == <<op, opId>>
taskVars == <<pc, say, after, cancelled, retries, fatal, success, result>>
vars     == <<opVars, shared, taskVars>>

Terminal  == {"error", "completed"}
Published == {"connecting", "open"} \cup Terminal
Status    == Published \cup {"disconnected", "stopping"}

Location == {"none", "setup", "register", "loop", "connect", "handshake", "attempt", "teardown",
             "retry", "backoff", "shutdown", "finish", "publish", "done"}

Live(s) == pc[s] \notin {"none", "done"}

Init ==
  /\ op = "free" /\ opId = 0
  /\ next = 0 /\ current = 0 /\ router = 0 /\ logger = 0 /\ handle = 0
  /\ status = "disconnected"
  /\ pc = [s \in Sess |-> "none"]
  /\ say = [s \in Sess |-> "connecting"]
  /\ after = [s \in Sess |-> "finish"]
  /\ cancelled = [s \in Sess |-> FALSE]
  /\ retries = [s \in Sess |-> 0]
  /\ fatal = [s \in Sess |-> FALSE]
  /\ success = [s \in Sess |-> FALSE]
  /\ result = [s \in Sess |-> "ok"]

-----------------------------------------------------------------------------
(* start_manual_sync.  A start that finds a running session is refused and *)
(* changes nothing.                                                        *)

\* A finished session is joined and its handle taken.  When it ended with an
\* error this start reports that and ends.
StartBegin ==
  /\ op = "free"
  /\ handle # 0 => ~Live(handle)
  /\ handle' = 0
  /\ op' = IF handle # 0 /\ result[handle] = "err" THEN "free" ELSE "preflight"
  /\ UNCHANGED <<opId, next, current, router, status, logger, taskVars>>

\* An active generation, unreadable settings or a bad configuration refuse
\* the start; otherwise the session gets its number.
Preflight ==
  /\ op = "preflight"
  /\ \/ op' = "free" /\ UNCHANGED <<opId, next>>
     \/ /\ next < MaxId
        /\ op' = "own"
        /\ opId' = next + 1
        /\ next' = next + 1
  /\ UNCHANGED <<current, router, status, logger, handle, taskVars>>

\* Under the owner commit mutex.
StartOwns ==
  /\ op = "own"
  /\ op' = "spawn"
  /\ current' = opId
  /\ router' = opId
  /\ status' = "disconnected"
  /\ UNCHANGED <<opId, next, logger, handle, taskVars>>

StartSpawns ==
  /\ op = "spawn"
  /\ op' = "free"
  /\ pc' = [pc EXCEPT ![opId] = "setup"]
  /\ handle' = opId
  /\ UNCHANGED <<opId, next, current, router, status, logger, say, after, cancelled, retries,
                 fatal, success, result>>

-----------------------------------------------------------------------------
(* stop_sync_session.                                                      *)

\* The old owner loses its generation before it is signalled.
StopBegin ==
  /\ op = "free"
  /\ next < MaxId
  /\ op' = "check"
  /\ next' = next + 1
  /\ current' = next + 1
  /\ router' = 0
  /\ UNCHANGED <<opId, status, logger, handle, taskVars>>

StopChecks ==
  /\ op = "check"
  /\ op' = "mark"
  /\ opId' = IF handle # 0 /\ Live(handle) THEN handle ELSE 0
  /\ UNCHANGED <<shared, taskVars>>

\* The status is written without the owner commit mutex.
StopMarks ==
  /\ op = "mark"
  /\ op' = "cancel"
  /\ status' = IF opId # 0 THEN "stopping" ELSE status
  /\ UNCHANGED <<opId, next, current, router, logger, handle, taskVars>>

StopCancels ==
  /\ op = "cancel"
  /\ \/ handle = 0 /\ op' = "clear" /\ UNCHANGED cancelled
     \/ handle # 0 /\ op' = "join" /\ cancelled' = [cancelled EXCEPT ![handle] = TRUE]
  /\ UNCHANGED <<opId, shared, pc, say, after, retries, fatal, success, result>>

StopJoins ==
  /\ op = "join"
  /\ ~Live(handle)
  /\ op' = "clear"
  /\ handle' = 0
  /\ UNCHANGED <<opId, next, current, router, status, logger, taskVars>>

\* Mutation of StopTimesOut: the handle is given up with the wait.
StopDropsHandle ==
  /\ op = "join" /\ Live(handle)
  /\ op' = "free"
  /\ handle' = 0
  /\ UNCHANGED <<opId, next, current, router, status, logger, taskVars>>

\* Mutation of StopTimesOut: the stop goes on as if the session had ended.
StopGoesOn ==
  /\ op = "join" /\ Live(handle)
  /\ op' = "clear"
  /\ UNCHANGED <<opId, shared, taskVars>>

\* SYNC_STOP_PENDING: the handle stays, the stop returns.
StopTimesOut ==
  /\ op = "join"
  /\ Live(handle)
  /\ op' = "free"
  /\ UNCHANGED <<opId, shared, taskVars>>

StopClears ==
  /\ op = "clear"
  /\ op' = "free"
  /\ status' = "disconnected"
  /\ logger' = 0
  /\ UNCHANGED <<opId, next, current, router, handle, taskVars>>

-----------------------------------------------------------------------------
(* The session task: run_sync_session and finish_sync_session.             *)

At(s, l) == pc[s] = l
Goto(s, l) == pc' = [pc EXCEPT ![s] = l] /\ UNCHANGED <<say, after>>

\* The session is going to publish status x, then to go on at l.
Say(s, x, l) ==
  /\ pc' = [pc EXCEPT ![s] = "publish"]
  /\ say' = [say EXCEPT ![s] = x]
  /\ after' = [after EXCEPT ![s] = l]

\* The session in pc "publish" writes its status where "allowed" holds.
Write(s, allowed) ==
  /\ At(s, "publish")
  /\ status' = IF allowed THEN say[s] ELSE status
  /\ success' = [success EXCEPT ![s] = @ \/ (say[s] = "completed" /\ allowed)]
  /\ pc' = [pc EXCEPT ![s] = after[s]]
  /\ UNCHANGED <<opVars, next, current, router, logger, handle, say, after, cancelled, retries,
                 fatal, result>>

\* Mutations of Publish: a verdict is replaced; the owner is not asked for.
PublishOverVerdict(s) == Write(s, current = s)
PublishByAnyone(s)    == Write(s, status \notin Terminal)

\* publish_sync_nonterminal_status, _open_status, _error, _completed: only
\* the owner publishes, and nothing replaces a terminal status.
Publish(s) == Write(s, current = s /\ status \notin Terminal)

\* The HTTP client is built.
Setup(s) ==
  /\ At(s, "setup")
  /\ \/ Goto(s, "register")
     \/ Say(s, "error", "finish")
  /\ UNCHANGED <<opVars, shared, cancelled, retries, fatal, success, result>>

\* The logger is installed by the owner; a session that lost ownership ends.
Register(s) ==
  /\ At(s, "register")
  /\ IF current = s
     THEN Goto(s, "loop") /\ logger' = s
     ELSE Goto(s, "finish") /\ UNCHANGED logger
  /\ UNCHANGED <<opVars, next, current, router, status, handle, cancelled, retries, fatal,
                 success, result>>

LoopHead(s) ==
  /\ At(s, "loop")
  /\ IF cancelled[s] THEN Goto(s, "shutdown") ELSE Say(s, "connecting", "connect")
  /\ UNCHANGED <<opVars, shared, cancelled, retries, fatal, success, result>>

\* The select prefers the cancellation.  A refused token or path is fatal, a
\* timeout and every other failure is retried.
Connect(s) ==
  /\ At(s, "connect")
  /\ \/ cancelled[s] /\ Goto(s, "shutdown")
     \/ ~cancelled[s] /\ Goto(s, "handshake")
     \/ ~cancelled[s] /\ Goto(s, "retry")
     \/ ~cancelled[s] /\ Say(s, "error", "shutdown")
  /\ UNCHANGED <<opVars, shared, cancelled, retries, fatal, success, result>>

\* A frame that cannot be sent is retried even after the cancellation.  A new
\* attempt starts with fresh flags.
Handshake(s) ==
  /\ At(s, "handshake")
  /\ \/ cancelled[s] /\ Goto(s, "shutdown")
     \/ Goto(s, "retry")
     \/ Say(s, "error", "shutdown")
     \/ ~cancelled[s] /\ Say(s, "open", "attempt")
  /\ fatal' = [fatal EXCEPT ![s] = FALSE]
  /\ success' = [success EXCEPT ![s] = FALSE]
  /\ UNCHANGED <<opVars, shared, cancelled, retries, result>>

\* Cancelled, lost or restarted; failed for good; or acknowledged and drained.
AttemptEnds(s) ==
  /\ At(s, "attempt")
  /\ \/ Goto(s, "teardown") /\ UNCHANGED fatal
     \/ Say(s, "error", "teardown") /\ fatal' = [fatal EXCEPT ![s] = TRUE]
     \/ Say(s, "completed", "teardown") /\ UNCHANGED fatal
  /\ UNCHANGED <<opVars, shared, cancelled, retries, success, result>>

\* The tasks of the attempt are joined.  Without a success the writes are
\* drained and the database is reconciled; a failure there is fatal.
Teardown(s) ==
  /\ At(s, "teardown")
  /\ \/ success[s] /\ Goto(s, "shutdown") /\ UNCHANGED fatal
     \/ ~success[s] /\ Goto(s, IF fatal[s] THEN "shutdown" ELSE "retry") /\ UNCHANGED fatal
     \/ /\ ~success[s]
        /\ Say(s, "error", "shutdown")
        /\ fatal' = [fatal EXCEPT ![s] = TRUE]
  /\ UNCHANGED <<opVars, shared, cancelled, retries, success, result>>

\* Mutations of Retry: the slots are not counted against their limit; a session
\* without a slot ends without a word.
RetryForever(s) ==
  /\ At(s, "retry") /\ ~cancelled[s]
  /\ retries' = [retries EXCEPT ![s] = @ + 1]
  /\ Goto(s, "backoff")
  /\ UNCHANGED <<opVars, shared, cancelled, fatal, success, result>>
RetryEndsSilently(s) ==
  /\ At(s, "retry")
  /\ Goto(s, "shutdown")
  /\ UNCHANGED <<opVars, shared, cancelled, retries, fatal, success, result>>

\* schedule_sync_retry with take_retry_slot.
Retry(s) ==
  /\ At(s, "retry")
  /\ \/ cancelled[s] /\ Goto(s, "shutdown") /\ UNCHANGED retries
     \/ ~cancelled[s] /\ retries[s] >= MaxRetries /\ Say(s, "error", "shutdown")
        /\ UNCHANGED retries
     \/ /\ ~cancelled[s] /\ retries[s] < MaxRetries
        /\ retries' = [retries EXCEPT ![s] = @ + 1]
        /\ Goto(s, "backoff")
  /\ UNCHANGED <<opVars, shared, cancelled, fatal, success, result>>

Backoff(s) ==
  /\ At(s, "backoff")
  /\ \/ cancelled[s] /\ Goto(s, "shutdown")
     \/ Goto(s, "loop")
  /\ UNCHANGED <<opVars, shared, cancelled, retries, fatal, success, result>>

\* The last drain of the write queue.
Shutdown(s) ==
  /\ At(s, "shutdown")
  /\ cancelled' = [cancelled EXCEPT ![s] = TRUE]
  /\ \/ Goto(s, "finish") /\ UNCHANGED result
     \/ Say(s, "error", "finish") /\ result' = [result EXCEPT ![s] = "err"]
  /\ UNCHANGED <<opVars, shared, retries, fatal, success>>

\* Mutations of Finish: the router is kept; "stopping" is kept.
FinishKeepsRouter(s) ==
  /\ At(s, "finish")
  /\ Goto(s, "done")
  /\ logger' = 0
  /\ status' = IF status = "stopping" THEN "disconnected" ELSE status
  /\ UNCHANGED <<opVars, next, current, router, handle, cancelled, retries, fatal, success, result>>
FinishKeepsStopping(s) ==
  /\ At(s, "finish")
  /\ Goto(s, "done")
  /\ router' = IF router = s THEN 0 ELSE router
  /\ logger' = 0
  /\ UNCHANGED <<opVars, next, current, status, handle, cancelled, retries, fatal, success, result>>

\* finish_sync_session and the end of the task.  Only the router is cleared
\* by owner; the logger and a "stopping" are not.
Finish(s) ==
  /\ At(s, "finish")
  /\ Goto(s, "done")
  /\ router' = IF router = s THEN 0 ELSE router
  /\ logger' = 0
  /\ status' = IF status = "stopping" THEN "disconnected" ELSE status
  /\ UNCHANGED <<opVars, next, current, handle, cancelled, retries, fatal, success, result>>

-----------------------------------------------------------------------------
Start == StartBegin \/ Preflight \/ StartOwns \/ StartSpawns
Stop  == StopBegin \/ StopChecks \/ StopMarks \/ StopCancels \/ StopJoins \/ StopTimesOut
         \/ StopClears

Step(s) ==
  \/ Setup(s) \/ Register(s) \/ LoopHead(s) \/ Connect(s) \/ Handshake(s) \/ Teardown(s)
  \/ Retry(s) \/ Backoff(s) \/ Shutdown(s) \/ Publish(s) \/ Finish(s)

\* Nothing is left to do: the user calls neither start nor stop.
Rest == op = "free" /\ (\A s \in Sess : ~Live(s)) /\ UNCHANGED vars

Next ==
  \/ Start \/ Stop
  \/ \E s \in Sess : Step(s) \/ AttemptEnds(s)
  \/ Rest

\* A start or stop that began goes on, and the session task runs.  An attempt
\* need not end by itself, but a cancelled one does.
OpGoesOn == op # "free" /\ (Start \/ Stop)
Fairness ==
  /\ WF_vars(OpGoesOn)
  /\ \A s \in Sess : WF_vars(Step(s)) /\ WF_vars(cancelled[s] /\ AttemptEnds(s))

Spec == Init /\ [][Next]_vars /\ Fairness

-----------------------------------------------------------------------------
OpLocation == {"free", "preflight", "own", "spawn", "check", "mark", "cancel", "join", "clear"}

TypeOK ==
  /\ op \in OpLocation
  /\ {opId, next, current, router, logger, handle} \subseteq 0 .. MaxId
  /\ status \in Status
  /\ pc \in [Sess -> Location]
  /\ say \in [Sess -> Published]
  /\ after \in [Sess -> {"connect", "attempt", "teardown", "shutdown", "finish"}]
  /\ cancelled \in [Sess -> BOOLEAN]
  /\ retries \in [Sess -> 0 .. MaxRetries]
  /\ fatal \in [Sess -> BOOLEAN] /\ success \in [Sess -> BOOLEAN]
  /\ result \in [Sess -> {"ok", "err"}]

\* One session at a time: also after a stop that gave up waiting, a new
\* session does not run next to the writes of the old one.
OneSession == \A s, t \in Sess : Live(s) /\ Live(t) => s = t

\* When a stop is about to return Ok, no session task is left that could
\* still write.
StopIsFinal == op = "clear" => \A s \in Sess : ~Live(s)

\* Commands are routed to the owner, and never to a task that has ended.
RouterServesOwner ==
  router # 0 => router = current /\ (Live(router) \/ op = "spawn")

\* A session that was not stopped ends with a verdict: whatever way it takes
\* through its attempts and retries, it published an error or a success.
VerdictWhenDone == \A s \in Sess : pc[s] = "done" /\ current = s => status \in Terminal

\* Only the running owner publishes: a stopped session cannot change the
\* status any more, except that its end turns "stopping" to "disconnected".
OnlyOwnerPublishes ==
  [][(status' # status /\ status' \in Published) => current \in Sess /\ Live(current)]_vars

\* A verdict stays until the user starts or stops a sync.
VerdictStays == [][(status \in Terminal /\ status' # status) => op' # op]_vars

\* The cleanup of an old session never takes the logger or the router from a
\* newer one.
CleanupIsOwn ==
  [][\A s \in Sess :
       /\ logger = s /\ logger' # s => pc'[s] = "done" \/ current # s
       /\ router = s /\ router' # s => pc'[s] = "done" \/ current' # s]_vars

\* A stop is always carried out, even when the caller no longer waits: the
\* session ends and "stopping" does not stay.
StopTakesEffect ==
  /\ status = "stopping" ~> status # "stopping"
  /\ \A s \in Sess : cancelled[s] ~> pc[s] = "done"
=============================================================================
