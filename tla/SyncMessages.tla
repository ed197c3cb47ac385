---------------------------- MODULE SyncMessages ----------------------------
(***************************************************************************)
(* Phase 3 of a sync attempt, its finalisation and its teardown.           *)
(*                                                                         *)
(* The changed topics are compared batch by batch.  The attempt loop sends *)
(* a request; the desktop's answer is handled by a task of its own         *)
(* (BatchDiffHandler), which applies tombstones, pulls, drains the write   *)
(* queue, pushes the merged topics, marks them complete and then queues    *)
(* the request for the next batch.  The last completed topic queues        *)
(* Finalize.  However the attempt ends, its tasks are cancelled and        *)
(* joined, the write queue is drained and the topic hashes are repaired.   *)
(*                                                                         *)
(* Committing message writes leaves the content hash of their topic stale; *)
(* only the finaliser (or the repair at teardown) recomputes it.           *)
(***************************************************************************)
EXTENDS Naturals, Sequences, FiniteSets, Functions

CONSTANTS
  Batches,    \* the topics of each diff batch, in order
  Decisions,  \* what the desktop may ask of a topic
  MaxStray,   \* bound on answers the desktop invents
  MaxGone     \* bound on topics the user deletes meanwhile

Op     == {"delete", "pull", "push"}
Topics == UNION Range(Batches)
None   == "none"

ASSUME BatchesAssumption ==
  /\ Batches \in Seq((SUBSET Topics) \ {{}})
  /\ \A i, j \in DOMAIN Batches : i # j => Batches[i] \cap Batches[j] = {}
  /\ Decisions \subseteq SUBSET Op
  /\ MaxStray \in Nat /\ MaxGone \in Nat

VARIABLES
  rx,         \* the command channel
  wire,       \* batches the desktop was asked about and has not answered
  todo,       \* pending_diff_batches: indices of the batches still to send
  expected,   \* expected_phase3_batch
  inflight,   \* phase3_batch_inflight
  handler,    \* the batch handler task
  changed,    \* changed_topics, the result of the topic hash comparison
  completed, modified, failed,   \* Phase3Tracker
  finalized,  \* phase_gate contains "finalize"
  awaiting,   \* awaiting_final_ack is Some
  watchdog,   \* the final acknowledgement watchdog
  queued,     \* topics with message writes accepted and not yet committed
  writeError, \* the write queue remembers a failed write
  tx,         \* the topic whose tombstone transaction is being committed
  stale,      \* topics whose messages changed since their hash was computed
  gone,       \* topics deleted by the user during the attempt
  lost,       \* history: topics of which a write failed
  pushed,     \* topics pushed
  outcome,    \* how the attempt loop was left, or "none"
  stage,      \* where the attempt is: "loop", "join", "drain", "repair", "over"
  announced,  \* history: the completion frame was sent
  stray,      \* invented answers so far
  overlap     \* history: PHASE3_BATCH_OVERLAP was raised

vars == <<rx, wire, todo, expected, inflight, handler, changed, completed, modified,
          failed, finalized, awaiting, watchdog, queued, writeError, tx, stale, gone,
          lost, pushed, outcome, stage, announced, stray, overlap>>
tracker == <<completed, modified, failed>>
store   == <<queued, writeError, tx, stale, gone, lost>>
final   == <<finalized, awaiting, watchdog, announced>>
ending  == <<outcome, stage, overlap>>

Command == [cmd : {"StartMessages", "Finalize", "BatchFinished", "FailFatal",
                   "FailRestart", "SendDiff"}, batch : Nat]
Cmd(c) == [cmd |-> c, batch |-> 0]
Idle   == [pc |-> "idle", keys |-> {}, ops |-> <<>>, left |-> {}]

Init ==
  /\ changed \in {{}, Topics}
  /\ rx = <<Cmd("StartMessages")>>
  /\ wire = {} /\ todo = <<>> /\ expected = {} /\ inflight = FALSE
  /\ handler = Idle
  /\ completed = {} /\ modified = {} /\ failed = {}
  /\ finalized = FALSE /\ awaiting = FALSE /\ watchdog = "off" /\ announced = FALSE
  /\ queued = {} /\ writeError = FALSE /\ tx = None /\ stale = {} /\ gone = {}
  /\ lost = {} /\ pushed = {} /\ stray = 0
  /\ outcome = "none" /\ stage = "loop" /\ overlap = FALSE

-----------------------------------------------------------------------------
(* The attempt loop: commands.                                             *)

Receive(c) == stage = "loop" /\ rx # <<>> /\ Head(rx).cmd = c
Leave(how) == outcome' = how /\ stage' = "join"

\* Mutation of StartMessages: the first batch is not taken off the list.
StartMessagesOneTooMany ==
  /\ Receive("StartMessages") /\ changed # {}
  /\ rx' = Tail(rx)
  /\ todo' = [i \in 1 .. Len(Batches) |-> i + 1]
  /\ expected' = Batches[1]
  /\ wire' = {1}
  /\ UNCHANGED <<inflight, handler, changed, tracker, final, store, pushed, stray, ending>>

\* With nothing to compare Phase 3 is skipped.  Otherwise the first batch is
\* sent and the others wait.  Reading the message hashes may fail.
StartMessages ==
  /\ Receive("StartMessages")
  /\ \/ /\ changed = {}
        /\ rx' = Append(Tail(rx), Cmd("Finalize"))
        /\ UNCHANGED <<wire, todo, expected>>
     \/ /\ changed # {}
        /\ rx' = Tail(rx)
        /\ todo' = [i \in 1 .. Len(Batches) - 1 |-> i + 1]
        /\ expected' = Batches[1]
        /\ wire' = {1}
     \/ /\ changed # {}
        /\ rx' = Append(Tail(rx), Cmd("FailFatal"))
        /\ UNCHANGED <<wire, todo, expected>>
  /\ UNCHANGED <<inflight, handler, changed, tracker, final, store, pushed, stray, ending>>

SendMessageDiff ==
  /\ Receive("SendDiff")
  /\ wire' = wire \cup {Head(rx).batch}
  /\ rx' = Tail(rx)
  /\ UNCHANGED <<todo, expected, inflight, handler, changed, tracker, final, store,
                 pushed, stray, ending>>

Phase3BatchFinished ==
  /\ Receive("BatchFinished")
  /\ inflight' = FALSE
  /\ rx' = Tail(rx)
  /\ UNCHANGED <<wire, todo, expected, handler, changed, tracker, final, store, pushed,
                 stray, ending>>

\* FailAttempt, and Phase3BatchFinished with an error.
FailAttempt ==
  /\ \/ Receive("FailFatal") /\ Leave("fatal")
     \/ Receive("FailRestart") /\ Leave("restart")
  /\ rx' = Tail(rx)
  /\ UNCHANGED <<wire, todo, expected, inflight, handler, changed, tracker, final, store,
                 pushed, stray, overlap>>

\* DbWriteQueue::flush answers once everything accepted before it was tried.
\* It reports a failed write and forgets it.
Drained == queued = {}
Flush   == writeError' = FALSE

\* One transaction recomputes the hashes of the modified topics.  It takes
\* the write lease, so it waits for a transaction in progress, and it fails
\* as a whole when one of the topics is not live any more.
CanRepair == tx = None
Repair(topics) == topics \cap gone = {} /\ stale' = stale \ topics
RepairFails(topics) == topics # {} /\ UNCHANGED stale

\* Mutation of Finalize: the hashes are not recomputed.
FinalizeSkipsHashes ==
  /\ Receive("Finalize") /\ ~finalized
  /\ Drained /\ ~writeError
  /\ finalized' = TRUE
  /\ rx' = Tail(rx)
  /\ announced' = TRUE /\ awaiting' = TRUE /\ watchdog' = "armed"
  /\ UNCHANGED <<wire, todo, expected, inflight, handler, changed, tracker, store, pushed,
                 stray, ending>>

\* SyncFinalizer::execute, then the completion frame, then the watchdog.
Finalize ==
  /\ Receive("Finalize") /\ ~finalized
  /\ Drained
  /\ finalized' = TRUE
  /\ rx' = Tail(rx)
  /\ Flush
  /\ \/ /\ ~writeError /\ CanRepair /\ Repair(modified)
        /\ announced' = TRUE /\ awaiting' = TRUE /\ watchdog' = "armed"
        /\ UNCHANGED <<outcome, stage>>
     \/ /\ writeError \/ (CanRepair /\ RepairFails(modified))
        /\ Leave("fatal")
        /\ UNCHANGED <<announced, awaiting, watchdog, stale>>
  /\ UNCHANGED <<wire, todo, expected, inflight, handler, changed, tracker, queued, tx,
                 gone, lost, pushed, stray, overlap>>

-----------------------------------------------------------------------------
(* The attempt loop: frames.                                               *)

ReadFrame == stage = "loop" /\ rx = <<>>

\* A message diff result starts the handler, unless one is still in flight.
HandleDiffResult(keys, ops) ==
  IF inflight
  THEN /\ Leave("fatal")
       /\ overlap' = TRUE
       /\ UNCHANGED <<inflight, handler>>
  ELSE /\ inflight' = TRUE
       /\ handler' = [pc |-> "classify", keys |-> keys, ops |-> ops, left |-> keys]
       /\ UNCHANGED ending

BatchResult ==
  /\ ReadFrame
  /\ \E b \in wire :
       /\ \E ops \in [Batches[b] -> Decisions] : HandleDiffResult(Batches[b], ops)
       /\ wire' = wire \ {b}
  /\ UNCHANGED <<rx, todo, expected, changed, tracker, final, store, pushed, stray>>

\* The desktop answers what it was not asked, repeats an answer, or
\* acknowledges with a wrong nonce (which is ignored).
StrayResult ==
  /\ ReadFrame
  /\ stray < MaxStray
  /\ stray' = stray + 1
  /\ \E b \in DOMAIN Batches, d \in Decisions :
       HandleDiffResult(Batches[b], [t \in Batches[b] |-> d])
  /\ UNCHANGED <<rx, wire, todo, expected, changed, tracker, final, store, pushed>>

\* PHASE_ACK with the expected identity: consumed once, the queue is drained
\* again and the session is complete.
PhaseAck ==
  /\ ReadFrame
  /\ announced /\ awaiting
  /\ Drained
  /\ awaiting' = FALSE
  /\ Flush
  /\ Leave(IF writeError THEN "fatal" ELSE "completed")
  /\ UNCHANGED <<rx, wire, todo, expected, inflight, handler, changed, tracker, finalized,
                 watchdog, announced, queued, tx, stale, gone, lost, pushed, stray, overlap>>

\* Mutation of FinalAckDeadline: the missing acknowledgement is not reported.
FinalAckDeadlineIsSilent ==
  /\ stage = "loop" /\ watchdog = "armed"
  /\ watchdog' = "off"
  /\ UNCHANGED <<rx, wire, todo, expected, inflight, handler, changed, tracker, finalized,
                 awaiting, announced, store, pushed, stray, ending>>

FinalAckDeadline ==
  /\ stage = "loop"
  /\ watchdog = "armed"
  /\ watchdog' = "off"
  /\ awaiting' = FALSE
  /\ rx' = IF awaiting THEN Append(rx, Cmd("FailFatal")) ELSE rx
  /\ UNCHANGED <<wire, todo, expected, inflight, handler, changed, tracker, finalized,
                 announced, store, pushed, stray, ending>>

\* The socket closes, a send fails, the user stops the session, or the
\* desktop reports an error of its own.
ConnectionEnds ==
  /\ stage = "loop"
  /\ \E how \in {"lost", "cancelled", "fatal", "restart"} : Leave(how)
  /\ UNCHANGED <<rx, wire, todo, expected, inflight, handler, changed, tracker, final,
                 store, pushed, stray, overlap>>

-----------------------------------------------------------------------------
(* The handler task.  Each step ends where the code awaits; until it is    *)
(* joined at teardown the task may still take steps.                       *)

At(pc) == stage \in {"loop", "join"} /\ handler.pc = pc
Asks(op) == {t \in handler.keys : op \in handler.ops[t]}
Active   == {t \in handler.keys : handler.ops[t] # {}}
Goto(pc, left) == handler' = [handler EXCEPT !.pc = pc, !.left = left]

\* handle_diff_batch returns an error; its wrapper reports it to the loop.
HandlerFails(topics, codes) ==
  /\ failed' = failed \cup topics
  /\ handler' = Idle
  /\ \E c \in codes : rx' = Append(rx, Cmd(c))

\* The n-th completed topic of n queues Finalize.
Announce(topics) ==
  IF topics \ completed # {} /\ completed \cup topics = changed
  THEN Append(rx, Cmd("Finalize")) ELSE rx
MarkCompleted(topics) ==
  /\ completed' = completed \cup topics
  /\ rx' = Announce(topics)

\* Mutation of Classify: topics with deletions only are not to be repaired.
ClassifyForgetsDeletes ==
  /\ At("classify") /\ handler.keys = expected
  /\ modified' = modified \cup Asks("pull")
  /\ MarkCompleted(handler.keys \ Active)
  /\ IF Active = {} THEN Goto("next", {}) ELSE Goto("delete", Asks("delete"))
  /\ UNCHANGED <<failed, wire, todo, expected, inflight, changed, final, store, pushed, stray,
                 ending>>

\* The answer must cover exactly the requested topics.  Every topic joins the
\* set whose hashes will be repaired before anything of it is written.
Classify ==
  /\ At("classify")
  /\ \/ /\ handler.keys = expected
        /\ modified' = modified \cup handler.keys
        /\ MarkCompleted(handler.keys \ Active)
        /\ IF Active = {} THEN Goto("next", {}) ELSE Goto("delete", Asks("delete"))
        /\ UNCHANGED failed
     \/ /\ handler.keys # expected
        /\ HandlerFails({}, {"FailFatal"})
        /\ UNCHANGED <<completed, modified>>
  /\ UNCHANGED <<wire, todo, expected, inflight, changed, final, store, pushed, stray,
                 ending>>

\* A decision that rejects its topic or cannot be followed ends the handling of
\* the answer, with whatever was noted of the topics sorted out before it.
RejectDecision ==
  /\ At("classify") /\ handler.keys = expected
  /\ \E t \in handler.keys : \E seen \in SUBSET (handler.keys \ {t}) :
       /\ modified' = modified \cup seen
       /\ completed' = completed \cup (seen \ Active)
       /\ failed' = failed \cup {t}
       /\ \E c \in {"FailFatal", "FailRestart"} :
            rx' = Append(Announce(seen \ Active), Cmd(c))
  /\ handler' = Idle
  /\ UNCHANGED <<wire, todo, expected, inflight, changed, final, store, pushed, stray,
                 ending>>

\* Tombstones, one transaction per topic.  The commit runs detached: it goes
\* on when the handler is cancelled.
BeginDelete ==
  /\ At("delete") /\ tx = None
  /\ \E t \in handler.left : tx' = t
  /\ UNCHANGED <<rx, wire, todo, expected, inflight, handler, changed, tracker, final,
                 queued, writeError, stale, gone, lost, pushed, stray, ending>>

CommitDelete ==
  /\ tx # None
  /\ tx' = None
  /\ stale' = stale \cup {tx}
  /\ IF At("delete") THEN Goto("delete", handler.left \ {tx}) ELSE UNCHANGED handler
  /\ UNCHANGED <<rx, wire, todo, expected, inflight, changed, tracker, final, queued,
                 writeError, gone, lost, pushed, stray, ending>>

DeleteFails ==
  /\ At("delete") /\ tx # None
  /\ tx' = None
  /\ HandlerFails({tx}, {"FailFatal"})
  /\ UNCHANGED <<wire, todo, expected, inflight, changed, completed, modified, final,
                 queued, writeError, stale, gone, lost, pushed, stray, ending>>

DeletesDone ==
  /\ At("delete") /\ handler.left = {}
  /\ IF Asks("pull") = {} THEN Goto("push", {}) ELSE Goto("pull", Asks("pull"))
  /\ UNCHANGED <<rx, wire, todo, expected, inflight, changed, tracker, final, store,
                 pushed, stray, ending>>

\* The pulled messages of a topic enter the write queue.
PullTopic ==
  /\ At("pull")
  /\ \E t \in handler.left :
       /\ queued' = queued \cup {t}
       /\ Goto("pull", handler.left \ {t})
  /\ UNCHANGED <<rx, wire, todo, expected, inflight, changed, tracker, final, writeError,
                 tx, stale, gone, lost, pushed, stray, ending>>

PullFails ==
  /\ At("pull")
  /\ \E t \in Asks("pull") : HandlerFails({t}, {"FailFatal", "FailRestart"})
  /\ UNCHANGED <<wire, todo, expected, inflight, changed, completed, modified, final,
                 store, pushed, stray, ending>>

\* Mutation of PullDrain: the topics are pushed before their pulls are committed.
PullDrainWithoutWaiting ==
  /\ At("pull") /\ handler.left = {}
  /\ Goto("push", {})
  /\ UNCHANGED <<rx, wire, todo, expected, inflight, changed, tracker, final, store, pushed,
                 stray, ending>>

\* Mutation of PullDrain: the failed write is taken from the queue and ignored.
PullDrainIgnoresFailure ==
  /\ At("pull") /\ handler.left = {} /\ Drained
  /\ Flush
  /\ Goto("push", {})
  /\ UNCHANGED <<rx, wire, todo, expected, inflight, changed, tracker, final, queued, tx,
                 stale, gone, lost, pushed, stray, ending>>

PullDrain ==
  /\ At("pull") /\ handler.left = {} /\ Drained
  /\ Flush
  /\ \/ ~writeError /\ Goto("push", {}) /\ UNCHANGED <<failed, rx>>
     \/ writeError /\ HandlerFails(Asks("pull"), {"FailFatal"})
  /\ UNCHANGED <<wire, todo, expected, inflight, changed, completed, modified, final,
                 queued, tx, stale, gone, lost, pushed, stray, ending>>

\* The whole topics are pushed as they now stand, then everything the batch
\* asked for is complete.
PushTopics ==
  /\ At("push")
  /\ pushed' = pushed \cup Asks("push")
  /\ Goto("complete", {})
  /\ UNCHANGED <<rx, wire, todo, expected, inflight, changed, tracker, final, store,
                 stray, ending>>

PushFails ==
  /\ At("push")
  /\ \E t \in Asks("push") : HandlerFails({t}, {"FailFatal", "FailRestart"})
  /\ UNCHANGED <<wire, todo, expected, inflight, changed, completed, modified, final,
                 store, pushed, stray, ending>>

CompleteBatch ==
  /\ At("complete")
  /\ MarkCompleted(Active)
  /\ Goto("next", {})
  /\ UNCHANGED <<wire, todo, expected, inflight, changed, modified, failed, final, store,
                 pushed, stray, ending>>

\* Mutation of NextBatch: the topics of the next batch are not remembered.
NextBatchKeepsExpected ==
  /\ At("next")
  /\ Goto("finish", {})
  /\ todo # <<>>
  /\ todo' = Tail(todo)
  /\ rx' = Append(rx, [cmd |-> "SendDiff", batch |-> Head(todo)])
  /\ UNCHANGED <<wire, expected, inflight, changed, tracker, final, store, pushed, stray,
                 ending>>

NextBatch ==
  /\ At("next")
  /\ Goto("finish", {})
  /\ IF todo = <<>>
     THEN UNCHANGED <<rx, todo, expected>>
     ELSE /\ expected' = Batches[Head(todo)]
          /\ todo' = Tail(todo)
          /\ rx' = Append(rx, [cmd |-> "SendDiff", batch |-> Head(todo)])
  /\ UNCHANGED <<wire, inflight, changed, tracker, final, store, pushed, stray, ending>>

FinishBatch ==
  /\ At("finish")
  /\ rx' = Append(rx, Cmd("BatchFinished"))
  /\ handler' = Idle
  /\ UNCHANGED <<wire, todo, expected, inflight, changed, tracker, final, store, pushed,
                 stray, ending>>

-----------------------------------------------------------------------------
(* The write queue's worker (module DbWriteQueue) and the user.            *)

CommitWrite ==
  /\ tx = None
  /\ \E t \in queued :
       /\ queued' = queued \ {t}
       /\ \/ stale' = stale \cup {t} /\ UNCHANGED <<writeError, lost>>
          \/ writeError' = TRUE /\ lost' = lost \cup {t} /\ UNCHANGED stale
  /\ UNCHANGED <<rx, wire, todo, expected, inflight, handler, changed, tracker, final, tx,
                 gone, pushed, stray, ending>>

LocalTopicDelete ==
  /\ stage # "over" /\ tx = None
  /\ Cardinality(gone) < MaxGone
  /\ \E t \in changed \ gone : gone' = gone \cup {t}
  /\ UNCHANGED <<rx, wire, todo, expected, inflight, handler, changed, tracker, final,
                 queued, writeError, tx, stale, lost, pushed, stray, ending>>

-----------------------------------------------------------------------------
(* Teardown.                                                               *)

\* The children are cancelled and joined.  A completed attempt is over then.
JoinTasks ==
  /\ stage = "join"
  /\ handler' = Idle
  /\ stage' = IF outcome = "completed" THEN "over" ELSE "drain"
  /\ UNCHANGED <<rx, wire, todo, expected, inflight, changed, tracker, final, store,
                 pushed, stray, outcome, overlap>>

DrainWrites ==
  /\ stage = "drain" /\ Drained
  /\ Flush
  /\ outcome' = IF writeError THEN "fatal" ELSE outcome
  /\ stage' = "repair"
  /\ UNCHANGED <<rx, wire, todo, expected, inflight, handler, changed, tracker, final,
                 queued, tx, stale, gone, lost, pushed, stray, overlap>>

\* reconcile_after_interruption.  When it fails the session fails with
\* SYNC_FINALIZATION_FAILED.
ReconcileAfterInterruption ==
  /\ stage = "repair" /\ CanRepair
  /\ \/ Repair(modified) /\ UNCHANGED outcome
     \/ RepairFails(modified) /\ outcome' = "unrepaired"
  /\ stage' = "over"
  /\ UNCHANGED <<rx, wire, todo, expected, inflight, handler, changed, tracker, final,
                 queued, writeError, tx, gone, lost, pushed, stray, overlap>>

-----------------------------------------------------------------------------
Loop    == StartMessages \/ SendMessageDiff \/ Phase3BatchFinished \/ FailAttempt \/ Finalize
Handler ==
  \/ Classify \/ RejectDecision \/ BeginDelete \/ DeleteFails \/ DeletesDone
  \/ PullTopic \/ PullFails \/ PullDrain \/ PushTopics \/ PushFails \/ CompleteBatch
  \/ NextBatch \/ FinishBatch
Storage  == CommitWrite \/ CommitDelete
Teardown == JoinTasks \/ DrainWrites \/ ReconcileAfterInterruption
Desktop  == BatchResult \/ PhaseAck
Over     == stage = "over" /\ queued = {} /\ tx = None /\ UNCHANGED vars

Next ==
  \/ Loop \/ Handler \/ Storage \/ Teardown \/ Desktop
  \/ StrayResult \/ FinalAckDeadline \/ ConnectionEnds \/ LocalTopicDelete \/ Over

\* The loop, the handler, the storage and the teardown are scheduled; the
\* acknowledgement watchdog fires.  The request for a message diff has no
\* watchdog, so that it is answered has to be assumed of the desktop.
Fairness ==
  /\ WF_vars(Loop) /\ WF_vars(Handler) /\ WF_vars(Storage) /\ WF_vars(Teardown)
  /\ WF_vars(FinalAckDeadline)
  /\ WF_vars(BatchResult)

Spec == Init /\ [][Next]_vars /\ Fairness

-----------------------------------------------------------------------------
TypeOK ==
  /\ rx \in Seq(Command)
  /\ wire \subseteq DOMAIN Batches /\ todo \in Seq(DOMAIN Batches)
  /\ expected \subseteq Topics /\ inflight \in BOOLEAN
  /\ handler.pc \in {"idle", "classify", "delete", "pull", "push", "complete", "next",
                     "finish"}
  /\ handler.keys \subseteq Topics /\ handler.left \subseteq handler.keys
  /\ changed \subseteq Topics
  /\ completed \subseteq changed /\ modified \subseteq changed /\ failed \subseteq changed
  /\ finalized \in BOOLEAN /\ awaiting \in BOOLEAN /\ announced \in BOOLEAN
  /\ watchdog \in {"off", "armed"}
  /\ queued \subseteq Topics /\ writeError \in BOOLEAN /\ tx \in Topics \cup {None}
  /\ stale \subseteq Topics /\ {gone, lost, pushed} \subseteq SUBSET Topics
  /\ outcome \in {"none", "completed", "fatal", "restart", "lost", "cancelled", "unrepaired"}
  /\ stage \in {"loop", "join", "drain", "repair", "over"}
  /\ stray \in 0 .. MaxStray /\ overlap \in BOOLEAN

\* A completed session covered every changed topic, failed none, lost no
\* write, left none behind and no hash stale.  (The batch expected last is never
\* forgotten, so an answer to it that the desktop repeats is handled again,
\* even after the hashes were recomputed: an honest desktop is assumed.)
CompletedMeansAligned ==
  outcome = "completed" /\ stray = 0 =>
    completed = changed /\ failed = {} /\ queued = {} /\ stale = {} /\ lost = {}

\* The completion frame goes out after the last topic, with every write
\* committed and every hash recomputed, and only once.
AnnouncedWhenDone ==
  [][announced' # announced =>
       ~announced /\ completed = changed /\ queued' = {} /\ stale' = {} /\ tx = None]_vars

\* A whole-topic push never overtakes the tombstones and pulls of its batch:
\* they are committed by then, and the topic's hash is stale from them.
PushIsMerged ==
  [][pushed' # pushed =>
       \A t \in pushed' \ pushed :
         /\ t \notin queued
         /\ handler.ops[t] \cap {"pull", "delete"} # {} /\ ~finalized => t \in stale]_vars

\* However the attempt ends, cancelled, lost or failed at any step, the hashes
\* of the topics it wrote are repaired and nothing is left in the queue; only
\* a failure of the repair itself can prevent that.
HashesRepaired ==
  stage = "over" /\ outcome # "unrepaired" /\ (outcome = "completed" => stray = 0) =>
    stale = {} /\ queued = {} /\ tx = None

\* At most one batch is on its way, and its answer is checked against its
\* own topics although the next batch may already have been taken.  (An
\* invented answer that happens to fit takes the place of the real one.)
AnswerMeetsItsRequest ==
  stray = 0 => Cardinality(wire) <= 1 /\ \A b \in wire : expected = Batches[b]

\* Every answer is asked for only after the batch before it was handled, so
\* an honest desktop is never blamed for overlapping batches.
HonestNeverOverlaps == overlap => stray > 0

\* Every attempt ends and is torn down.
Termination == <>(stage = "over")
=============================================================================
