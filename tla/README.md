# VCPMobile: formal models

TLA+ models of VCPMobile, the Tauri application in this repository: a Rust core
(`src-tauri/src`), an Android plugin in Kotlin (`src-tauri/plugins/vcp-mobile`) and
a Vue frontend (`src/`). The models cover the parts of the system whose mistakes cost
data or leave something running: the synchronisation of a phone's SQLite database with
the desktop, the writes to that database, the streamed reply of a model from the helper
process to the screen, and the jobs of the command line runtime.

Paths below are relative to `src-tauri/src/vcp_modules/` unless they start with `docs/`;
Kotlin files are those of the plugin, `chatStreamStore.ts` is in `src/core/stores`.

## 1. Inventory

### Sync session (`sync/sync_service.rs`)
* State: `SyncState` (owner generation `current_session_id`, `next_session_id`, command
  router, `connection_status`, current logger, session handle), two mutexes (lifecycle,
  owner commit); per session a cancel token, retry count and backoff.
* Operations: `start_manual_sync`, `stop_sync_session`, the session task
  `run_sync_session`, `finish_sync_session`, `publish_sync_*`, `schedule_sync_retry`.
* Hard: a stop that times out while the session still drains; late statuses of an
  old session; cleanup of an old session next to a newer one; many exits of the loop.
* Correct when: one session at a time, only the owner publishes, a verdict at the end
  and only one, every stop takes effect.

### Sync attempt, Phases 1 and 2 (`sync_service.rs`, `sync_executor/diff_handler.rs`)
* State: command channel, phase gate, manifest tracker, `manifest_phase`, the counter
  `pending_tasks`, changed owners, watchdogs.
* Operations: phase commands, `handle_diff`, the operation tasks, the watchdogs.
* Hard: up to three tasks per wave share counter and wave number without a lock and all
  ask for the next phase; a missed zero stalls; deletions are told through the same channel.
* Correct when: a wave starts after the operations before it, exactly once.

### Sync attempt, Phase 3 (`sync_service.rs`, `batch_diff_handler.rs`, `sync_finalize.rs`, `delete_executor.rs`)
* State: pending batches, expected batch, in-flight flag, `Phase3Tracker`, final
  acknowledgement slot; in the database the content hash of each topic.
* Operations: message diff, tombstones, pulls, drain, pushes, finaliser, acknowledgement,
  teardown with drain and `reconcile_after_interruption`.
* Hard: cancellation at every await, detached commits, a handler that overlaps the loop,
  failing writes, a topic deleted meanwhile.
* Correct when: "completed" means aligned; anything else leaves repaired hashes.

### Write queue (`persistence/db_write_queue.rs`)
* State: bounded channel, carried task, pending errors.
* Operations: submit, flush, collect, coalesce, transaction, acknowledgement.
* Hard: cancelled callers, merged neighbours, a carried task, sticky errors, backpressure.
* Correct when: tasks are applied in order, a flush is a barrier and hides no failure.

### Write transactions (`persistence/db_write.rs`)
* State: the gate (a FIFO mutex), its lease, the connections of the pool, the transaction
  that may be open on one of them.
* Operations: `write_transaction`, `commit`, the drop of an open transaction, and the
  detached tasks that begin, commit, roll back and close.
* Hard: callers cancelled between any two steps, statements that report an error but may
  have taken effect, tasks that die around a statement.
* Correct when: transactions are serial, no connection returns to the pool with one open, the
  caller is told the truth, and the gate is always released.

### Streamed replies (`infra/vcp_client.rs`, `chat/message_service.rs`, `SseProxyService.kt`)
* State: in the database the message row and its `active_generations` row; in the main
  process the `ActiveRequests` lease with its cancel token and retained handoff, and a data
  socket per attempt; in the helper process the sessions with buffered events and owner
  connection; between the two the mailbox directory of finished replies.
* Operations: send, recover, sweep of the mailbox, interrupt, delete; in the helper start,
  resume, cancel, acknowledge, discard, end, publication.
* Hard: either process dies at any point; a command outlives its sender; a replaced socket;
  a reply that ends while nobody listens; a deletion next to a commit.
* Correct when: a message gets one result, the whole reply or an error that is owned up to
  when the reply is really gone, never after its deletion, and nothing is left behind.

### Stream output (`infra/vcp_client.rs`, `chat/aurora_pipeline.rs`, `chatStreamStore.ts`)
* State: `RequestOutput` (channel, consumer revision, `snapshot_pending`, `closed`), the
  buffer's text and what was pushed of it; on the page the last accepted revision, the text,
  the gate `recoveryMessageIds`.
* Operations: attach, bind, push of deltas and snapshots, close; on the page check, recover,
  event, reload.
* Hard: consumers replaced at any time, old channels still under way, attempts that break,
  pages that are gone while their calls run on.
* Correct when: no delta continues the wrong text, the consumer catches up, and a page that
  shows "reconnecting" is told how it goes on.

### CLI runtime (`cli/runtime.rs`, `cli/ledger.rs`, `CliProcessHost.kt`)
* State: the ledger in memory and as a file, a record per job with its terminal intent; in
  the ProcessHost a handle per attempt with exit code, output counters, foreground lease.
* Operations: run, poll, cancel, cancel of a tool call, budget stop, the monitor, deadlines,
  reconciliation at start.
* Hard: every task copies the record, awaits the host and comes back to another one; saves
  fail on either side of the rename; answers overtake each other; a start whose answer is
  lost; a restart while the tree may live.
* Correct when: a command is started at most once, a job ends once, as the first stop says,
  and with its process gone and its output counted.

### The rest
| Component | State and interaction | Hard | Correct when |
|---|---|---|---|
| Topics and agents (`topic_service.rs`, `agent/`) | messages, hashes | partial updates | hash agrees with rows |
| Distributed node (`distributed/`) | connection generation, tools | reconnect while tools run | results go to their own connection |
| App lifecycle (`infra/lifecycle_*.rs`) | foreground state, leases | reordered transitions | state follows the last event |
| Updater (`updater/`) | download, installer hand-over | cancelled and resumed | only a verified file is installed |
| Foreground guardian (`ForegroundGuardian.kt`) | leases of the foreground service | concurrent binder calls | service lives while a lease does |
| Group turns (`group/`) | turn lease, one generation per speaker | a stop between two speakers | a stopped turn sends no more |
| Settings, files, diary, mail, logs | configuration and I/O | little concurrency | unit tests |

Interaction: the session task owns the attempt; the attempt loop owns the socket and
reads commands from one channel; worker and handler tasks send commands to it and
submit writes to a queue that belongs to the session; the queue and every other writer
of the application share the write lease. A chat attempt holds the lease of its message,
follows the helper over a socket, gives out text through the message's output and commits
through the write lease; its tool calls run as jobs of the CLI runtime.

## 2. Plan

Done: `SyncSession` (with proofs), `SyncManifest` (with proofs), `SyncMessages` (with proofs),
`WriteLog` and `DbWriteQueue` (with proofs), `SerialWrites` and `DbWrite` (with proofs), `Reply` and `Generation`
(with proofs), `StreamOutput` (with proofs), `CliJob` and `CliJobs` (with proofs).

Next, in this order:
1. The distributed client: session generations of start and stop, the tool request gate of
   each connection, tool executions that outlive a disconnect.
2. The lifecycle controller and the foreground guardian; group turns with their CLI steps.
3. Proofs: every safety property the runs check is proved, those of `SyncManifest` other
   than the order of the frames for results that start one task in the owner wave. What
   holds of the waves without that hypothesis is still open: how far a second task may run
   ahead.

Where modules meet: `SyncSession` lets an attempt end in any way `SyncManifest` and
`SyncMessages` can end; `SyncManifest` hands over to `SyncMessages` at `StartMessages`;
both use of the write queue only what `DbWriteQueue` guarantees (a flush answers after
everything accepted before it, and reports a failure once). The queue's worker holds the
same gate as the writers of `DbWrite`; that its transaction can be one step is the
seriality `DbWrite` shows. The same seriality makes the commit of `Generation` one step.
`StreamOutput` takes the attempt that `Generation` models step by step as a source of
text that ends, breaks or is resumed, and models what becomes of the text.

## 3. Modules

* **SyncSession.** `op` is the program counter of the start or stop that holds the
  lifecycle mutex, `pc[s]` the one of session task `s`. An action is a critical section of
  the owner commit mutex, or what happens between two awaits. `Say` and `Publish` split
  "decide what to publish" from "publish under the mutex", which is where a stop can come
  in between. Bounds: `MaxRetries`, `MaxId` (generations, starts and stops together).
* **SyncManifest.** One action per command of the loop and per frame; `work[<<w, kind>>]` is
  the task that pulls chunks, pushes chunks or runs single operations of wave `w`.
  `fetch_sub`, the load of the counter and the load of the wave number are separate steps
  (`OperationDone`, `ReadPending`, `AskNextPhase`), and so are the two loads of a
  watchdog. `Plans` are the decisions the desktop may take.
* **SyncMessages.** The loop, the batch handler (a step per await), the detached tombstone
  commit `tx`, the write queue reduced to "accepted", "failed" and "flushed", and the
  teardown. `stale` is the set of topics whose messages changed after their hash was
  computed; `lost` remembers writes that failed. A decision that cannot be parsed fails its
  topic after others of its batch were sorted and marked (`RejectDecision`).
* **WriteLog** is the promise of the queue: a log worked off from its front, each piece
  as a whole or not at all, failures kept until reported. **DbWriteQueue** is the queue as
  coded; `IsALog` checks that it implements `WriteLog` under the mapping
  `unreported <- errors`. The rest of the state has the same names on both sides.
* **SerialWrites** is the promise of a write transaction: one at a time, durable as a whole or
  not at all, and nobody told anything untrue about its own. **DbWrite** is
  `WriteCoordinator` as coded; a writer is one call, and `pc` says which of the detached
  tasks works for it and between which two of its steps. `txn[c]` is what SQLite has open
  on connection `c`: a statement that reports an error leaves it either way. `caller`
  becomes "gone" wherever a caller may be cancelled; the tasks never look at it, only the
  hand-over and the answer do. The mapping reads the active writer off `txn`. "lost" is
  what a caller hears of a task that died. Two assumptions about SQLite are built in: a
  COMMIT that reports an error has not committed, and closing a connection ends its
  transaction (the code takes a failed close for done, too).
* **Reply** is the promise of a streamed reply: pending, then one result that is the reply as
  upstream ended it or an excuse, or deleted. **Generation** is both processes as coded. A
  slot is one caller of the main process together with its data socket: `pc` says where it
  is between two awaits, `up` and `peer` are the two ends of the socket, `cmd` the command
  the helper has not read yet, `wire` the frames the caller has not read yet. A reply is the
  number of its chunks. `ReplySpec` is checked under the mapping `reply <- ended`; `row` and `result` have the
  same names. Four history variables (`ended`, `killed`, `denied`, `retained`) record what
  the properties have to excuse. A file that cannot be read or removed stays in the mailbox,
  and the reaper of a deleted message may stop where its query fails (each a fault). Bounds:
  `MaxLen` chunks, `MaxFaults` (crashes, failed calls, transactions and publications, stalls).
* **StreamOutput.** A consumer is named by its revision, and so is its channel `pipe[r]`, a
  FIFO of its own; `dest[r]` is the page at its other end. `full` and `pushed` are the text
  in the buffer and the part its consumer has. The text of the page is a number of chunks;
  a delta carries the length it continues, so that a gap can be told from a repetition.
  The last event of an attempt whose consumer is gone goes to the channel of the attempt's own
  call, under a new revision (`Rebound`; with no revision left it is lost, as to a page that
  is gone). `Commit` is the finaliser: an end, or an error with the text when the commit fails.
  An attempt to resume that breaks (`TellBroken`) says that the helper goes on, or commits what
  the mailbox has or what was read as all there will be, or ends without an event.
* **CliJob** is the promise of a job: accepted, started at most once, ended once, as the
  first stop decides. **CliJobs** is one job as coded. `task[t]` is what a task has taken
  with it over an await: the copy of the intent, the goal, the answer of the host. `mem` and
  `disk` are the record in memory and in the file; `Replace` writes the file first,
  `Persist` changed memory before, and the failure of either leaves the file in either form.
  `host` is the handle of the ProcessHost, `alive` the process tree, which may outlive it. The
  waiter ends the group and finalizes the handle once the leader has exited (`Exits`); it tries
  once, and if ending the group throws or the output does not come to its end (`GivesUp`), the
  handle is "stuck": it looks like a running process, and every `cancelBlocking` throws
  (`HostThrows`).
* **MC…** modules define instances: plans, batches, payloads.

Definitions that stand directly before another one and are introduced as "Mutation of"
are altered forms of it. No specification uses them; each shows a property to be sensitive
to a particular mistake.

## 4. Runs

| Run | Instance | Question |
|---|---|---|
| `SyncSession` | 2 retries, 3 generations | ownership, verdicts, stops |
| `SyncManifest_waves` | one class of operations per result, up to 2 operations, one stray frame | barrier, exact counter, no phase twice or out of order, no lost advance, no false failure, deletions first, termination |
| `SyncManifest_barrier` | two tasks per result | **violated**: see below |
| `SyncMessages_phase3` | 3 topics in 2 batches, 4 decisions per topic, one stray answer, one local deletion | alignment, repair, merge before push, announcement, termination |
| `SyncMessages_overlap` | the same without strays | **violated**: see below |
| `DbWriteQueue` | 2 callers, 3 tasks of 0 to 2 messages, 2 flushes, batches of 2 tasks and 3 messages, channel of 2 | implements the log, Ok hides nothing, bounds, barrier, flushes end |
| `DbWriteQueue_sticky` | one message, rewritten | **violated**: see below |
| `DbWrite` | 3 writers, 2 connections | lease covers the transaction, clean pool, implements `SerialWrites`, everyone is served |
| `Generation` | 2 slots, 2 chunks, 2 faults | no ended reply without a holder, no false loss, implements `Reply`, nothing left behind |
| `StreamOutput` | 3 consumers, 2 page loads, 2 recovery calls, 2 faults | no gap, the consumer catches up, the page is told |
| `CliJobs` | 1 caller, 1 unit of output, 2 faults | an end is true, implements `CliJob`, every job ends unless a save, its start or the waiter failed |
| `CliJobs_lease` | 1 caller, no output, no fault | **violated**: see below |

Why the bounds are enough. Two operations per task are what a last and a not-last
operation need; two tasks are what a race for the counter needs; two batches are what a
"current" and a "next" one need, and three topics give one batch with two and one with
one. Three generations allow start, stop that times out, stop again, and start, stop,
start. The queue's limits (16, 32, 500) are scaled to 2, 2, 3 so that each is reached and
two tasks that write the same message still meet in one batch. Three writers give one
inside, one next and one behind it; two connections let a writer begin while another's
connection is still in doubt, if the gate ever allowed it. Two slots are an owner and
one who comes while it works, and two faults a crash and what goes wrong in the recovery
from it; two chunks tell a part of a reply from none and from all. Three consumers are the
first, one that replaces it and one that replaces that; with two page loads a call of the
old page is under way while the new one works. In `CliJobs` the runner, the monitor and a
caller already give three holders of old copies; a second unit of output changes nothing
that the comparison of two counters can tell.
`CounterMod` stands for 2^32; `PendingExact` would fail on any wrap. The channel of the
attempt is unbounded in the code and in the model.

### What the violated runs show
* `SyncManifest_barrier`: two workers of a wave both read the counter as zero. The loop
  obeys the first and opens the next wave; the second then loads the new wave number and
  asks for the phase after it, which starts over running operations (and resets the counter
  below them). `docs/sync/05_流水线与阶段控制.md:48-49` promises the barrier.
* `SyncMessages_overlap`: the request for the next batch is queued before the loop learns
  that the last batch is finished, so a prompt answer is rejected with
  `PHASE3_BATCH_OVERLAP`. `docs/sync/11_冲突解决与边界情况.md:573` promises the opposite order.
* `DbWriteQueue_sticky`: a oneshot `send` that returned Ok is taken for a delivered answer;
  an aborted caller takes the failures with it. `docs/sync/12_性能优化与资源管理.md:65`.

* `CliJobs_lease`: `inspect_job` (`cli/runtime.rs:979`) passes `terminal_intent.is_none()` for a
  parameter called `has_intent`. A live job whose foreground lease is lost never gets the
  "durable Interrupted intent" that the comment at `cli/runtime.rs:996` promises; the branch is
  only taken by a job that has an intent already and needs none. No fault is needed.

The first three need a task to be preempted, or a caller to be aborted, between two particular
steps; within one session the caller of `flush` is usually the loop itself.

## 5. Fairness

Tokio polls every ready task, so the loops, workers, handlers, the queue's worker and the
teardown are weakly fair; timers fire. Nothing is assumed of the desktop in
`SyncManifest`, whose every request has a deadline. In `SyncMessages` the message diff
request has none, so `Termination` assumes `WF_vars(BatchResult)`; the acknowledgement is
not assumed, its watchdog is enough. In `SyncSession` an attempt need not end by itself,
but a cancelled one does, and a start or stop that began goes on. HTTP operations end or
fail (the client has timeouts). In `DbWrite` the statements end (SQLite's busy timeout is
bounded), a task is scheduled again, and whoever holds an open transaction commits or
drops it; a caller that neither calls nor cancels is not forced to. In `Generation` the tasks
of both processes run and an upstream reply ends (the helper has a read time-out); a frontend
asks for its pending messages, and for the mailbox, again and again as long as there is
something to ask for (strong fairness of `Recover` and `SweepLists`: it does so whenever it
comes to the foreground). In `StreamOutput` tasks run, channels deliver and promises resolve, but
nobody is obliged to reload the page or come back. In `CliJobs` tasks run and time passes
its deadline; no process has to end and nobody has to call.

## 6. Proofs

`SyncSession_proofs` proves, for all `MaxRetries` and `MaxId`, every safety property of
`SyncSession`: `TypeCorrect`, `SingleSession`, `StopLeavesNothing`, `RoutedToOwner`,
`EndsWithVerdict`, and the action properties `PublishedByOwner`, `VerdictIsFinal` and
`CleanupHarmsNobody`. The only assumption is `SessionAssumption` (both constants are
natural numbers).

The inductive invariant `IInv` (theorem `Invariance`) is needed because none of the
properties is inductive. `OneSession` depends on the handle: `HandleInv` says that every
live task is the one whose handle is kept, except between `StartOwns` and
`StartSpawns`, where none is alive. `FreshInv` says that generations above
`next_session_id` were never used, so a new owner has no old task. `ClientInv` relates
`op` to what the lifecycle mutex has established (a stop that clears has joined). 
`Ownership` relates `current`, `router` and `logger` to the live task. `Verdict`
says, location by location, that a task past its last publication either lost its
ownership or finds a terminal status, which is `VerdictWhenDone` at location "done".
The proof goes action by action; `TypeStep`, `OwnershipStep`, `TaskKeeps`,
`OwnerStep` and `VerdictStep` each carry one conjunct.

`DbWrite_proofs` proves, for every set of writers and connections, `TypeCorrect`,
`LeaseOutlivesTransaction`, `CleanPool` and `Refinement`: the coordinator implements
`SerialWrites`. The only assumption is that `None` is neither a writer nor a
connection. The properties are not inductive: that no second transaction is open
depends on who holds the gate (`Gate`: exactly the writer between admission and
release), on whose connection it is (`Connection`), on the locations where a transaction
may and must be open (`Transaction`), and what a caller hears depends on what COMMIT did
(`Report`). Each of the four has a lemma with one step per action. `Refinement` then needs
two facts about a writer that is connected: what it has open is all that is open, before
its statement (`OpenInside`) and after it (`OpenAfterStatement`); every action that
runs a statement maps to `Begin`, `Commit`, `Abort` or a stutter, and the two that answer
to `Tell`.

`CliJobs_proofs` proves, for every set of callers, every bound on output and faults:
`TypeCorrect`, `EndIsTrue` (`SettledIsFinal`), `EndSurvives` (an end that memory shows is in the
file) and `Refinement` (`JobSpec`). The assumptions are `CliJobsAssumption` (the tasks differ, the
bounds are natural numbers) and `NoneAssumption` (`None` is no record). The invariant has to
speak of what tasks carry over an await: `Answers` says that a copied answer is still true
when it is applied (an exit is final, counters only grow), `Counted` that whoever is about to
claim the end has counted the output or marked it as cut. `Sound` says of both copies of the
record what `SettledIsFinal` says of one, since a crash makes the file memory; `Early` that a
job cannot end before its process was started; `Ahead` that a file in front of memory (a save
that failed after the rename) holds an end memory may still come to; `Durable` that it is
never behind with one; `Quiet` what is true without a job. Three summaries keep the proof
short: a step moves one task (`TaskSteps`), changes the ledger to one new record that only
moves forward (`LedgerStep`), and the process only ever ends (`ProcessStep`); the lemmas about
the conjuncts and the refinement use the summaries and not the actions.

`Generation_proofs` proves, for every set of concurrent callers, every length of a reply and
every bound on faults: `Invariance`, `TypeCorrect`, `ReplyIsKept` (`ReplyKept`), `LossIsOwned`
(`LossIsReal`) and `Refinement` (every behaviour starts and steps as one of `Reply`, without
its fairness). The assumptions are `GenerationAssumption` (the bounds are natural numbers,
`None` is no slot) and `NoneAssumption` (`None` is no result). `ReplyKept` alone is not
inductive. What an attempt commits is what it read, so the invariant follows the text through
the socket: `Wires` says of every attempt that reads that the frames under way are a
conversation (an opening or a refusal comes first, an end last), that the text it has and the
text under way together are what the session received as long as it owns the session, and are
the whole reply when an end is among them. That needs `Sockets` (a new attempt in a slot finds
nothing of an earlier one: no frame, no text, no ownership, no unread command) and `Fresh` (the
start command is sent once, so it meets no session). `Life` is the session's life cycle and says
that a file is the reply it ended with; `Unsent` and `Past` say that nothing begins before the message exists and
that nobody tidies up while it waits. `Truth` says of every result, stored or about to be, that
it is the reply or an excuse, and `GivenUp` that an attempt that gives up has a reason: its
resume was denied before the session began, the helper was killed, or the session left without
an end. The step from the second look at the mailbox to the loss uses `ReplyKept` itself: the
session is gone and there is no file, so no end can have been. The lemmas about conversations
(`FirstFrame`, `DataFrame`, `LastFrame`, `CutOff`, `RestOfTalk`, `EndOfTalk`) are about
sequences alone; six summaries (`RowMoves`, `SessionMoves`, `Monotone`, `Move`, `CmdMove`,
`WireMove`) say what any step does to the row, the session, the history, a slot, its command
and its wire; apart from the types and `Sockets`, the conjuncts and the refinement are proved
from these summaries and not from the actions.

`StreamOutput_proofs` proves, for every finite set of calls, every length of a reply and every
bound on consumers, page loads and failures: `Invariance`, `TypeCorrect`, `NoGapEver` (`NoGap`)
and `AlwaysCaughtUp` (`CaughtUp`). The assumption is `OutputAssumption`. Neither property is
inductive. `Chain` says that in every channel a delta stands behind the text it continues,
`Heads` that the first delta the page would take continues what it shows, and `Given` joins the
two ends: the last event of the consumer's channel, or the page when the channel is empty, has
exactly what the holder counts as pushed. Why one consumer does not spoil what another gave is
in `Consumers` (the consumer is the last revision given out, on a page that was loaded, and a
revision that was not given out has an empty channel) and in the second half of `Heads`: a delta
at the head of a channel belongs to the consumer the page has already heard, or to the first
one, so that a page never begins a consumer with a delta. `Over` covers the one place where the
page's text changes past the channels, the result of a call: it comes with the reply in its
row, behind everything that was sent. `Roles` says who may be where, and `Roomy` reserves a
revision for every call under way, so that the bound on consumers stops no handler half way.
A last event that binds a consumer of its own (`PutAnew`) takes a revision beyond those reserved.
`Moves` sums up what any step does to the channels and the page in seven cases; `Over`, `Chain`,
`Heads` and `Given` are proved from these.

`SyncMessages_proofs` proves, for every list of disjoint batches, every set of decisions of the
desktop and every bound on stray answers and deletions: `Invariance`, `TypeCorrect` and every
safety property of the run `SyncMessages_phase3` (`CompletedIsAligned`, `AnswersMeetRequests`,
`AlwaysRepaired`, `AnnouncedOnlyWhenDone`, `PushesAreMerged`). The assumption is
`BatchesAssumption`. None of the properties is inductive. Whatever the desktop sends, `Flight`
says that a batch is in flight until its handler's word has been heard, `Owned` that all that is
or will be written belongs to topics whose hashes are to be repaired (this is why a handler adds
its topics before its first write), `Writing` that only a handler at its pulls or deletions, or
one that died there, has writes under way, `Merged` what is committed by the time of a push, and
`Ending` what the loop has seen when it announces, completes or tears down. The rest holds until
the desktop invents an answer (`Honest`): `Requests` says that between a request and its answer
nothing else is under way, `Working` and `Coming` that the batch at work and those to come are
not complete and have no topic in common, `Losses` that a failed topic leaves a dead handler and
an incomplete tracker behind, so that neither a failure nor a lost write reaches `Finalize`
unseen. The tracker is what ties the two: the last topic queues `Finalize`, and a dead handler's
topics are never the last. The steps that touch the command channel are summed up first
(`Takes`, `Starts`, `Sorts`, `Fails`, `Drains`, `Completes`, `AsksNext`, `Finishes`, `GivesUp`),
and the lemmas about the conjuncts use these.

`SyncManifest_proofs` proves, for all plans, every wrap-around of the counter and every bound on
stray results: `Invariance`, `TypeCorrect` and `PhasesInOrder` (`FramesInOrder`). The assumptions are
`PlansAssumption` and `BoundAssumption`. The order of the frames is not inductive. `Gates` says that
a phase is in the gate, is the current one, or is asked for, only after the phases before it, and
`Frames` that nothing was sent beyond the place the gate has reached (`Reached`). So two tasks that
both see the counter at zero, and even one that asks for a phase too many, cannot make a phase
repeat or go back. `Fresh` is the state before the owner wave, `Told` that a deletion the desktop has
not heard of is still in the channel.

The rest of what `SyncManifest_waves` checks, `Termination` apart, is proved under a hypothesis,
`OneOwnerTask`: no owner result asks for pulls and for other operations at once. It is part of the
theorems and no assumption of the model, because the code does not guarantee it: the run
`SyncManifest_barrier` is what happens without it. With two tasks in the owner wave TLC also
refutes `DeletesAreToldFirst`, once `MixedPlans` is given an avatar result that deletes. Nothing is asked of the other waves: an
avatar result starts one task in any case, and of the topic wave's tasks one that asks too late finds
phase 3, or 4, and asks for nothing new. Under the hypothesis `SerialInvariance` proves `SInv`, which
is `IInv`, `Serial` and `Calm`, and from it `CounterExact` (`PendingExact`), `AdvanceNotLost`
(`NoLostAdvance`), `CalmSucceeds` (`UndisturbedNeverFails`), and the action properties `BarrierHolds`
(`WaveBarrier`) and `DeletionsFirst` (`DeletesAreToldFirst`). `Serial` lives while the attempt runs:
`Counted` is the counter, a sum over nine tasks of which a step changes one (`SumStep`) or a result
starts one wave's (`SumSpawned`); `Seen` says that a task that saw zero is right as long as it may act
on it; `Waiting` that a wave is opened over nothing that runs, which keeps the counter from being reset
under an operation; `Alone` that in the first two waves at most one task is busy, which is where the
hypothesis is used; `Advance` that a phase is asked for only when its wave is over; `Behind` that no
notification of a deletion is queued behind such a request; `Carried` that a wave that is over has asked
for the next, has failed, or has a task that will ask. `Calm` says that without a disturbance the
desktop answers what was asked last. Two lemmas carry the steps: `Steady` for those that leave tasks
and counter alone, `TaskStep` for those of a task; `Opening` and `Accepted` are the two ends of a wave.

`DbWriteQueue_proofs` proves, for every set of callers, any payloads, capacity and batch limits:
`Invariance`, `FlushBarrier` (`FlushIsBarrier`), `NothingHidden` (`OkHidesNothing`),
`TransactionBound` (`BatchBound`), `TypeCorrect` and `ImplementsLog` (`IsALog`). The first three use
only `NoneAssumption` (`None` is no caller). A barrier is not inductive: what an
answer says depends on the whole way of the flush through the channel. `Order` says that the
batch, the carried task and the tasks in the channel are, in this order, exactly the part of
the log that is not settled; `Waiting` that a caller that waits has one flush under way and a
caller that does anything else has none, so that a late answer never meets a later call;
`Barrier` that what a flush waits for is in front of it, or in the batch that it closes
(`Where` says that nothing is carried then). `FirstFlush` joins them: when a flush reaches the
head of the channel, all tasks left there are later than it, so the worker holds or has settled
everything else. `Failures` needs the barrier too: a transaction that fails after an answer
fails only tasks later than that flush. The lemmas about the channel (`FlushIn`, `TaskIn`,
`FlushOut`, `TaskOut`, `ItemsIn`, `ItemsOut`) say what one item more or less changes.

The other three need `QueueAssumption`, and of it that the limits are positive and that the writes of
a task are of different messages: `pull_executor.rs:321` refuses a topic that names a message twice
before line 480 submits it. They speak of folds over sequences of any length (the messages of a
batch, the coalescing of neighbours, the dropping of repeats, the transaction itself), so the module
first proves the laws of a fold. `FoldLeft` and `FoldFunction` choose a function defined over sets of
positions; `RunExists`, `RunUnique` and `IterRun` show, by the least number at which it could go wrong
(`Least`, from the well-founded order of the numbers), that it is the run of one step after the other,
and `FoldLaws` and `FoldConcat` follow. Since an operator cannot be passed to a lemma, a step is a function
on pairs (`WriteStep`, `ApplyStep`, `CountStep`, `JoinStep`), and each fold of the model has a lemma that
equates the two. `CoalesceFold` says that merging neighbours changes neither what is written nor how
many messages there are, `FreshIsWrite` that dropping a repeat inside a task does not either; `UpsertFold`
then makes the merged transaction the fold of `Log!Apply` over the accepted tasks, which is what
`WriteLog` promises. `Batches` bounds the batch: beyond the limit of messages only one of its tasks has any,
because a task that would overfill a batch is carried. `Stored` holds the types of the rest.

Only model-checked: all liveness (`StopTakesEffect`, `Termination`, `FlushEnds`, `Served`,
`NothingLeaks`, `PageIsTold`, `Settles`, and the fairness part of `ReplySpec`), which needs ENABLED and
fairness, beyond the installed provers.

## 7. Not modelled

Within the modelled parts: the Android foreground lease of a session, log files and
metrics, panics (except of the tasks in `DbWrite`) and poisoned locks, SQLite's own lock
between processes, content of DTOs and hashes, HTTP limits and NDJSON
validation, the exact backoff times, the retention of caches. Of the streamed reply: the direct
SSE path of other platforms, the turn lease of groups and its CLI steps, the HTTP clients,
retries of the helper connection, the text of Aurora's blocks; a page that forgets a finished message after a second. That
`get_active_generations` first takes in what the mailbox has is in `Generation` (`SweepLists`,
`SweepClaims`, `MailRow`) and not in `StreamOutput`. Of the write queue's transaction: rows of
messages already deleted, which are skipped, and the check that the topic is live, which is
one of the ways a transaction may fail. A result of a
Tauri command is taken to arrive behind the events sent before it. Of the CLI runtime: several
jobs at once (they meet only in admission and eviction), the eviction of retained jobs and
remembered handles, the quarantine of a ledger that cannot be read, reading output by
cursor, sessions; the foreground wait of a run is a poll.

Some properties name their exceptions, which are real: `LossIsReal` and `ReplyKept` do not hold of
a session that was killed with the helper, and `LossIsReal` not when the resume of a restarted
application overtakes the start command of the old one; `NothingLeaks` leaves the session whose
publication failed; `PageIsTold` excepts a recovery that ends without an event while another call
is its attached consumer, and a page that is gone but takes the output; `Settles` a failed save,
which may end the tasks that watch the job, a process that could not be started, and a handle
whose waiter gave up. The last is one fault and for good: the waiter tries once under
`runCatching` (`CliProcessHost.kt:1257-1260`), nobody else finalizes the handle, every later
cancellation throws (lines 1408-1411), and the job stays running, its handle counted as active
and its lease held, until the application is started again.
`LocalTopicDelete` is the
one step of code outside the sync: the user deletes a topic while it runs.
Whole components that are not modelled yet are listed in `PROJECT.json` with the reason.
