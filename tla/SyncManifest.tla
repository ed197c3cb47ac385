---------------------------- MODULE SyncManifest ----------------------------
(***************************************************************************)
(* The metadata half of one sync attempt: the owner, avatar and topic      *)
(* manifest waves and the topic hash comparison that run_sync_session      *)
(* drives until Phase 3 starts.                                            *)
(*                                                                         *)
(* The attempt loop is one task.  It polls its command channel before the  *)
(* socket (the select is biased), so a frame is read only while the        *)
(* channel is empty.  The operations a manifest result asks for run in up  *)
(* to three tasks of their own.  They share the counter pending_tasks and  *)
(* the number of the current wave with the loop, without a lock, and every *)
(* one of them that reads the counter as zero asks for the next phase.     *)
(*                                                                         *)
(* A chunk of a batched pull or push is one operation here.  The desktop   *)
(* is the environment: it answers a request once, late or never, and may   *)
(* send stray results.                                                     *)
(***************************************************************************)
EXTENDS Naturals, Sequences, FiniteSets

CONSTANTS
  Plans,       \* Plans[w]: the operations a result of wave w may ask for
  CounterMod,  \* the wrap-around of the pending counter (2^32 in the code)
  MaxStray     \* bound on the stray result frames of the desktop

Owner  == 1
Avatar == 2
Topic  == 3
Wave   == {Owner, Avatar, Topic}
Kind   == {"pull", "push", "other"}
Worker == Wave \X Kind

\* Work of a result: chunks to pull, chunks of topics to push, single
\* operations, how many of those are PushDelete, and whether the result
\* marks an owner as changed.
Plan == [pull : Nat, push : Nat, other : Nat, dels : Nat, mark : BOOLEAN]
Size(p) == p.pull + p.push + p.other

ASSUME PlansAssumption ==
  /\ Plans \in [Wave -> SUBSET Plan]
  /\ \A w \in Wave : \A p \in Plans[w] :
       /\ p.dels <= p.other
       /\ Size(p) < CounterMod
       /\ w # Topic => p.push = 0                 \* only topics are batch-pushed
       /\ w = Avatar => p.pull = 0                \* avatars are pulled one by one
       /\ w = Owner /\ p.pull > 0 => p.mark       \* a pulled owner is a changed one
ASSUME BoundAssumption == CounterMod \in Nat \ {0} /\ MaxStray \in Nat

VARIABLES
  kickoff,      \* owner_manifest_pending: the owner request is still to be made
  phase,        \* manifest_phase: 1 to 3 is a wave, 4 is past the manifests
  pending,      \* pending_tasks
  armed,        \* the wave whose result ManifestResponseTracker waits for, or 0
  gate,         \* phase_gate: the phase commands already obeyed
  rx,           \* the command channel
  wire,         \* requests the desktop has not answered
  changed,      \* changed_owners is not empty
  hashExpected, \* expected_topic_hash_results is Some
  work,         \* the operation tasks
  deadline,     \* the response watchdogs
  dirty,        \* writes accepted since the last successful flush
  outcome,      \* how the attempt left this half, or "none"
  stray,        \* stray frames sent so far
  sent,         \* history: frames sent to the desktop
  deleted,      \* history: PushDelete operations done
  failed,       \* history: operations that failed or were given up
  disturbed     \* history: a failure, a stray frame or an expired watchdog

vars == <<kickoff, phase, pending, armed, gate, rx, wire, changed, hashExpected, work,
          deadline, dirty, outcome, stray, sent, deleted, failed, disturbed>>

PhaseCommand == {"StartAvatarMetadata", "StartTopicMetadata",
                 "StartTopicValidation", "StartMessages"}
Command == PhaseCommand \cup {"NotifyDelete", "FailFatal", "FailRestart"}
Hash    == 4                    \* the topic hash comparison, next to the waves
Request == Wave \cup {Hash}
Frame   == {"OwnerRequest", "AvatarRequest", "OwnerCompleted",
            "TopicRequest", "TopicCompleted", "HashRequest", "Delete"}

Idle == [pc |-> "idle", left |-> 0, dels |-> 0]
Task(n, d) == IF n = 0 THEN Idle ELSE [pc |-> "run", left |-> n, dels |-> d]
Busy(k) == work[k].pc \in {"run", "subbed", "zero"}

\* next_manifest_command
NextCommand(p) ==
  CASE p = Owner  -> <<"StartAvatarMetadata">>
    [] p = Avatar -> <<"StartTopicMetadata">>
    [] p = Topic  -> <<"StartTopicValidation">>
    [] OTHER      -> <<>>

Init ==
  /\ kickoff = TRUE
  /\ phase = Owner
  /\ pending = 0
  /\ armed = 0
  /\ gate = {}
  /\ rx = <<>>
  /\ wire = {}
  /\ changed = FALSE
  /\ hashExpected = FALSE
  /\ work = [k \in Worker |-> Idle]
  /\ deadline = [r \in Request |-> "off"]
  /\ dirty = FALSE
  /\ outcome = "none"
  /\ stray = 0
  /\ sent = <<>>
  /\ deleted = 0
  /\ failed = 0
  /\ disturbed = FALSE

-----------------------------------------------------------------------------
(* The attempt loop: commands.                                             *)

Receive(c) == outcome = "none" /\ ~kickoff /\ rx # <<>> /\ Head(rx) = c
\* Mutation of First: the phase gate is not asked.
FirstUngated(c) == Receive(c) /\ gate' = gate \cup {c}

First(c)   == Receive(c) /\ c \notin gate /\ gate' = gate \cup {c}

\* A phase command that was obeyed before is dropped.
RepeatedPhase ==
  /\ \E c \in PhaseCommand : Receive(c) /\ c \in gate
  /\ rx' = Tail(rx)
  /\ UNCHANGED <<kickoff, phase, pending, armed, gate, wire, changed, hashExpected, work,
                 deadline, dirty, outcome, stray, sent, deleted, failed, disturbed>>

\* The flush at the head of a phase reports a failed write: the attempt fails.
DrainFails ==
  /\ \E c \in PhaseCommand \ {"StartMessages"} : First(c)
  /\ dirty
  /\ rx' = Tail(rx)
  /\ outcome' = "fatal"
  /\ disturbed' = TRUE
  /\ UNCHANGED <<kickoff, phase, pending, armed, wire, changed, hashExpected, work,
                 deadline, dirty, stray, sent, deleted, failed>>

\* Arm the tracker for wave w and send its request ("rest" is what stays in
\* the channel).  When the tracker still
\* waits for an earlier result the attempt fails; the wave number is already
\* stored then.  Otherwise both counters restart at zero.
OpenWave(w, rest, frames, request) ==
  /\ phase' = w
  /\ IF armed = 0
     THEN /\ armed' = w
          /\ pending' = 0
          /\ rx' = rest
          /\ wire' = wire \cup {w}
          /\ deadline' = [deadline EXCEPT ![w] = "armed"]
          /\ sent' = sent \o frames \o <<request>>
     ELSE /\ rx' = Append(rest, "FailFatal")
          /\ sent' = sent \o frames
          /\ UNCHANGED <<armed, pending, wire, deadline>>

\* Building a manifest or the topic hashes from the database fails.
BuildFails(rest, frames) ==
  /\ rx' = Append(rest, "FailFatal")
  /\ sent' = sent \o frames
  /\ disturbed' = TRUE
  /\ UNCHANGED <<phase, pending, armed, wire, deadline, hashExpected>>

\* The owner wave starts before the channel and the socket are looked at.
OwnerKickoff ==
  /\ outcome = "none" /\ kickoff
  /\ kickoff' = FALSE
  /\ \/ OpenWave(Owner, rx, <<>>, "OwnerRequest") /\ UNCHANGED <<hashExpected, disturbed>>
     \/ BuildFails(rx, <<>>)
  /\ UNCHANGED <<gate, changed, work, dirty, outcome, stray, deleted, failed>>

\* Mutation of StartAvatarMetadata: the writes of the owner wave are not flushed.
StartAvatarMetadataUnflushed ==
  /\ First("StartAvatarMetadata")
  /\ OpenWave(Avatar, Tail(rx), <<>>, "AvatarRequest")
  /\ UNCHANGED <<kickoff, hashExpected, changed, work, dirty, outcome, stray, deleted, failed,
                 disturbed>>

StartAvatarMetadata ==
  /\ First("StartAvatarMetadata")
  /\ dirty' = FALSE
  /\ \/ OpenWave(Avatar, Tail(rx), <<>>, "AvatarRequest") /\ UNCHANGED <<hashExpected, disturbed>>
     \/ BuildFails(Tail(rx), <<>>)
  /\ UNCHANGED <<kickoff, changed, work, outcome, stray, deleted, failed>>

StartTopicMetadata ==
  /\ First("StartTopicMetadata")
  /\ dirty' = FALSE
  /\ \/ /\ ~changed
        /\ rx' = Append(Tail(rx), "StartTopicValidation")
        /\ sent' = Append(sent, "OwnerCompleted")
        /\ UNCHANGED <<phase, pending, armed, wire, deadline, hashExpected, disturbed>>
     \/ /\ changed
        /\ OpenWave(Topic, Tail(rx), <<"OwnerCompleted">>, "TopicRequest")
        /\ UNCHANGED <<hashExpected, disturbed>>
     \/ changed /\ BuildFails(Tail(rx), <<"OwnerCompleted">>)
  /\ UNCHANGED <<kickoff, changed, work, outcome, stray, deleted, failed>>

\* Without a topic to compare (there is none when no owner changed) the loop
\* goes straight on to Phase 3.
StartTopicValidation ==
  /\ First("StartTopicValidation")
  /\ dirty' = FALSE
  /\ \/ /\ phase' = 4
        /\ rx' = Append(Tail(rx), "StartMessages")
        /\ sent' = Append(sent, "TopicCompleted")
        /\ UNCHANGED <<wire, deadline, hashExpected, disturbed, pending, armed>>
     \/ /\ changed
        /\ hashExpected' = TRUE
        /\ wire' = wire \cup {Hash}
        /\ deadline' = [deadline EXCEPT ![Hash] = "armed"]
        /\ rx' = Tail(rx)
        /\ sent' = sent \o <<"TopicCompleted", "HashRequest">>
        /\ UNCHANGED <<phase, disturbed, pending, armed>>
     \/ changed /\ BuildFails(Tail(rx), <<"TopicCompleted">>)
  /\ UNCHANGED <<kickoff, changed, work, outcome, stray, deleted, failed>>

\* Phase 3 begins: SyncMessages models what follows.
StartMessages ==
  /\ First("StartMessages")
  /\ rx' = Tail(rx)
  /\ outcome' = "messages"
  /\ UNCHANGED <<kickoff, phase, pending, armed, wire, changed, hashExpected, work,
                 deadline, dirty, stray, sent, deleted, failed, disturbed>>

NotifyDelete ==
  /\ Receive("NotifyDelete")
  /\ rx' = Tail(rx)
  /\ sent' = Append(sent, "Delete")
  /\ UNCHANGED <<kickoff, phase, pending, armed, gate, wire, changed, hashExpected, work,
                 deadline, dirty, outcome, stray, deleted, failed, disturbed>>

\* FailAttempt and FailAttemptDetailed: a transport failure or a stale
\* snapshot restarts the attempt, every other code ends the session.
FailAttempt ==
  /\ \/ Receive("FailFatal") /\ outcome' = "fatal"
     \/ Receive("FailRestart") /\ outcome' = "restart"
  /\ rx' = Tail(rx)
  /\ UNCHANGED <<kickoff, phase, pending, armed, gate, wire, changed, hashExpected, work,
                 deadline, dirty, stray, sent, deleted, failed, disturbed>>

-----------------------------------------------------------------------------
(* The attempt loop: frames.                                               *)

\* Mutation of HandleDiff: an accepted result does not disarm the tracker.
HandleDiffStaysArmed(w, p) ==
  /\ armed = w /\ phase = w
  /\ pending' = (pending + Size(p)) % CounterMod
  /\ rx' = IF pending' = 0 THEN NextCommand(phase) ELSE rx
  /\ changed' = (changed \/ (w = Owner /\ p.mark))
  /\ work' = [work EXCEPT ![<<w, "pull">>]  = Task(p.pull, 0),
                          ![<<w, "push">>]  = Task(p.push, 0),
                          ![<<w, "other">>] = Task(p.other, p.dels)]
  /\ UNCHANGED armed

\* handle_diff on a result of wave w.  The tracker must wait for exactly this
\* type in the current wave.  The operations are counted before their tasks
\* are spawned, so an empty result asks for the next phase at once.
HandleDiff(w, p) ==
  IF armed = w /\ phase = w
  THEN /\ armed' = 0
       /\ pending' = (pending + Size(p)) % CounterMod
       /\ rx' = IF pending' = 0 THEN NextCommand(phase) ELSE rx
       /\ changed' = (changed \/ (w = Owner /\ p.mark))
       /\ work' = [work EXCEPT ![<<w, "pull">>]  = Task(p.pull, 0),
                               ![<<w, "push">>]  = Task(p.push, 0),
                               ![<<w, "other">>] = Task(p.other, p.dels)]
  ELSE /\ rx' = <<"FailFatal">>
       /\ UNCHANGED <<armed, pending, changed, work>>

ReadFrame == outcome = "none" /\ ~kickoff /\ rx = <<>>

ManifestResult(w) ==
  /\ ReadFrame
  /\ w \in wire
  /\ \E p \in Plans[w] : HandleDiff(w, p)
  /\ wire' = wire \ {w}
  /\ UNCHANGED <<kickoff, phase, gate, hashExpected, deadline, dirty, outcome, stray, sent,
                 deleted, failed, disturbed>>

\* SYNC_TOPIC_DIFF_RESULT moves on to wave 4 before it looks for the request
\* it answers.
HandleTopicDiff ==
  /\ phase' = 4
  /\ hashExpected' = FALSE
  /\ rx' = IF hashExpected THEN <<"StartMessages">> ELSE <<"FailFatal">>

TopicDiffResult ==
  /\ ReadFrame
  /\ Hash \in wire
  /\ HandleTopicDiff
  /\ wire' = wire \ {Hash}
  /\ UNCHANGED <<kickoff, pending, armed, gate, changed, work, deadline, dirty, outcome, stray,
                 sent, deleted, failed, disturbed>>

\* The desktop repeats a result or sends one nobody asked for.
StrayResult ==
  /\ ReadFrame
  /\ stray < MaxStray
  /\ stray' = stray + 1
  /\ disturbed' = TRUE
  /\ \/ /\ \E w \in Wave : \E p \in Plans[w] : HandleDiff(w, p)
        /\ UNCHANGED <<phase, hashExpected>>
     \/ HandleTopicDiff /\ UNCHANGED <<armed, pending, changed, work>>
  /\ UNCHANGED <<kickoff, gate, wire, deadline, dirty, outcome, sent, deleted, failed>>

\* The socket closes, a send or the heartbeat fails, the user stops the
\* session (the first branch of the select), or the desktop reports an error
\* of its own, a stale snapshot among them.
ConnectionEnds ==
  /\ outcome = "none"
  /\ outcome' \in {"lost", "cancelled", "fatal", "restart"}
  /\ disturbed' = TRUE
  /\ UNCHANGED <<kickoff, phase, pending, armed, gate, rx, wire, changed, hashExpected, work,
                 deadline, dirty, stray, sent, deleted, failed>>

-----------------------------------------------------------------------------
(* The operation tasks.  fetch_sub, the load that follows it and the load  *)
(* of the wave number are separate steps: nothing holds the other tasks or *)
(* the loop back between them.  "other" runs its operations concurrently   *)
(* but in one task that does not wait between these steps, so a single     *)
(* location serves for all of them.                                        *)

Working(k, loc) == outcome = "none" /\ work[k].pc = loc
Resume(t) == [t EXCEPT !.pc = IF t.left > 0 THEN "run" ELSE "done"]

\* Mutation of OperationDone: the counter is lowered twice.
OperationDoneTwice(k) ==
  /\ Working(k, "run")
  /\ pending' = pending - 2
  /\ work' = [work EXCEPT ![k].pc = "subbed", ![k].left = @ - 1]
  /\ UNCHANGED <<kickoff, phase, armed, gate, rx, wire, changed, hashExpected, deadline, dirty,
                 outcome, stray, sent, deleted, failed, disturbed>>

\* An operation ends well and is taken off the counter.  A pull leaves
\* writes in the write queue; a PushDelete has queued its notification.
OperationDone(k) ==
  /\ Working(k, "run")
  /\ pending' = (pending + CounterMod - 1) % CounterMod
  /\ \E del \in BOOLEAN, wrote \in BOOLEAN :
       /\ del => work[k].dels > 0
       /\ work[k].dels = work[k].left => del
       /\ k[2] = "pull" => wrote
       /\ wrote => k[2] # "push" /\ ~del
       /\ work' = [work EXCEPT ![k] = [pc   |-> "subbed",
                                       left |-> @.left - 1,
                                       dels |-> IF del THEN @.dels - 1 ELSE @.dels]]
       /\ rx' = IF del THEN Append(rx, "NotifyDelete") ELSE rx
       /\ deleted' = IF del THEN deleted + 1 ELSE deleted
       /\ dirty' = (dirty \/ wrote)
  /\ UNCHANGED <<kickoff, phase, armed, gate, wire, changed, hashExpected, deadline, outcome,
                 stray, sent, failed, disturbed>>

\* Mutation of ReadPending: the counter is read only while operations are left.
ReadPendingSkipsLast(k) ==
  /\ Working(k, "subbed")
  /\ work' = [work EXCEPT ![k] = IF @.left > 0 /\ pending = 0 THEN [@ EXCEPT !.pc = "zero"]
                                                              ELSE Resume(@)]
  /\ UNCHANGED <<kickoff, phase, pending, armed, gate, rx, wire, changed, hashExpected, deadline,
                 dirty, outcome, stray, sent, deleted, failed, disturbed>>

\* The counter is read.  Topic pushes look at it only after the last chunk.
ReadPending(k) ==
  /\ Working(k, "subbed")
  /\ LET t == work[k]
         look == k[2] = "push" => t.left = 0
     IN  work' = [work EXCEPT ![k] = IF look /\ pending = 0
                                     THEN [t EXCEPT !.pc = "zero"]
                                     ELSE Resume(t)]
  /\ UNCHANGED <<kickoff, phase, pending, armed, gate, rx, wire, changed, hashExpected, deadline,
                 dirty, outcome, stray, sent, deleted, failed, disturbed>>

\* Mutation of AskNextPhase: the phase command overtakes the commands before it.
AskNextPhaseUrgently(k) ==
  /\ Working(k, "zero")
  /\ rx' = NextCommand(phase) \o rx
  /\ work' = [work EXCEPT ![k] = Resume(work[k])]
  /\ UNCHANGED <<kickoff, phase, pending, armed, gate, wire, changed, hashExpected, deadline,
                 dirty, outcome, stray, sent, deleted, failed, disturbed>>

\* The wave number is read and the command that follows that wave is sent.
AskNextPhase(k) ==
  /\ Working(k, "zero")
  /\ rx' = rx \o NextCommand(phase)
  /\ work' = [work EXCEPT ![k] = Resume(work[k])]
  /\ UNCHANGED <<kickoff, phase, pending, armed, gate, wire, changed, hashExpected, deadline,
                 dirty, outcome, stray, sent, deleted, failed, disturbed>>

\* Mutation of OperationFails: a failed operation is taken off the counter.
OperationFailsAndCounts(k) ==
  /\ Working(k, "run")
  /\ rx' = Append(rx, "FailFatal")
  /\ pending' = (pending + CounterMod - 1) % CounterMod
  /\ work' = [work EXCEPT ![k] = [pc |-> "done", left |-> 0, dels |-> 0]]
  /\ failed' = failed + work[k].left
  /\ disturbed' = TRUE
  /\ UNCHANGED <<kickoff, phase, armed, gate, wire, changed, hashExpected, deadline, dirty,
                 outcome, stray, sent, deleted>>

\* An operation fails and is never taken off the counter.  A batch task
\* returns; the other operations of an "other" task go on.
OperationFails(k) ==
  /\ Working(k, "run")
  /\ \E c \in {"FailFatal", "FailRestart"} : rx' = Append(rx, c)
  /\ work' = [work EXCEPT ![k] =
                IF k[2] = "other" /\ @.left > 1
                THEN [pc |-> "run", left |-> @.left - 1,
                      dels |-> IF @.dels = @.left THEN @.dels - 1 ELSE @.dels]
                ELSE [pc |-> "done", left |-> 0, dels |-> 0]]
  /\ failed' = failed + (IF k[2] = "other" THEN 1 ELSE work[k].left)
  /\ disturbed' = TRUE
  /\ UNCHANGED <<kickoff, phase, pending, armed, gate, wire, changed, hashExpected, deadline,
                 dirty, outcome, stray, sent, deleted>>

-----------------------------------------------------------------------------
(* The response watchdogs: after the timeout one reads the wave number and *)
(* then, separately, whether the response is still missing.                *)

WavesOf(r) == IF r = Hash THEN Topic ELSE r

DeadlineExpires(r) ==
  /\ outcome = "none"
  /\ deadline[r] = "armed"
  /\ deadline' = [deadline EXCEPT ![r] = IF phase = WavesOf(r) THEN "expired" ELSE "off"]
  /\ disturbed' = TRUE
  /\ UNCHANGED <<kickoff, phase, pending, armed, gate, rx, wire, changed, hashExpected, work,
                 dirty, outcome, stray, sent, deleted, failed>>

\* Mutation of DeadlineChecks: a missing response is not reported.
DeadlineIsSilent(r) ==
  /\ outcome = "none" /\ deadline[r] = "expired"
  /\ deadline' = [deadline EXCEPT ![r] = "off"]
  /\ UNCHANGED <<kickoff, phase, pending, armed, gate, rx, wire, changed, hashExpected, work,
                 dirty, outcome, stray, sent, deleted, failed, disturbed>>

DeadlineChecks(r) ==
  /\ outcome = "none"
  /\ deadline[r] = "expired"
  /\ deadline' = [deadline EXCEPT ![r] = "off"]
  /\ LET missing == IF r = Hash THEN hashExpected ELSE armed # 0
     IN  rx' = IF missing THEN Append(rx, "FailFatal") ELSE rx
  /\ UNCHANGED <<kickoff, phase, pending, armed, gate, wire, changed, hashExpected, work, dirty,
                 outcome, stray, sent, deleted, failed, disturbed>>

-----------------------------------------------------------------------------
Loop ==
  \/ OwnerKickoff \/ RepeatedPhase \/ DrainFails \/ StartAvatarMetadata \/ StartTopicMetadata
  \/ StartTopicValidation \/ StartMessages \/ NotifyDelete \/ FailAttempt

Task_(k) == OperationDone(k) \/ ReadPending(k) \/ AskNextPhase(k) \/ OperationFails(k)
Watchdog(r) == DeadlineExpires(r) \/ DeadlineChecks(r)

Environment ==
  \/ \E w \in Wave : ManifestResult(w)
  \/ TopicDiffResult \/ StrayResult \/ ConnectionEnds

\* The attempt has left this half of the session.
Left == outcome # "none" /\ UNCHANGED vars

Next ==
  \/ Loop
  \/ \E k \in Worker : Task_(k)
  \/ \E r \in Request : Watchdog(r)
  \/ Environment
  \/ Left

\* The loop and every spawned task are scheduled, timers fire, and an HTTP
\* operation ends or fails.  Nothing is assumed of the desktop.
Fairness ==
  /\ WF_vars(Loop)
  /\ \A k \in Worker : WF_vars(Task_(k))
  /\ \A r \in Request : WF_vars(Watchdog(r))

Spec == Init /\ [][Next]_vars /\ Fairness

-----------------------------------------------------------------------------
TypeOK ==
  /\ kickoff \in BOOLEAN
  /\ phase \in Request
  /\ pending \in 0 .. (CounterMod - 1)
  /\ armed \in Wave \cup {0}
  /\ gate \subseteq PhaseCommand
  /\ rx \in Seq(Command)
  /\ wire \subseteq Request
  /\ changed \in BOOLEAN /\ hashExpected \in BOOLEAN /\ dirty \in BOOLEAN
  /\ work \in [Worker -> [pc : {"idle", "run", "subbed", "zero", "done"},
                          left : Nat, dels : Nat]]
  /\ deadline \in [Request -> {"off", "armed", "expired"}]
  /\ outcome \in {"none", "messages", "fatal", "restart", "lost", "cancelled"}
  /\ stray \in 0 .. MaxStray
  /\ sent \in Seq(Frame)
  /\ deleted \in Nat /\ failed \in Nat
  /\ disturbed \in BOOLEAN

\* Operations that still run.
OfWave(w) == work[<<w, "pull">>].left + work[<<w, "push">>].left + work[<<w, "other">>].left
Outstanding == OfWave(Owner) + OfWave(Avatar) + OfWave(Topic)

\* pending_tasks is the number of operations that run or failed: it never
\* wraps and is never reset under a running operation.
PendingExact == outcome = "none" => pending = Outstanding + failed

Starts == sent' # sent /\ sent'[Len(sent')] # "Delete"

\* A request or a phase completion goes out only when every operation of the
\* waves before it succeeded and the writes they left were flushed.
WaveBarrier == [][Starts => Outstanding = 0 /\ failed = 0 /\ ~dirty']_vars

\* The desktop hears of every deletion a PushDelete made before it is told
\* that the phase is over or is asked for the next manifest.
Times(s, x) == Cardinality({i \in DOMAIN s : s[i] = x})
DeletesAreToldFirst == [][Starts => deleted = Times(sent, "Delete")]_vars

\* No wave is left behind: once its result is in, no operation runs and none
\* failed, the command that follows it was sent, even though no task waits
\* for the others.
NoLostAdvance ==
  outcome = "none" /\ ~kickoff /\ rx = <<>> /\ armed = 0 /\ phase \in Wave /\ failed = 0
  /\ (\A k \in Worker : ~Busy(k)) => NextCommand(phase)[1] \in gate

\* Frames of the phases in the order of the phases, none twice: two tasks
\* that both saw the counter at zero do not repeat a phase.
PhaseOrder == <<"OwnerRequest", "AvatarRequest", "OwnerCompleted", "TopicRequest",
                "TopicCompleted", "HashRequest">>
Place(f) == CHOOSE i \in DOMAIN PhaseOrder : PhaseOrder[i] = f
FramesInOrder ==
  \A i, j \in DOMAIN sent :
    i < j /\ "Delete" \notin {sent[i], sent[j]} => Place(sent[i]) < Place(sent[j])

\* With an answering desktop and no failing operation the attempt never fails.
UndisturbedNeverFails ==
  ~disturbed => outcome \in {"none", "messages"} /\ \A i \in DOMAIN rx : rx[i] # "FailFatal"

\* The attempt always comes to an end: a missing answer runs into its
\* watchdog, and the last operation of a wave moves it on.
Termination == <>(outcome # "none")
=============================================================================
