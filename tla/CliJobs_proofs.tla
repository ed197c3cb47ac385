---------------------------- MODULE CliJobs_proofs ----------------------------
(***************************************************************************)
(* Proofs about CliJobs, for every set of callers and all bounds.          *)
(*                                                                         *)
(* Three summaries carry the argument.  What a task brings back from the   *)
(* ProcessHost stays true while it waits for the ledger (Holding); a step  *)
(* changes the ledger to one new record at most, which only moves forward  *)
(* (Changes, LedgerStep); and the process only ever ends (ProcessStep).    *)
(* The rest of the invariant, and the refinement, follow from these.       *)
(***************************************************************************)
EXTENDS CliJobs, TLAPS

\* What a task at x may rely on, with the handle at h and w bytes written: an
\* exit is final, and who is past the kill has seen the process gone.
Holding(x, h, w) ==
  /\ x.pc \notin {"apply", "record", "note"} => x.resp = None
  /\ x.pc = "apply" => x.resp # None
  /\ x.resp # None =>
       /\ x.resp.is = "missing" => x.resp.out = 0
       /\ x.resp.is # "missing" => h # "none" /\ x.resp.out <= w
       /\ x.resp.is = "exited" => h = "done" /\ x.resp.out = w
       /\ x.pc = "record" => x.resp.is = "exited"
  /\ x.pc \in {"refresh", "record", "claim"} => h = "done"
  /\ x.pc \in {"bind", "intend", "kill", "refresh", "record", "claim"} => x.goal \in Target

Answers == \A t \in Task : Holding(task[t], host, written)

\* Who is about to claim the end has counted the output, or marked it as cut.
Full(j)  == j.out = written \/ j.cut
Counted  == \A t \in Task : task[t].pc = "claim" /\ Active(mem) => Full(mem)

\* Without a job nobody works and the host has no handle; a file without the
\* job means that nothing was started.
Quiet ==
  /\ mem = None => disk = None /\ host = "none" /\ \A t \in Task : task[t].pc = "idle"
  /\ disk = None => starts = 0
  /\ host # "none" => starts = 1
  /\ starts \in {0, 1}
  /\ starts = 0 => written = 0
  /\ host = "done" => ~alive

\* A record tells no more than what happened.
SoundJob(j) ==
  j # None =>
    /\ j.out <= written
    /\ j.state \in Terminal \ {"interrupted"} => ~Open /\ ~alive /\ Full(j)

Sound == SoundJob(mem) /\ SoundJob(disk)

\* Before its process is started a job can only be interrupted.
EarlyJob(j) == j # None /\ (j.state \in Terminal => j.state = "interrupted")

Early ==
  task[Runner].pc = "start" => host = "none" /\ starts = 0 /\ EarlyJob(mem) /\ EarlyJob(disk)

\* An end that only the file has is one that memory may still come to.
Ahead ==
  Active(mem) /\ disk # None /\ disk.state \in Terminal =>
    \/ disk.state = "interrupted"
    \/ mem.intent # None /\ disk.state = mem.intent
    \/ mem.intent = None /\ starts = 1 /\ disk.state \in {"completed", "failed"}

\* The file is never behind memory with the end of a job.
Durable == mem # None /\ mem.state \in Terminal => disk = mem

IInv == TypeOK /\ Answers /\ Counted /\ Quiet /\ Sound /\ Early /\ Ahead /\ Durable

-----------------------------------------------------------------------------
\* What an applied answer makes of an active job: only an exit settles it, and
\* a missing process interrupts it when nobody asked for its end.
LEMMA AppliedFacts ==
  ASSUME NEW j \in Job, NEW r \in Answer, NEW f \in BOOLEAN, Active(j)
  PROVE  /\ Applied(j, r, f) \in Job
         /\ Applied(j, r, f).cut = j.cut
         /\ Applied(j, r, f).out = IF r.is = "missing" \/ r.out < j.out THEN j.out ELSE r.out
         /\ Applied(j, r, f).intent = j.intent
              \/ (j.intent = None /\ r.is = "running" /\ Applied(j, r, f).intent = "interrupted")
         /\ Applied(j, r, f).state \in Terminal =>
              \/ r.is = "exited" /\ j.intent # None /\ Applied(j, r, f).state = j.intent
              \/ r.is = "exited" /\ j.intent = None /\ Applied(j, r, f).state \in {"completed", "failed"}
              \/ r.is = "missing" /\ j.intent = None /\ Applied(j, r, f).state = "interrupted"
         /\ Applied(j, r, f).state \in Terminal => Applied(j, r, f).intent = j.intent
<1> USE NoneAssumption, CliJobsAssumption DEF Job, Answer, Target, Terminal, Active
<1>1. CASE r.is = "exited" /\ j.intent # None
  BY <1>1 DEF Applied, Observe, ObservedState, LeaseFacts
<1>2. CASE r.is = "exited" /\ j.intent = None
  BY <1>2 DEF Applied, Observe, ObservedState, LeaseFacts
<1>3. CASE r.is = "running"
  BY <1>3 DEF Applied, Observe, ObservedState, LeaseFacts, WithIntent
<1>4. CASE r.is = "missing"
  BY <1>4 DEF Applied, Observe, ObservedState, LeaseFacts
<1> QED  BY <1>1, <1>2, <1>3, <1>4

-----------------------------------------------------------------------------
(* Where a task goes on.                                                   *)

LEMMA Tasks == Runner \in Task /\ Monitor \in Task /\ Runner # Monitor /\ \A c \in Caller : c \in Task
BY CliJobsAssumption DEF Task

LEMMA IdleTyped == Idle \in TaskState
BY DEF Idle, TaskState, Location

TaskTyped == task \in [Task -> TaskState]

\* After the step task t is at l with goal g and answer r, the others are
\* where they were.
At(t, l, g, r) ==
  /\ task' \in [Task -> TaskState]
  /\ task'[t].pc = l /\ task'[t].goal = g /\ task'[t].resp = r
  /\ \A u \in Task \ {t} : task'[u] = task[u]

\* The runner has spawned the monitor.
Spawned ==
  /\ task' \in [Task -> TaskState]
  /\ task'[Runner].pc = "idle" /\ task'[Runner].resp = None
  /\ task'[Monitor].pc = "look" /\ task'[Monitor].resp = None
  /\ \A u \in Task \ {Runner, Monitor} : task'[u] = task[u]

LEMMA GotoFacts ==
  ASSUME NEW t \in Task, NEW l \in Location, TaskTyped, Goto(t, l)
  PROVE  At(t, l, task[t].goal, task[t].resp)
BY DEF Goto, TaskTyped, TaskState, At

LEMMA ReturnFacts ==
  ASSUME NEW t \in Task, TaskTyped, Return(t)
  PROVE  At(t, "idle", None, None)
<1>1. Idle.pc = "idle" /\ Idle.goal = None /\ Idle.resp = None
  BY DEF Idle
<1> QED  BY <1>1, IdleTyped DEF Return, TaskTyped, At

LEMMA SpawnFacts ==
  ASSUME TaskTyped, Spawn
  PROVE  Spawned
<1> DEFINE look == [Idle EXCEPT !.pc = "look"]
<1>1. look \in TaskState /\ look.pc = "look" /\ look.resp = None
  BY DEF Idle, TaskState, Location
<1>2. Idle.pc = "idle" /\ Idle.resp = None
  BY DEF Idle
<1>3. task' = [task EXCEPT ![Runner] = Idle, ![Monitor] = look]
  BY DEF Spawn
<1> HIDE DEF look
<1> QED  BY <1>1, <1>2, <1>3, Tasks, IdleTyped DEF TaskTyped, Spawned

\* A task is put in a new state.
LEMMA PutFacts ==
  ASSUME NEW t \in Task, NEW x \in TaskState, TaskTyped, task' = [task EXCEPT ![t] = x]
  PROVE  At(t, x.pc, x.goal, x.resp)
BY DEF TaskTyped, At

\* The other ways a task is sent on.
LEMMA MoveFacts ==
  ASSUME NEW t \in Task, TaskTyped, NEW l \in Location, NEW f \in BOOLEAN,
         NEW g \in Target \cup {None}, NEW r \in Answer \cup {None}
  PROVE  /\ task' = [task EXCEPT ![t].pc = l, ![t].goal = g] => At(t, l, g, task[t].resp)
         /\ task' = [task EXCEPT ![t].pc = l, ![t].resp = r] => At(t, l, task[t].goal, r)
         /\ Take(t, l, f, g) => At(t, l, g, task[t].resp)
         /\ Enter(t, l, g) => At(t, l, g, None)
<1>1. task[t] \in TaskState
  BY DEF TaskTyped
<1>2. ASSUME task' = [task EXCEPT ![t].pc = l, ![t].goal = g]
      PROVE  At(t, l, g, task[t].resp)
  <2> DEFINE x == [task[t] EXCEPT !.pc = l, !.goal = g]
  <2>1. x \in TaskState /\ x.pc = l /\ x.goal = g /\ x.resp = task[t].resp
    BY <1>1 DEF TaskState
  <2>2. task' = [task EXCEPT ![t] = x]
    BY <1>2 DEF TaskTyped
  <2> HIDE DEF x
  <2> QED  BY <2>1, <2>2, PutFacts
<1>3. ASSUME task' = [task EXCEPT ![t].pc = l, ![t].resp = r]
      PROVE  At(t, l, task[t].goal, r)
  <2> DEFINE x == [task[t] EXCEPT !.pc = l, !.resp = r]
  <2>1. x \in TaskState /\ x.pc = l /\ x.goal = task[t].goal /\ x.resp = r
    BY <1>1 DEF TaskState
  <2>2. task' = [task EXCEPT ![t] = x]
    BY <1>3 DEF TaskTyped
  <2> HIDE DEF x
  <2> QED  BY <2>1, <2>2, PutFacts
<1>4. ASSUME Take(t, l, f, g)
      PROVE  At(t, l, g, task[t].resp)
  <2> DEFINE x == [task[t] EXCEPT !.pc = l, !.fresh = f, !.goal = g]
  <2>1. x \in TaskState /\ x.pc = l /\ x.goal = g /\ x.resp = task[t].resp
    BY <1>1 DEF TaskState
  <2>2. task' = [task EXCEPT ![t] = x]
    BY <1>4 DEF Take
  <2> HIDE DEF x
  <2> QED  BY <2>1, <2>2, PutFacts
<1>5. ASSUME Enter(t, l, g)
      PROVE  At(t, l, g, None)
  <2> DEFINE x == [Idle EXCEPT !.pc = l, !.goal = g]
  <2>1. x \in TaskState /\ x.pc = l /\ x.goal = g /\ x.resp = None
    BY DEF TaskState, Idle
  <2>2. task' = [task EXCEPT ![t] = x]
    BY <1>5 DEF Enter
  <2> HIDE DEF x
  <2> QED  BY <2>1, <2>2, PutFacts
<1> QED  BY <1>2, <1>3, <1>4, <1>5

-----------------------------------------------------------------------------
(* The process.                                                            *)

ProcessTyped ==
  /\ host \in {"none", "live", "done", "stuck"} /\ written \in 0 .. MaxOut /\ starts \in Nat
  /\ alive \in BOOLEAN /\ good \in BOOLEAN /\ lost \in BOOLEAN

NotesTyped == expired \in BOOLEAN /\ unstarted \in BOOLEAN /\ noticed \in BOOLEAN

\* The host starts the process of the operation: no other step does.
Starts ==
  /\ task[Runner].pc = "start" /\ host = "none" /\ host' = "live"
  /\ starts' = starts + 1 /\ written' = 0
  /\ UNCHANGED ledger /\ task'[Runner].pc \in {"adopt", "probe"}

\* Everything else about the process only moves towards its end.
Ends ==
  /\ starts' = starts
  /\ host = "none" <=> host' = "none"
  /\ host = "done" => host' = "done"
  /\ ~Open => ~Open' /\ written' = written
  /\ written <= written'
  /\ alive' => alive
  /\ host' = "done" => host = "done" \/ ~alive'

\* A process is started once, and then only ends, unless the application crashes.
LEMMA ProcessStep ==
  ASSUME TaskTyped, ProcessTyped, Next
  PROVE  Starts \/ Ends \/ Crash
<1> USE CliJobsAssumption
<1>1. CASE Run
  <2>1. UNCHANGED process
    BY <1>1 DEF Run
  <2> QED  BY <2>1 DEF process, Ends, Open, ProcessTyped
<1>2. CASE Start
  <2>1. CASE host = "none" /\ HostStarts
    <3>1. task'[Runner].pc \in {"adopt", "probe"}
      BY <1>2, GotoFacts, Tasks DEF Start, At, Location
    <3> QED  BY <1>2, <2>1, <3>1 DEF Start, HostStarts, Starts
  <2>2. CASE UNCHANGED process
    BY <2>2 DEF process, Ends, Open, ProcessTyped
  <2>3. HostStarts /\ host # "none" => UNCHANGED process
    BY DEF HostStarts
  <2> QED  BY <1>2, <2>1, <2>2, <2>3 DEF Start
<1>3. CASE Probe
  <2>1. UNCHANGED process
    BY <1>3 DEF Probe
  <2> QED  BY <2>1 DEF process, Ends, Open, ProcessTyped
<1>4. CASE Adopt
  <2>1. UNCHANGED process
    BY <1>4 DEF Adopt
  <2> QED  BY <2>1 DEF process, Ends, Open, ProcessTyped
<1>5. ASSUME NEW c \in Caller, Call(c)
      PROVE  Starts \/ Ends \/ Crash
  <2>1. UNCHANGED process
    BY <1>5 DEF Call, Poll, CancelAction, CancelOperation, StopForBudget
  <2> QED  BY <2>1 DEF process, Ends, Open, ProcessTyped
<1>6. ASSUME NEW c \in Caller, Bind(c)
      PROVE  Starts \/ Ends \/ Crash
  <2>1. UNCHANGED process
    BY <1>6 DEF Bind
  <2> QED  BY <2>1 DEF process, Ends, Open, ProcessTyped
<1>7. ASSUME NEW t \in Task, Look(t)
      PROVE  Starts \/ Ends \/ Crash
  <2>1. UNCHANGED process
    BY <1>7 DEF Look
  <2> QED  BY <2>1 DEF process, Ends, Open, ProcessTyped
<1>8. ASSUME NEW t \in Task, Ask(t)
      PROVE  Starts \/ Ends \/ Crash
  <2>1. UNCHANGED process
    BY <1>8 DEF Ask
  <2> QED  BY <2>1 DEF process, Ends, Open, ProcessTyped
<1>9. ASSUME NEW t \in Task, Apply(t)
      PROVE  Starts \/ Ends \/ Crash
  <2>1. UNCHANGED process
    BY <1>9 DEF Apply
  <2> QED  BY <2>1 DEF process, Ends, Open, ProcessTyped
<1>10. ASSUME NEW t \in Task, Note(t)
      PROVE  Starts \/ Ends \/ Crash
  <2>1. UNCHANGED process
    BY <1>10 DEF Note
  <2> QED  BY <2>1 DEF process, Ends, Open, ProcessTyped
<1>11. ASSUME NEW t \in Task, Intend(t)
      PROVE  Starts \/ Ends \/ Crash
  <2>1. UNCHANGED process
    BY <1>11 DEF Intend
  <2> QED  BY <2>1 DEF process, Ends, Open, ProcessTyped
<1>12. ASSUME NEW t \in Task, Kill(t)
      PROVE  Starts \/ Ends \/ Crash
  <2>1. CASE HostKills
    <3>1. CASE host = "live"
      <4>1. ~alive'
        BY <2>1, <3>1 DEF HostKills
      <4> QED  BY <2>1, <3>1, <4>1 DEF HostKills, Ends, Open, ProcessTyped
    <3>2. CASE host # "live"
      BY <2>1, <3>2 DEF HostKills, Ends, Open, ProcessTyped
    <3> QED  BY <3>1, <3>2
  <2>2. CASE HostThrows
    BY <2>2 DEF HostThrows, Ends, Open, ProcessTyped
  <2> QED  BY <1>12, <2>1, <2>2 DEF Kill
<1>13. ASSUME NEW t \in Task, Refresh(t)
      PROVE  Starts \/ Ends \/ Crash
  <2>1. UNCHANGED process
    BY <1>13 DEF Refresh
  <2> QED  BY <2>1 DEF process, Ends, Open, ProcessTyped
<1>14. ASSUME NEW t \in Task, Record(t)
      PROVE  Starts \/ Ends \/ Crash
  <2>1. UNCHANGED process
    BY <1>14 DEF Record
  <2> QED  BY <2>1 DEF process, Ends, Open, ProcessTyped
<1>15. ASSUME NEW t \in Task, Claim(t)
      PROVE  Starts \/ Ends \/ Crash
  <2>1. UNCHANGED process
    BY <1>15 DEF Claim
  <2> QED  BY <2>1 DEF process, Ends, Open, ProcessTyped
<1>16. CASE Writes
  BY <1>16 DEF Writes, Ends, Open, ProcessTyped
<1>17. CASE Exits
  BY <1>17 DEF Exits, Ends, Open, ProcessTyped
<1>17a. CASE GivesUp
  <2>1. alive' => alive
    BY <1>17a DEF GivesUp
  <2> QED  BY <1>17a, <2>1 DEF GivesUp, Ends, Open, ProcessTyped
<1>18. CASE LeaseLost
  BY <1>18 DEF LeaseLost, Ends, Open, ProcessTyped
<1>19. CASE DeadlinePasses
  <2>1. UNCHANGED process
    BY <1>19 DEF DeadlinePasses
  <2> QED  BY <2>1 DEF process, Ends, Open, ProcessTyped
<1>20. CASE Crash
  BY <1>20
<1> QED
  BY <1>1, <1>2, <1>3, <1>4, <1>5, <1>6, <1>7, <1>8, <1>9, <1>10, <1>11, <1>12, <1>13, <1>14, <1>15, <1>16, <1>17, <1>17a, <1>18, <1>19, <1>20
  DEF Next, RunnerStep, TaskStep

\* The process, the clock and the histories keep their types.
LEMMA ProcessTypes ==
  ASSUME ProcessTyped, NotesTyped, Next
  PROVE  ProcessTyped' /\ NotesTyped'
<1> USE CliJobsAssumption DEF ProcessTyped, NotesTyped, process, history
<1>1. CASE Run
  BY <1>1 DEF Run
<1>2. CASE Start
  <2>1. CASE host = "none" /\ HostStarts
    <3>1. alive' \in BOOLEAN /\ good' \in BOOLEAN /\ lost' \in BOOLEAN
      BY <2>1 DEF HostStarts
    <3>2. host' \in {"none", "live", "done", "stuck"} /\ written' \in 0 .. MaxOut /\ starts' \in Nat
      BY <2>1 DEF HostStarts
    <3>3. NotesTyped'
      BY <1>2 DEF Start
    <3> QED  BY <3>1, <3>2, <3>3
  <2>4. HostStarts /\ host # "none" => UNCHANGED process
    BY DEF HostStarts
  <2>2. UNCHANGED process => ProcessTyped'
    OBVIOUS
  <2>3. NotesTyped'
    BY <1>2 DEF Start
  <2> QED  BY <1>2, <2>1, <2>2, <2>3, <2>4 DEF Start
<1>3. CASE Probe
  BY <1>3 DEF Probe
<1>4. CASE Adopt
  BY <1>4 DEF Adopt
<1>5. ASSUME NEW c \in Caller, Call(c)
      PROVE  ProcessTyped' /\ NotesTyped'
  BY <1>5 DEF Call, Poll, CancelAction, CancelOperation, StopForBudget
<1>6. ASSUME NEW c \in Caller, Bind(c)
      PROVE  ProcessTyped' /\ NotesTyped'
  BY <1>6 DEF Bind
<1>7. ASSUME NEW t \in Task, Look(t)
      PROVE  ProcessTyped' /\ NotesTyped'
  BY <1>7 DEF Look
<1>8. ASSUME NEW t \in Task, Ask(t)
      PROVE  ProcessTyped' /\ NotesTyped'
  BY <1>8 DEF Ask
<1>9. ASSUME NEW t \in Task, Apply(t)
      PROVE  ProcessTyped' /\ NotesTyped'
  BY <1>9 DEF Apply
<1>10. ASSUME NEW t \in Task, Note(t)
      PROVE  ProcessTyped' /\ NotesTyped'
  BY <1>10 DEF Note
<1>11. ASSUME NEW t \in Task, Intend(t)
      PROVE  ProcessTyped' /\ NotesTyped'
  BY <1>11 DEF Intend
<1>12. ASSUME NEW t \in Task, Kill(t)
      PROVE  ProcessTyped' /\ NotesTyped'
  BY <1>12 DEF Kill, HostKills, HostThrows
<1>13. ASSUME NEW t \in Task, Refresh(t)
      PROVE  ProcessTyped' /\ NotesTyped'
  BY <1>13 DEF Refresh
<1>14. ASSUME NEW t \in Task, Record(t)
      PROVE  ProcessTyped' /\ NotesTyped'
  BY <1>14 DEF Record
<1>15. ASSUME NEW t \in Task, Claim(t)
      PROVE  ProcessTyped' /\ NotesTyped'
  BY <1>15 DEF Claim
<1>16. CASE Writes
  BY <1>16 DEF Writes
<1>17. CASE Exits
  BY <1>17 DEF Exits
<1>17a. CASE GivesUp
  BY <1>17a DEF GivesUp
<1>18. CASE LeaseLost
  BY <1>18 DEF LeaseLost
<1>19. CASE DeadlinePasses
  BY <1>19 DEF DeadlinePasses
<1>20. CASE Crash
  BY <1>20 DEF Crash
<1> QED
  BY <1>1, <1>2, <1>3, <1>4, <1>5, <1>6, <1>7, <1>8, <1>9, <1>10, <1>11, <1>12, <1>13, <1>14, <1>15, <1>16, <1>17, <1>17a, <1>18, <1>19, <1>20
  DEF Next, RunnerStep, TaskStep

FaultsTyped == faults \in 0 .. MaxFaults /\ unsaved \in BOOLEAN

\* Faults are counted up to their bound.
LEMMA FaultTypes ==
  ASSUME FaultsTyped, Next
  PROVE  FaultsTyped'
<1>a. NoFault => FaultsTyped'
  BY DEF NoFault, FaultsTyped
<1>b. Fault => FaultsTyped'
  BY CliJobsAssumption DEF Fault, FaultsTyped
<1>c. BadSave => FaultsTyped'
  <2>1. BadSave => faults' \in 0 .. MaxFaults
    BY CliJobsAssumption DEF BadSave, FaultsTyped
  <2>2. BadSave => unsaved' \in BOOLEAN
    BY DEF BadSave
  <2> QED  BY <2>1, <2>2 DEF FaultsTyped
<1>d. UNCHANGED history => FaultsTyped'
  BY DEF history, FaultsTyped
<1> USE <1>a, <1>b, <1>c, <1>d
<1>1. CASE Run
  BY <1>1 DEF Run, Replace, ReplaceFails, Persist, PersistFails
<1>2. CASE Start
  BY <1>2 DEF Start
<1>3. CASE Probe
  BY <1>3 DEF Probe
<1>4. CASE Adopt
  BY <1>4 DEF Adopt, Replace, ReplaceFails, Persist, PersistFails
<1>5. ASSUME NEW c \in Caller, Call(c)
      PROVE  FaultsTyped'
  BY <1>5 DEF Call, Poll, CancelAction, CancelOperation, StopForBudget
<1>6. ASSUME NEW c \in Caller, Bind(c)
      PROVE  FaultsTyped'
  BY <1>6 DEF Bind, Replace, ReplaceFails, Persist, PersistFails
<1>7. ASSUME NEW t \in Task, Look(t)
      PROVE  FaultsTyped'
  BY <1>7 DEF Look, Replace, ReplaceFails, Persist, PersistFails
<1>8. ASSUME NEW t \in Task, Ask(t)
      PROVE  FaultsTyped'
  BY <1>8 DEF Ask
<1>9. ASSUME NEW t \in Task, Apply(t)
      PROVE  FaultsTyped'
  BY <1>9 DEF Apply, Replace, ReplaceFails, Persist, PersistFails
<1>10. ASSUME NEW t \in Task, Note(t)
      PROVE  FaultsTyped'
  BY <1>10 DEF Note, Replace, ReplaceFails, Persist, PersistFails
<1>11. ASSUME NEW t \in Task, Intend(t)
      PROVE  FaultsTyped'
  BY <1>11 DEF Intend, Replace, ReplaceFails, Persist, PersistFails
<1>12. ASSUME NEW t \in Task, Kill(t)
      PROVE  FaultsTyped'
  BY <1>12 DEF Kill
<1>13. ASSUME NEW t \in Task, Refresh(t)
      PROVE  FaultsTyped'
  BY <1>13 DEF Refresh
<1>14. ASSUME NEW t \in Task, Record(t)
      PROVE  FaultsTyped'
  BY <1>14 DEF Record, Replace, ReplaceFails, Persist, PersistFails
<1>15. ASSUME NEW t \in Task, Claim(t)
      PROVE  FaultsTyped'
  BY <1>15 DEF Claim, Replace, ReplaceFails, Persist, PersistFails
<1>16. CASE Writes
  BY <1>16 DEF Writes
<1>17. CASE Exits
  BY <1>17 DEF Exits
<1>17a. CASE GivesUp
  BY <1>17a DEF GivesUp
<1>18. CASE LeaseLost
  BY <1>18 DEF LeaseLost
<1>19. CASE DeadlinePasses
  BY <1>19 DEF DeadlinePasses
<1>20. CASE Crash
  BY <1>20 DEF Crash
<1> QED
  BY <1>1, <1>2, <1>3, <1>4, <1>5, <1>6, <1>7, <1>8, <1>9, <1>10, <1>11, <1>12, <1>13, <1>14, <1>15, <1>16, <1>17, <1>17a, <1>18, <1>19, <1>20
  DEF Next, RunnerStep, TaskStep

-----------------------------------------------------------------------------
(* The ledger.                                                             *)

LedgerTyped == mem \in Job \cup {None} /\ disk \in Job \cup {None}

\* What may become of an active job in one step: it only moves forward, and
\* ends as it was asked to, or as its process did.
Changes(j) ==
  /\ Active(mem) /\ j \in Job
  /\ mem.out <= j.out /\ j.out <= written
  /\ mem.intent # None => j.intent = mem.intent
  /\ host = "done" /\ Full(mem) => Full(j)
  /\ j.state \in Terminal =>
       /\ j.intent = mem.intent
       /\ \/ j.state = "interrupted" /\ mem.intent = None
          \/ /\ host = "done" /\ Full(j)
             /\ mem.intent # None => j.state = mem.intent
             /\ mem.intent = None => j.state \in {"completed", "failed"}

\* A save, or one that fails: with the change in the file or not, and in
\* memory only if it neither ends nor stops the job.
Saved(j) ==
  \/ mem' = j /\ disk' = j
  \/ mem' = mem /\ disk' \in {disk, j}
  \/ mem' = j /\ disk' \in {disk, j} /\ Active(j) /\ j.intent = mem.intent

Admitted ==
  /\ mem = None /\ disk' \in {disk, mem'}
  /\ mem' = [state |-> "starting", intent |-> None, out |-> 0, cut |-> FALSE]
  /\ task'[Runner].pc = "start" => disk' = mem'

LedgerChange ==
  \/ UNCHANGED ledger
  \/ mem # None /\ mem' = mem /\ disk' \in {disk, mem}
  \/ \E j \in Job : Changes(j) /\ Saved(j)

\* A step makes one new record of the job at most.
LEMMA LedgerStep ==
  ASSUME TypeOK, Answers, Counted, Quiet, Sound, Next
  PROVE  Crash \/ Admitted \/ LedgerChange
<1>0. TaskTyped
  BY DEF TypeOK, TaskTyped
<1>1a. mem \in Job \cup {None} /\ written \in 0 .. MaxOut /\ MaxOut \in Nat /\ Sound
  BY CliJobsAssumption DEF TypeOK
<1>1b. \A t \in Task : task[t].pc # "idle" => mem # None
  BY DEF Quiet
<1>1. CASE Run
  <2>1. Goto(Runner, "start") \/ Fail(Runner)
    BY <1>1 DEF Run
  <2>2. task'[Runner].pc = "start" => ~Fail(Runner)
    BY <1>0, Tasks, ReturnFacts DEF Fail, At
  <2>3. Admitted
    BY <1>1, <2>2 DEF Run, Persist, PersistFails, Admitted
  <2> QED  BY <2>3
<1>2. CASE Start
  <2>1. UNCHANGED ledger
    BY <1>2 DEF Start
  <2> QED  BY <2>1 DEF LedgerChange
<1>3. CASE Probe
  <2>1. UNCHANGED ledger
    BY <1>3 DEF Probe
  <2> QED  BY <2>1 DEF LedgerChange
<1>4. CASE Adopt
  <2>1. CASE Active(mem)
    <3> DEFINE j == [mem EXCEPT !.state = "running"]
    <3>1. j \in Job /\ j.out = mem.out /\ j.intent = mem.intent /\ j.cut = mem.cut /\ j.state = "running"
      BY <1>1a, <2>1 DEF Active, Job
    <3>2. Persist(j) \/ PersistFails(j)
      BY <1>4, <2>1 DEF Adopt
    <3> HIDE DEF j
    <3>3. Changes(j) /\ Active(j)
      BY <1>1a, <2>1, <3>1, NoneAssumption DEF Changes, Sound, SoundJob, Full, Active, Terminal, Target, Job
    <3> QED  BY <3>1, <3>2, <3>3 DEF Persist, PersistFails, LedgerChange, Saved
  <2>2. CASE ~Active(mem)
    BY <1>4, <2>2, <1>1b, Tasks DEF Adopt, Persist, PersistFails, LedgerChange
  <2> QED  BY <2>1, <2>2
<1>5. ASSUME NEW c \in Caller, Call(c)
      PROVE  Crash \/ Admitted \/ LedgerChange
  <2>1. UNCHANGED ledger
    BY <1>5 DEF Call, Poll, CancelAction, CancelOperation, StopForBudget
  <2> QED  BY <2>1 DEF LedgerChange
<1>6. ASSUME NEW c \in Caller, Bind(c)
      PROVE  Crash \/ Admitted \/ LedgerChange
  <2>1. CASE Active(mem)
    <3> DEFINE j == WithIntent(mem, "cancelled")
    <3>1. /\ j \in Job /\ j.out = mem.out /\ j.cut = mem.cut /\ j.state = mem.state
          /\ mem.intent # None => j.intent = mem.intent
      BY <1>1a, <2>1 DEF Active, Job, WithIntent, Target
    <3>2. Replace(j) \/ ReplaceFails(j)
      BY <1>6, <2>1 DEF Bind
    <3> HIDE DEF j
    <3>3. Changes(j)
      BY <1>1a, <2>1, <3>1 DEF Changes, Sound, SoundJob, Full, Active, Job
    <3> QED  BY <3>1, <3>2, <3>3 DEF Replace, ReplaceFails, LedgerChange, Saved
  <2>2. CASE ~Active(mem)
    BY <1>6, <2>2, <1>1b, Tasks DEF Bind, Replace, ReplaceFails, LedgerChange
  <2> QED  BY <2>1, <2>2
<1>7. ASSUME NEW t \in Task, Look(t)
      PROVE  Crash \/ Admitted \/ LedgerChange
  <2>1. CASE Active(mem) /\ expired /\ mem.intent = None
    <3> DEFINE j == [mem EXCEPT !.intent = "timedout", !.state = "stopping"]
    <3>1. j \in Job /\ j.out = mem.out /\ j.cut = mem.cut /\ j.state = "stopping"
      BY <1>1a, <2>1 DEF Active, Job, Target
    <3>2. Replace(j) \/ ReplaceFails(j)
      BY <1>7, <2>1 DEF Look
    <3> HIDE DEF j
    <3>3. Changes(j)
      BY <1>1a, <2>1, <3>1 DEF Changes, Sound, SoundJob, Full, Active, Job, Terminal, Target
    <3> QED  BY <3>1, <3>2, <3>3 DEF Replace, ReplaceFails, LedgerChange, Saved
  <2>2. CASE ~(Active(mem) /\ expired /\ mem.intent = None)
    BY <1>7, <2>2 DEF Look, LedgerChange
  <2> QED  BY <2>1, <2>2
<1>8. ASSUME NEW t \in Task, Ask(t)
      PROVE  Crash \/ Admitted \/ LedgerChange
  <2>1. UNCHANGED ledger
    BY <1>8 DEF Ask
  <2> QED  BY <2>1 DEF LedgerChange
<1>9. ASSUME NEW t \in Task, Apply(t)
      PROVE  Crash \/ Admitted \/ LedgerChange
  <2>1. CASE Active(mem)
    <3> DEFINE r == task[t].resp
               j == Applied(mem, r, task[t].fresh)
    <3>1. mem \in Job /\ r \in Answer /\ task[t].fresh \in BOOLEAN
      BY <1>0, <1>1a, <1>9, <2>1 DEF Apply, Answers, Holding, TaskTyped, TaskState, Active
    <3>2. Replace(j) \/ ReplaceFails(j)
      BY <1>9, <2>1 DEF Apply
    <3>3. /\ r.is = "missing" \/ r.out <= written
          /\ r.is = "exited" => host = "done" /\ r.out = written
      BY <1>9, <3>1, NoneAssumption DEF Apply, Answers, Holding, Answer
    <3>4. /\ j \in Job /\ j.cut = mem.cut
          /\ j.out = IF r.is = "missing" \/ r.out < mem.out THEN mem.out ELSE r.out
          /\ j.intent = mem.intent \/ mem.intent = None
          /\ j.state \in Terminal =>
              \/ r.is = "exited" /\ mem.intent # None /\ j.state = mem.intent
              \/ r.is = "exited" /\ mem.intent = None /\ j.state \in {"completed", "failed"}
              \/ r.is = "missing" /\ mem.intent = None /\ j.state = "interrupted"
          /\ j.state \in Terminal => j.intent = mem.intent
      BY <2>1, <3>1, AppliedFacts
    <3>5. mem.out \in Nat /\ written \in Nat /\ mem.out <= written /\ r.out \in Nat
      BY <1>1a, <3>1, NoneAssumption DEF Sound, SoundJob, Job, Answer
    <3> HIDE DEF j, r
    <3>6. mem.out <= j.out /\ j.out <= written
      BY <3>3, <3>4, <3>5
    <3>7. Full(mem) => Full(j)
      BY <3>3, <3>4, <3>5 DEF Full
    <3>8. r.is = "exited" => Full(j) /\ host = "done"
      BY <3>3, <3>4, <3>5 DEF Full
    <3>9. Changes(j)
      BY <2>1, <3>4, <3>6, <3>7, <3>8 DEF Changes
    <3> QED  BY <3>2, <3>4, <3>9 DEF Replace, ReplaceFails, LedgerChange, Saved
  <2>2. CASE ~Active(mem)
    BY <1>9, <2>2 DEF Apply, LedgerChange
  <2> QED  BY <2>1, <2>2
<1>10. ASSUME NEW t \in Task, Note(t)
      PROVE  Crash \/ Admitted \/ LedgerChange
  BY <1>10, <1>1b DEF Note, Persist, PersistFails, LedgerChange
<1>11. ASSUME NEW t \in Task, Intend(t)
      PROVE  Crash \/ Admitted \/ LedgerChange
  <2>1. CASE Active(mem) /\ mem.intent = None
    <3> DEFINE j == [mem EXCEPT !.intent = task[t].goal, !.state = "stopping"]
    <3>0. task[t].goal \in Target
      BY <1>11 DEF Intend, Answers, Holding
    <3>1. j \in Job /\ j.out = mem.out /\ j.cut = mem.cut /\ j.state = "stopping"
      BY <1>1a, <2>1, <3>0 DEF Active, Job
    <3>2. Replace(j) \/ ReplaceFails(j)
      BY <1>11, <2>1 DEF Intend
    <3> HIDE DEF j
    <3>3. Changes(j)
      BY <1>1a, <2>1, <3>1 DEF Changes, Sound, SoundJob, Full, Active, Job, Terminal, Target
    <3> QED  BY <3>1, <3>2, <3>3 DEF Replace, ReplaceFails, LedgerChange, Saved
  <2>2. CASE ~(Active(mem) /\ mem.intent = None)
    BY <1>11, <2>2 DEF Intend, LedgerChange
  <2> QED  BY <2>1, <2>2
<1>12. ASSUME NEW t \in Task, Kill(t)
      PROVE  Crash \/ Admitted \/ LedgerChange
  <2>1. UNCHANGED ledger
    BY <1>12 DEF Kill
  <2> QED  BY <2>1 DEF LedgerChange
<1>13. ASSUME NEW t \in Task, Refresh(t)
      PROVE  Crash \/ Admitted \/ LedgerChange
  <2>1. UNCHANGED ledger
    BY <1>13 DEF Refresh
  <2> QED  BY <2>1 DEF LedgerChange
<1>14. ASSUME NEW t \in Task, Record(t)
      PROVE  Crash \/ Admitted \/ LedgerChange
  <2> DEFINE r == task[t].resp
  <2>0. /\ host = "done"
        /\ r # None => r \in Answer /\ r.out = written
    BY <1>0, <1>14 DEF Record, Answers, Holding, TaskTyped, TaskState
  <2>1. CASE Active(mem) /\ r = None
    <3> DEFINE j == [mem EXCEPT !.cut = TRUE]
    <3>1. j \in Job /\ j.out = mem.out /\ j.intent = mem.intent /\ j.state = mem.state /\ j.cut = TRUE
      BY <1>1a, <2>1 DEF Active, Job
    <3>2. Persist(j) \/ PersistFails(j)
      BY <1>14, <2>1 DEF Record
    <3> HIDE DEF j
    <3>3. Changes(j) /\ Active(j)
      BY <1>1a, <2>1, <3>1, NoneAssumption DEF Changes, Sound, SoundJob, Full, Active, Job
    <3> QED  BY <3>1, <3>2, <3>3 DEF Persist, PersistFails, LedgerChange, Saved
  <2>2. CASE Active(mem) /\ r # None
    <3> DEFINE j == [mem EXCEPT !.out = r.out, !.cut = FALSE]
    <3>1. /\ j \in Job /\ j.out = written /\ j.intent = mem.intent /\ j.state = mem.state
      BY <1>1a, <2>0, <2>2 DEF Active, Job, Answer
    <3>2. Persist(j) \/ PersistFails(j)
      BY <1>14, <2>2 DEF Record
    <3> HIDE DEF j
    <3>3. Changes(j) /\ Active(j)
      BY <1>1a, <2>2, <3>1, NoneAssumption DEF Changes, Sound, SoundJob, Full, Active, Job
    <3> QED  BY <3>1, <3>2, <3>3 DEF Persist, PersistFails, LedgerChange, Saved
  <2>3. CASE ~Active(mem)
    BY <1>14, <2>3, <1>1b DEF Record, Persist, PersistFails, LedgerChange
  <2> QED  BY <2>1, <2>2, <2>3
<1>15. ASSUME NEW t \in Task, Claim(t)
      PROVE  Crash \/ Admitted \/ LedgerChange
  <2>1. CASE Active(mem) /\ mem.intent = task[t].goal
    <3> DEFINE j == [mem EXCEPT !.state = mem.intent]
    <3>0. mem.intent \in Target /\ mem.intent # None /\ host = "done" /\ Full(mem)
      BY <1>15, <2>1, NoneAssumption DEF Claim, Answers, Holding, Counted
    <3>1. j \in Job /\ j.out = mem.out /\ j.intent = mem.intent /\ j.cut = mem.cut /\ j.state = mem.intent
      BY <1>1a, <2>1, <3>0 DEF Active, Job, Terminal
    <3>2. Replace(j) \/ ReplaceFails(j)
      BY <1>15, <2>1 DEF Claim
    <3> HIDE DEF j
    <3>3. Changes(j)
      BY <1>1a, <2>1, <3>0, <3>1, NoneAssumption DEF Changes, Sound, SoundJob, Full, Active, Job
    <3> QED  BY <3>1, <3>2, <3>3 DEF Replace, ReplaceFails, LedgerChange, Saved
  <2>2. CASE ~(Active(mem) /\ mem.intent = task[t].goal)
    BY <1>15, <2>2 DEF Claim, LedgerChange
  <2> QED  BY <2>1, <2>2
<1>16. CASE Writes
  BY <1>16 DEF Writes, LedgerChange
<1>17. CASE Exits
  <2>1. UNCHANGED ledger
    BY <1>17 DEF Exits
  <2> QED  BY <2>1 DEF LedgerChange
<1>17a. CASE GivesUp
  <2>1. UNCHANGED ledger
    BY <1>17a DEF GivesUp
  <2> QED  BY <2>1 DEF LedgerChange
<1>18. CASE LeaseLost
  <2>1. UNCHANGED ledger
    BY <1>18 DEF LeaseLost
  <2> QED  BY <2>1 DEF LedgerChange
<1>19. CASE DeadlinePasses
  <2>1. UNCHANGED ledger
    BY <1>19 DEF DeadlinePasses
  <2> QED  BY <2>1 DEF LedgerChange
<1>20. CASE Crash
  BY <1>20
<1> QED
  BY <1>1, <1>2, <1>3, <1>4, <1>5, <1>6, <1>7, <1>8, <1>9, <1>10, <1>11, <1>12, <1>13, <1>14, <1>15, <1>16, <1>17, <1>17a, <1>18, <1>19, <1>20
  DEF Next, RunnerStep, TaskStep

-----------------------------------------------------------------------------
(* The tasks.                                                              *)

\* What a task holds is still true of the process after the step.
Kept == \A t \in Task : Holding(task[t], host', written')

Moved ==
  /\ TaskTyped' /\ Answers'
  /\ task'[Runner].pc = "start" => task[Runner].pc = "start" \/ Admitted
  /\ \A t \in Task : task'[t].pc = "claim" => task[t].pc = "claim" \/ ~Active(mem') \/ Full(mem)'

LEMMA StaysTrue ==
  ASSUME TypeOK, Answers, written' \in Nat, Starts \/ Ends
  PROVE  Kept
<1> SUFFICES ASSUME NEW t \in Task
             PROVE  Holding(task[t], host', written')
  BY DEF Kept
<1>0. Holding(task[t], host, written) /\ (task[t].resp # None => task[t].resp \in Answer)
  BY DEF Answers, TypeOK, TaskState
<1>1. CASE Starts
  BY <1>0, <1>1 DEF Starts, Holding
<1>2. CASE Ends
  <2>1. task[t].resp # None /\ task[t].resp.is # "missing" =>
           host' # "none" /\ task[t].resp.out <= written'
    BY <1>0, <1>2, CliJobsAssumption DEF Ends, Open, Holding, TypeOK, Answer
  <2>2. task[t].resp # None /\ task[t].resp.is = "exited" =>
           host' = "done" /\ task[t].resp.out = written'
    BY <1>0, <1>2 DEF Ends, Open, Holding
  <2> QED  BY <1>0, <1>2, <2>1, <2>2 DEF Ends, Open, Holding
<1> QED  BY <1>1, <1>2

LEMMA MoveOne ==
  ASSUME NEW t \in Task, NEW l, NEW g, NEW r, At(t, l, g, r), Kept,
         Holding([pc |-> l, goal |-> g, resp |-> r], host', written'),
         l # "start", l = "claim" => ~Active(mem') \/ Full(mem)'
  PROVE  Moved
<1>1. Holding(task'[t], host', written')
  BY DEF At, Holding
<1>2. \A u \in Task : Holding(task'[u], host', written')
  BY <1>1 DEF At, Kept
<1>3. \A u \in Task \ {t} : task'[u] = task[u]
  BY DEF At
<1>4. task'[t].pc = l
  BY DEF At
<1>5. task'[Runner].pc = "start" => task[Runner].pc = "start"
  BY <1>3, <1>4, Tasks
<1>6. \A u \in Task : task'[u].pc = "claim" => task[u].pc = "claim" \/ ~Active(mem') \/ Full(mem)'
  BY <1>3, <1>4
<1>7. TaskTyped'
  BY DEF At, TaskTyped
<1> QED  BY <1>2, <1>5, <1>6, <1>7 DEF Moved, Answers

LEMMA EasyMove ==
  ASSUME NEW t \in Task, NEW l \in {"idle", "probe", "adopt", "look", "ask", "note"}, NEW g,
         At(t, l, g, None), Kept
  PROVE  Moved
<1>1. Holding([pc |-> l, goal |-> g, resp |-> None], host', written')
  BY DEF Holding
<1> QED  BY <1>1, MoveOne

LEMMA NoteMove ==
  ASSUME NEW t \in Task, NEW g, At(t, "note", g, task[t].resp), Kept
  PROVE  Moved
<1>1. Holding([pc |-> "note", goal |-> g, resp |-> task[t].resp], host', written')
  BY DEF Holding, Kept
<1> QED  BY <1>1, MoveOne

LEMMA Sent ==
  ASSUME NEW t \in Task, TaskTyped, Kept
  PROVE  /\ Return(t) => Moved
         /\ Fail(t) => Moved
         /\ Unconfirmed(t) => Moved
         /\ Spawn => Moved
         /\ Goto(t, "note") => Moved
<1>1. Return(t) => Moved
  BY ReturnFacts, EasyMove
<1>2. Fail(t) => Moved
  BY <1>1 DEF Fail
<1>3. Goto(t, "note") => Moved
  BY GotoFacts, NoteMove DEF Location
<1>4. Unconfirmed(t) => Moved
  BY <1>1, <1>3 DEF Unconfirmed
<1>5. ASSUME Spawn
      PROVE  Moved
  <2>1. Spawned
    BY <1>5, SpawnFacts
  <2>2. \A u \in Task : Holding(task'[u], host', written')
    BY <2>1 DEF Spawned, Kept, Holding
  <2>3. TaskTyped' /\ task'[Runner].pc = "idle"
    BY <2>1 DEF Spawned, TaskTyped
  <2>4. \A u \in Task : task'[u].pc = "claim" => task[u].pc = "claim"
    BY <2>1 DEF Spawned
  <2> QED  BY <2>2, <2>3, <2>4 DEF Moved, Answers
<1> QED  BY <1>1, <1>2, <1>3, <1>4, <1>5

\* To stop a job one needs an end to give it.
LEMMA StopMove ==
  ASSUME NEW t \in Task, NEW l \in {"bind", "intend", "kill"}, NEW g \in Target,
         At(t, l, g, None), Kept
  PROVE  Moved
<1>1. Holding([pc |-> l, goal |-> g, resp |-> None], host', written')
  BY DEF Holding
<1> QED  BY <1>1, MoveOne

LEMMA StillMove ==
  ASSUME TaskTyped, UNCHANGED task, Kept
  PROVE  Moved
BY DEF Moved, Kept, Answers, TaskTyped

\* A task takes on what is true, and keeps what stays true.
LEMMA TaskSteps ==
  ASSUME TypeOK, Answers, Starts \/ Ends, Next
  PROVE  Crash \/ Moved
<1>0. TaskTyped
  BY DEF TypeOK, TaskTyped
<1>00. Kept
  <2>1. ProcessTyped'
    BY ProcessTypes DEF TypeOK, ProcessTyped, NotesTyped
  <2> QED  BY <2>1, StaysTrue, CliJobsAssumption DEF ProcessTyped
<1>1. CASE Run
  <2>1. CASE Goto(Runner, "start")
    <3>1. At(Runner, "start", task[Runner].goal, task[Runner].resp)
      BY <1>0, <2>1, Tasks, GotoFacts DEF Location
    <3>2. task[Runner].resp = None
      BY <1>1, Tasks DEF Run, Answers, Holding
    <3>3. Admitted
      BY <1>1, <2>1, <1>0, <3>1, Tasks, ReturnFacts DEF Run, Persist, PersistFails, Admitted, Fail, At
    <3>4. \A u \in Task : Holding(task'[u], host', written')
      BY <1>00, <3>1, <3>2 DEF At, Kept, Holding
    <3>5. \A u \in Task : task'[u].pc = "claim" => task[u].pc = "claim"
      BY <3>1 DEF At
    <3> QED  BY <3>1, <3>3, <3>4, <3>5 DEF Moved, At, TaskTyped, Answers
  <2>2. CASE Fail(Runner)
    BY <1>0, <1>00, <2>2, Sent, Tasks
  <2> QED  BY <1>1, <2>1, <2>2 DEF Run
<1>2. CASE Start
  <2>1. task[Runner].resp = None
    BY <1>2, Tasks DEF Start, Answers, Holding
  <2>2. Goto(Runner, "adopt") \/ Goto(Runner, "probe")
    BY <1>2 DEF Start
  <2> QED  BY <1>0, <1>00, <2>1, <2>2, GotoFacts, EasyMove, Tasks DEF Location
<1>3. CASE Probe
  <2>1. task[Runner].resp = None
    BY <1>3, Tasks DEF Probe, Answers, Holding
  <2>2. CASE ContainStart
    <3>1. At(Runner, "intend", "failed", None)
      BY <1>0, <2>1, <2>2, MoveFacts, Tasks DEF ContainStart, Location, Target
    <3> QED  BY <1>00, <3>1, StopMove, Tasks DEF Target
  <2>3. CASE Goto(Runner, "adopt")
    BY <1>0, <1>00, <2>1, <2>3, GotoFacts, EasyMove, Tasks DEF Location
  <2> QED  BY <1>3, <2>2, <2>3 DEF Probe
<1>4. CASE Adopt
  BY <1>0, <1>00, <1>4, Sent, Tasks DEF Adopt
<1>5. ASSUME NEW c \in Caller, Call(c)
      PROVE  Crash \/ Moved
  <2>0. c \in Task
    BY Tasks
  <2>1. CASE Enter(c, "look", None)
    BY <1>0, <1>00, <2>0, <2>1, MoveFacts, EasyMove DEF Location
  <2>2. CASE Enter(c, "bind", "cancelled")
    BY <1>0, <1>00, <2>0, <2>2, MoveFacts, StopMove DEF Location, Target
  <2>3. CASE Enter(c, "intend", "cancelled") \/ Enter(c, "intend", "failed")
    BY <1>0, <1>00, <2>0, <2>3, MoveFacts, StopMove DEF Location, Target
  <2> QED  BY <1>5, <2>1, <2>2, <2>3 DEF Call, Poll, CancelAction, CancelOperation, StopForBudget
<1>6. ASSUME NEW c \in Caller, Bind(c)
      PROVE  Crash \/ Moved
  <2>0. c \in Task
    BY Tasks
  <2>1. task[c].resp = None /\ task[c].goal \in Target
    BY <1>6, <2>0 DEF Bind, Answers, Holding
  <2>2. CASE Goto(c, "intend")
    BY <1>0, <1>00, <2>0, <2>1, <2>2, GotoFacts, StopMove DEF Location
  <2>3. CASE Fail(c)
    BY <1>0, <1>00, <2>0, <2>3, Sent
  <2> QED  BY <1>6, <2>2, <2>3 DEF Bind
<1>7. ASSUME NEW t \in Task, Look(t)
      PROVE  Crash \/ Moved
  <2> DEFINE j == IF Active(mem) /\ expired /\ mem.intent = None
                    THEN [mem EXCEPT !.intent = "timedout", !.state = "stopping"] ELSE mem
             next == IF t = Monitor /\ j.intent # None THEN "intend" ELSE "ask"
  <2>1. task[t].resp = None
    BY <1>7 DEF Look, Answers, Holding
  <2>2. Active(mem) => j.intent \in Target \cup {None}
    BY DEF TypeOK, Active, Job, Target
  <2>3. \/ Active(mem) /\ Take(t, next, j.intent = None, j.intent)
        \/ Return(t) \/ Fail(t)
    BY <1>7 DEF Look
  <2> HIDE DEF j
  <2>4. CASE Active(mem) /\ Take(t, next, j.intent = None, j.intent)
    <3>0. (j.intent = None) \in BOOLEAN /\ next \in Location
      BY DEF Location
    <3>1. At(t, next, j.intent, task[t].resp)
      BY <1>0, <2>2, <2>4, <3>0, MoveFacts
    <3>2. CASE next = "intend"
      <4>1. j.intent \in Target
        BY <2>2, <2>4, <3>2
      <4> QED  BY <1>00, <2>1, <3>1, <3>2, <4>1, StopMove
    <3>3. CASE next = "ask"
      BY <1>00, <2>1, <3>1, <3>3, EasyMove
    <3> QED  BY <3>2, <3>3
  <2> QED  BY <1>0, <1>00, <2>3, <2>4, Sent
<1>8. ASSUME NEW t \in Task, Ask(t)
      PROVE  Crash \/ Moved
  <2>1. CASE task' = [task EXCEPT ![t].pc = "apply", ![t].resp = Inspected] /\ UNCHANGED process
    <3>1. Inspected \in Answer
      BY CliJobsAssumption DEF TypeOK, Inspected, Open, Answer
    <3>2. At(t, "apply", task[t].goal, Inspected)
      BY <1>0, <2>1, <3>1, MoveFacts DEF Location
    <3>3. host' = host /\ written' = written
      BY <2>1 DEF process
    <3>4. /\ Inspected.is = "missing" => Inspected.out = 0
          /\ Inspected.is # "missing" => host # "none" /\ Inspected.out = written
          /\ Inspected.is = "exited" => host = "done"
      BY DEF Inspected, Open, TypeOK
    <3>5. written \in Nat /\ written <= written
      BY CliJobsAssumption DEF TypeOK
    <3>6. Holding([pc |-> "apply", goal |-> task[t].goal, resp |-> Inspected], host', written')
      BY <3>1, <3>3, <3>4, <3>5, NoneAssumption DEF Holding
    <3> QED  BY <1>00, <3>2, <3>6, MoveOne
  <2>2. CASE Goto(t, "note")
    BY <1>0, <1>00, <2>2, Sent
  <2> QED  BY <1>8, <2>1, <2>2 DEF Ask
<1>9. ASSUME NEW t \in Task, Apply(t)
      PROVE  Crash \/ Moved
  <2> DEFINE j == Applied(mem, task[t].resp, task[t].fresh)
             next == IF ~Active(j) THEN "idle" ELSE IF expired THEN "intend" ELSE "look"
  <2>1. \/ Return(t) \/ Fail(t) \/ Goto(t, "note")
        \/ next # "idle" /\ Enter(t, next, "timedout")
    BY <1>9 DEF Apply
  <2>2. CASE next # "idle" /\ Enter(t, next, "timedout")
    <3>1. next \in {"intend", "look"}
      BY <2>2
    <3> HIDE DEF next
    <3>2. At(t, next, "timedout", None)
      BY <1>0, <2>2, <3>1, MoveFacts DEF Location, Target
    <3>3. CASE next = "intend"
      BY <1>00, <3>2, <3>3, StopMove DEF Target
    <3>4. CASE next = "look"
      BY <1>00, <3>2, <3>4, EasyMove
    <3> QED  BY <3>1, <3>3, <3>4
  <2> QED  BY <1>0, <1>00, <2>1, <2>2, Sent
<1>10. ASSUME NEW t \in Task, Note(t)
      PROVE  Crash \/ Moved
  <2>1. CASE Enter(t, "look", None)
    <3>1. At(t, "look", None, None)
      BY <1>0, <2>1, MoveFacts DEF Location
    <3> QED  BY <1>00, <3>1, EasyMove
  <2> QED  BY <1>0, <1>00, <1>10, <2>1, Sent DEF Note
<1>11. ASSUME NEW t \in Task, Intend(t)
      PROVE  Crash \/ Moved
  <2>1. task[t].resp = None /\ task[t].goal \in Target
    BY <1>11 DEF Intend, Answers, Holding
  <2>2. CASE Active(mem) /\ mem.intent # None /\ task' = [task EXCEPT ![t].pc = "kill", ![t].goal = mem.intent]
    <3>1. mem.intent \in Target
      BY <2>2 DEF TypeOK, Job, Active
    <3>2. At(t, "kill", mem.intent, None)
      BY <1>0, <2>1, <2>2, <3>1, MoveFacts DEF Location
    <3> QED  BY <1>00, <3>1, <3>2, StopMove
  <2>3. CASE Goto(t, "kill")
    BY <1>0, <1>00, <2>1, <2>3, GotoFacts, StopMove DEF Location
  <2> QED  BY <1>0, <1>00, <1>11, <2>2, <2>3, Sent DEF Intend
<1>12. ASSUME NEW t \in Task, Kill(t)
      PROVE  Crash \/ Moved
  <2>1. task[t].resp = None /\ task[t].goal \in Target
    BY <1>12 DEF Kill, Answers, Holding
  <2>2. CASE HostKills /\ Confirmed /\ Goto(t, "refresh")
    <3>1. host' = "done"
      BY <2>2 DEF HostKills, Confirmed, TypeOK
    <3>2. At(t, "refresh", task[t].goal, None)
      BY <1>0, <2>1, <2>2, GotoFacts DEF Location
    <3>3. Holding([pc |-> "refresh", goal |-> task[t].goal, resp |-> None], host', written')
      BY <2>1, <3>1 DEF Holding
    <3> QED  BY <1>00, <3>2, <3>3, MoveOne
  <2> QED  BY <1>0, <1>00, <1>12, <2>2, Sent DEF Kill
<1>13. ASSUME NEW t \in Task, Refresh(t)
      PROVE  Crash \/ Moved
  <2>1. task[t].resp = None /\ task[t].goal \in Target /\ host = "done" /\ UNCHANGED process
    BY <1>13 DEF Refresh, Answers, Holding
  <2>2. CASE task' = [task EXCEPT ![t].pc = "record", ![t].resp = Inspected]
    <3>1. Inspected \in Answer /\ Inspected.is = "exited" /\ Inspected.out = written
      BY <2>1, CliJobsAssumption DEF TypeOK, Inspected, Open, Answer
    <3>2. At(t, "record", task[t].goal, Inspected)
      BY <1>0, <2>2, <3>1, MoveFacts DEF Location
    <3>3. Holding([pc |-> "record", goal |-> task[t].goal, resp |-> Inspected], host', written')
      BY <2>1, <3>1, NoneAssumption DEF Holding, process, TypeOK
    <3> QED  BY <1>00, <3>2, <3>3, MoveOne
  <2>3. CASE Goto(t, "record")
    <3>1. At(t, "record", task[t].goal, None)
      BY <1>0, <2>1, <2>3, GotoFacts DEF Location
    <3>2. Holding([pc |-> "record", goal |-> task[t].goal, resp |-> None], host', written')
      BY <2>1 DEF Holding, process
    <3> QED  BY <1>00, <3>1, <3>2, MoveOne
  <2> QED  BY <1>13, <2>2, <2>3 DEF Refresh
<1>14. ASSUME NEW t \in Task, Record(t)
      PROVE  Crash \/ Moved
  <2> DEFINE r == task[t].resp
  <2>1. task[t].goal \in Target /\ host = "done" /\ UNCHANGED process
    BY <1>14 DEF Record, Answers, Holding
  <2>2. CASE task' = [task EXCEPT ![t].pc = "claim", ![t].resp = None] /\ ~Unconfirmed(t)
    <3>1. At(t, "claim", task[t].goal, None)
      BY <1>0, <2>2, MoveFacts DEF Location
    <3>2. Holding([pc |-> "claim", goal |-> task[t].goal, resp |-> None], host', written')
      BY <2>1 DEF Holding, process
    <3>3. mem' = IF ~Active(mem) THEN mem
                 ELSE IF r = None THEN [mem EXCEPT !.cut = TRUE]
                 ELSE [mem EXCEPT !.out = r.out, !.cut = FALSE]
      BY <1>14, <2>2 DEF Record, Persist, PersistFails
    <3>4. r # None => r.out = written'
      BY <1>14, <2>1 DEF Record, Answers, Holding, process
    <3>5. Active(mem) => mem \in Job
      BY DEF TypeOK, Active
    <3>6. ~Active(mem') \/ Full(mem)'
      <4>1. CASE ~Active(mem)
        BY <3>3, <4>1
      <4>2. CASE Active(mem) /\ r = None
        <5>1. mem' = [mem EXCEPT !.cut = TRUE]
          BY <3>3, <4>2
        <5> QED  BY <3>5, <4>2, <5>1 DEF Full, Job
      <4>3. CASE Active(mem) /\ r # None
        <5>1. mem' = [mem EXCEPT !.out = r.out, !.cut = FALSE]
          BY <3>3, <4>3
        <5> QED  BY <3>4, <3>5, <4>3, <5>1 DEF Full, Job
      <4> QED  BY <4>1, <4>2, <4>3
    <3> QED  BY <1>00, <3>1, <3>2, <3>6, MoveOne
  <2>3. CASE Unconfirmed(t)
    BY <1>0, <1>00, <2>3, Sent
  <2> QED  BY <1>14, <2>2, <2>3 DEF Record
<1>15. ASSUME NEW t \in Task, Claim(t)
      PROVE  Crash \/ Moved
  BY <1>0, <1>00, <1>15, Sent DEF Claim
<1>16. CASE Writes
  BY <1>0, <1>00, <1>16, StillMove DEF Writes
<1>17. CASE Exits
  BY <1>0, <1>00, <1>17, StillMove DEF Exits
<1>17a. CASE GivesUp
  BY <1>0, <1>00, <1>17a, StillMove DEF GivesUp
<1>18. CASE LeaseLost
  BY <1>0, <1>00, <1>18, StillMove DEF LeaseLost
<1>19. CASE DeadlinePasses
  BY <1>0, <1>00, <1>19, StillMove DEF DeadlinePasses
<1>20. CASE Crash
  BY <1>20
<1> QED
  BY <1>1, <1>2, <1>3, <1>4, <1>5, <1>6, <1>7, <1>8, <1>9, <1>10, <1>11, <1>12, <1>13, <1>14, <1>15, <1>16, <1>17, <1>17a, <1>18, <1>19, <1>20
  DEF Next, RunnerStep, TaskStep

-----------------------------------------------------------------------------
(* The invariant.                                                          *)

LEMMA NoJob ==
  ASSUME TypeOK, Quiet, mem = None, Next
  PROVE  Run \/ Crash
<1>1. host = "none" /\ \A t \in Task : task[t].pc = "idle"
  BY DEF Quiet
<1>2. ~RunnerStep
  BY <1>1, Tasks DEF RunnerStep, Start, Probe, Adopt
<1>3. \A c \in Caller : ~Call(c) /\ ~Bind(c)
  BY <1>1, Tasks DEF Call, Poll, CancelAction, CancelOperation, StopForBudget, Bind
<1>4. \A t \in Task : ~TaskStep(t)
  BY <1>1 DEF TaskStep, Look, Ask, Apply, Note, Intend, Kill, Refresh, Record, Claim
<1>5. ~Writes /\ ~Exits /\ ~GivesUp /\ ~LeaseLost /\ ~DeadlinePasses
  BY <1>1 DEF Writes, Exits, GivesUp, LeaseLost, DeadlinePasses, Active, Open
<1> QED  BY <1>2, <1>3, <1>4, <1>5 DEF Next

\* A step that is no crash, summarised.
Step == (Starts \/ Ends) /\ (Admitted \/ LedgerChange) /\ Moved

LEMMA StepSummary ==
  ASSUME IInv, Next
  PROVE  Crash \/ Step
<1>1. TaskTyped /\ ProcessTyped
  BY DEF IInv, TypeOK, TaskTyped, ProcessTyped
<1>2. Starts \/ Ends \/ Crash
  BY <1>1, ProcessStep
<1>3. Crash \/ Admitted \/ LedgerChange
  BY LedgerStep DEF IInv
<1>4. Starts \/ Ends => Crash \/ Moved
  BY TaskSteps DEF IInv
<1> QED  BY <1>2, <1>3, <1>4 DEF Step

LEMMA FirstRecord ==
  /\ [state |-> "starting", intent |-> None, out |-> 0, cut |-> FALSE] \in Job
  /\ [state |-> "starting", intent |-> None, out |-> 0, cut |-> FALSE] # None
<1>1. [state |-> "starting", intent |-> None, out |-> 0, cut |-> FALSE] \in Job
  BY CliJobsAssumption DEF Job
<1> QED  BY <1>1, NoneAssumption

LEMMA AdmittedJob ==
  ASSUME Admitted
  PROVE  mem' \in Job /\ mem' # None /\ mem'.out = 0 /\ mem'.state = "starting" /\ mem'.intent = None
BY FirstRecord DEF Admitted

LEMMA LedgerTypes ==
  ASSUME IInv, Next
  PROVE  LedgerTyped'
<1>0. mem \in Job \cup {None} /\ disk \in Job \cup {None}
  BY DEF IInv, TypeOK
<1>1. CASE Crash
  <2>1. Reconciled(disk) \in Job \cup {None}
    BY <1>0 DEF Reconciled, Active, Job, Terminal, Target
  <2> QED  BY <1>1, <2>1 DEF Crash, LedgerTyped
<1>2. CASE Admitted
  BY <1>0, <1>2, AdmittedJob DEF Admitted, LedgerTyped
<1>3. CASE LedgerChange
  BY <1>0, <1>3 DEF LedgerChange, Saved, LedgerTyped, ledger
<1> QED  BY <1>1, <1>2, <1>3, StepSummary DEF Step

\* Every step keeps the types.
LEMMA TypeStep ==
  ASSUME IInv, Next
  PROVE  TypeOK'
<1>1. TaskTyped'
  <2>1. CASE Crash
    BY <2>1, IdleTyped DEF Crash, TaskTyped
  <2>2. CASE Step
    BY <2>2 DEF Step, Moved
  <2> QED  BY <2>1, <2>2, StepSummary
<1>2. ProcessTyped /\ NotesTyped /\ FaultsTyped
  BY DEF IInv, TypeOK, ProcessTyped, NotesTyped, FaultsTyped
<1>3. ProcessTyped' /\ NotesTyped' /\ FaultsTyped'
  BY <1>2, ProcessTypes, FaultTypes
<1> QED
  BY <1>1, <1>3, LedgerTypes DEF TypeOK, TaskTyped, LedgerTyped, ProcessTyped, NotesTyped, FaultsTyped

\* A restart finds a sound file, and interrupts what was active.
LEMMA CrashStep ==
  ASSUME IInv, Crash
  PROVE  Answers' /\ Counted' /\ Quiet' /\ Sound' /\ Early' /\ Ahead' /\ Durable'
<1> USE NoneAssumption
<1>0. disk \in Job \cup {None} /\ Sound /\ Quiet /\ starts \in Nat
  BY DEF IInv, TypeOK
<1>1. \A t \in Task : task'[t] = Idle
  BY DEF Crash
<1>2. Idle.pc = "idle" /\ Idle.resp = None
  BY DEF Idle
<1>3. /\ mem' = Reconciled(disk) /\ disk' = mem' /\ host' = "none"
      /\ written' = written /\ starts' = starts
  BY DEF Crash
<1>3a. alive' => alive
  BY DEF Crash
<1>4. Answers' /\ Counted' /\ Early'
  BY <1>1, <1>2, Tasks DEF Answers, Holding, Counted, Early
<1>5. ~Active(Reconciled(disk)) /\ (Reconciled(disk) = None <=> disk = None)
  BY <1>0 DEF Reconciled, Active, Job, Terminal, Target
<1>6. Quiet'
  BY <1>0, <1>1, <1>2, <1>3, <1>5 DEF Quiet
<1>7. Sound'
  <2>1. disk # None => /\ Reconciled(disk).out = disk.out /\ Reconciled(disk).cut = disk.cut
                       /\ Reconciled(disk).state \in {disk.state, "interrupted"}
    BY <1>0 DEF Reconciled, Active, Job
  <2> QED  BY <1>0, <1>3, <1>3a, <1>5, <2>1 DEF Sound, SoundJob, Open, Full
<1>8. Ahead' /\ Durable'
  BY <1>3, <1>5 DEF Ahead, Durable, Active
<1> QED  BY <1>4, <1>6, <1>7, <1>8

LEMMA CountedStep ==
  ASSUME IInv, Step
  PROVE  Counted'
<1> SUFFICES ASSUME NEW u \in Task, task'[u].pc = "claim", Active(mem'), task[u].pc = "claim"
             PROVE  Full(mem)'
  BY DEF Counted, Step, Moved
<1>1. host = "done" /\ mem # None
  BY DEF IInv, Answers, Holding, Quiet
<1>2. Ends /\ written' = written
  BY <1>1 DEF Step, Starts, Ends, Open
<1>3. LedgerChange
  BY <1>1 DEF Step, Admitted
<1>4. Active(mem) => Full(mem)
  BY DEF IInv, Counted
<1>5. mem' = mem \/ \E j \in Job : Changes(j) /\ mem' = j
  BY <1>3 DEF LedgerChange, Saved, ledger
<1> QED  BY <1>1, <1>2, <1>4, <1>5 DEF Changes, Full

LEMMA QuietStep ==
  ASSUME IInv, Next, Step, ~Crash
  PROVE  Quiet'
<1>0. Quiet /\ Early /\ TypeOK
  BY DEF IInv
<1>1. mem' # None
  <2>1. CASE Run
    BY <2>1, FirstRecord DEF Run, Persist, PersistFails
  <2>2. CASE mem # None
    BY <2>2, AdmittedJob, NoneAssumption DEF Step, LedgerChange, Saved, ledger
  <2> QED  BY <1>0, <2>1, <2>2, NoJob
<1>2. disk' = None => disk = None
  BY <1>1, NoneAssumption, AdmittedJob DEF Step, Admitted, LedgerChange, Saved, ledger
<1>3. Starts => starts = 0 /\ disk # None
  BY <1>0 DEF Early, Starts, EarlyJob
<1>4. CASE Starts
  BY <1>0, <1>1, <1>2, <1>3, <1>4 DEF Quiet, Starts, ledger
<1>5. CASE Ends
  <2>1. /\ disk' = None => starts' = 0
        /\ host' # "none" => starts' = 1
        /\ starts' \in {0, 1}
    BY <1>0, <1>2, <1>5 DEF Quiet, Ends, Open
  <2>2. starts' = 0 => written' = 0
    BY <1>0, <1>5 DEF Quiet, Ends, Open
  <2>3. host' = "done" => ~alive'
    BY <1>0, <1>5 DEF Quiet, Ends, Open
  <2> QED  BY <1>1, <2>1, <2>2, <2>3 DEF Quiet
<1> QED  BY <1>4, <1>5 DEF Step

\* What a record tells, after the step.
LEMMA SoundKept ==
  ASSUME IInv, written' \in Nat, Ends, NEW j \in Job \cup {None}, SoundJob(j) \/ Changes(j)
  PROVE  /\ j # None => j.out <= written'
         /\ j # None /\ j.state \in Terminal \ {"interrupted"} =>
              ~Open' /\ ~alive' /\ (j.out = written' \/ j.cut)
<1>0. written \in Nat /\ written <= written'
  BY CliJobsAssumption DEF IInv, TypeOK, Ends, Open
<1>1. CASE SoundJob(j)
  BY <1>0, <1>1 DEF SoundJob, Ends, Open, Full, Job
<1>2. CASE Changes(j)
  BY <1>0, <1>2, NoneAssumption DEF Changes, Ends, Open, Full, Job, IInv, Quiet, Terminal, Target
<1> QED  BY <1>1, <1>2

LEMMA SoundStep ==
  ASSUME IInv, written' \in Nat, Step
  PROVE  Sound'
<1>0. /\ Sound /\ Quiet /\ Early /\ mem \in Job \cup {None} /\ disk \in Job \cup {None}
      /\ written \in Nat
  BY CliJobsAssumption DEF IInv, TypeOK
<1>1. CASE Starts
  <2>1. mem' = mem /\ disk' = disk /\ written = 0 /\ written' = 0
    BY <1>0, <1>1 DEF Starts, ledger, Early, Quiet
  <2>2. EarlyJob(mem) /\ EarlyJob(disk)
    BY <1>0, <1>1 DEF Starts, Early
  <2> QED  BY <1>0, <2>1, <2>2 DEF Sound, SoundJob, EarlyJob
<1>2. CASE Ends
  <2> DEFINE Told(j) == /\ j # None => j.out <= written'
                        /\ j # None /\ j.state \in Terminal \ {"interrupted"} =>
                             ~Open' /\ ~alive' /\ (j.out = written' \/ j.cut)
  <2>1. Told(mem) /\ Told(disk)
    BY <1>0, <1>2, SoundKept DEF Sound
  <2>2. \A j \in Job : Changes(j) => Told(j)
    BY <1>2, SoundKept
  <2>3. Admitted => Told(mem')
    <3>1. Admitted => mem'.out = 0 /\ mem'.state = "starting"
      BY AdmittedJob
    <3>2. 0 <= written'
      OBVIOUS
    <3> QED  BY <3>1, <3>2 DEF Terminal, Target
  <2>4. Told(mem') /\ Told(disk')
    <3> HIDE DEF Told
    <3>1. CASE Admitted
      BY <2>1, <2>3, <3>1 DEF Admitted
    <3>2. CASE LedgerChange
      BY <2>1, <2>2, <3>2 DEF LedgerChange, Saved, ledger
    <3> QED  BY <3>1, <3>2 DEF Step
  <2> QED  BY <2>4 DEF Sound, SoundJob, Full
<1> QED  BY <1>1, <1>2 DEF Step

LEMMA EarlyStep ==
  ASSUME IInv, Step
  PROVE  Early'
<1> SUFFICES ASSUME task'[Runner].pc = "start"
             PROVE  host' = "none" /\ starts' = 0 /\ EarlyJob(mem') /\ EarlyJob(disk')
  BY DEF Early, EarlyJob
<1>0. Ends
  BY DEF Step, Starts
<1>1. CASE Admitted
  <2>1. mem = None /\ disk' = mem'
    BY <1>1 DEF Admitted
  <2>2. host = "none" /\ starts = 0
    BY <2>1 DEF IInv, Quiet
  <2>3. EarlyJob(mem')
    BY <1>1, AdmittedJob DEF EarlyJob, Terminal, Target
  <2> QED  BY <1>0, <2>1, <2>2, <2>3 DEF Ends, Open
<1>2. CASE task[Runner].pc = "start" /\ LedgerChange
  <2>1. host = "none" /\ starts = 0 /\ EarlyJob(mem) /\ EarlyJob(disk)
    BY <1>2 DEF IInv, Early
  <2>2. \A j \in Job : Changes(j) => EarlyJob(j)
    BY <2>1, NoneAssumption DEF Changes, EarlyJob
  <2>3. EarlyJob(mem') /\ EarlyJob(disk')
    BY <1>2, <2>1, <2>2 DEF LedgerChange, Saved, ledger
  <2> QED  BY <1>0, <2>1, <2>3 DEF Ends, Open
<1> QED  BY <1>1, <1>2 DEF Step, Moved

\* What a job may end as.
MayEnd(j) ==
  \/ j.state = "interrupted"
  \/ mem.intent # None /\ j.state = mem.intent
  \/ mem.intent = None /\ starts = 1 /\ j.state \in {"completed", "failed"}

LEMMA ChangeEnds ==
  ASSUME IInv, NEW j \in Job, Changes(j), j.state \in Terminal
  PROVE  MayEnd(j)
BY DEF Changes, MayEnd, IInv, Quiet

LEMMA AheadStep ==
  ASSUME IInv, Step
  PROVE  Ahead'
<1> SUFFICES ASSUME Active(mem'), disk' # None, disk'.state \in Terminal
             PROVE  MayEnd(disk)'
  BY DEF Ahead, MayEnd
<1>1. CASE Starts
  BY <1>1 DEF Starts, ledger, IInv, Early, EarlyJob, MayEnd
<1>2. CASE Ends /\ Admitted
  <2>1. disk = None
    BY <1>2 DEF Admitted, IInv, Quiet
  <2> QED  BY <1>2, <2>1, AdmittedJob DEF Admitted, Terminal, Target
<1>3. CASE Ends /\ LedgerChange
  <2>0. starts' = starts
    BY <1>3 DEF Ends, Open
  <2>1. Active(mem) /\ disk # None /\ disk.state \in Terminal => MayEnd(disk)
    BY DEF IInv, Ahead, MayEnd
  <2>2. CASE mem' = mem /\ disk' \in {disk, mem}
    BY <2>0, <2>1, <2>2 DEF MayEnd, Active
  <2>3. CASE \E j \in Job : Changes(j) /\ Saved(j)
    <3>1. PICK j \in Job : Changes(j) /\ Saved(j)
      BY <2>3
    <3>2. CASE mem' = j /\ disk' = j
      BY <3>2 DEF Active
    <3>3. CASE mem' = mem /\ disk' \in {disk, j}
      BY <2>0, <2>1, <3>1, <3>3, ChangeEnds DEF MayEnd, Changes
    <3>4. CASE mem' = j /\ disk' \in {disk, j} /\ Active(j) /\ j.intent = mem.intent
      BY <2>0, <2>1, <3>1, <3>4 DEF MayEnd, Changes, Active
    <3> QED  BY <3>1, <3>2, <3>3, <3>4 DEF Saved
  <2> QED  BY <1>3, <2>2, <2>3 DEF LedgerChange, ledger
<1> QED  BY <1>1, <1>2, <1>3 DEF Step

LEMMA DurableStep ==
  ASSUME IInv, Step
  PROVE  Durable'
<1>1. CASE Admitted
  BY <1>1, AdmittedJob DEF Durable, Terminal, Target
<1>2. CASE LedgerChange
  <2>1. CASE mem' = mem /\ disk' \in {disk, mem}
    BY <2>1 DEF IInv, Durable
  <2>2. CASE \E j \in Job : Changes(j) /\ Saved(j)
    BY <2>2 DEF Saved, Changes, Durable, Active
  <2> QED  BY <1>2, <2>1, <2>2 DEF LedgerChange, ledger
<1> QED  BY <1>1, <1>2 DEF Step

LEMMA InitInv == Init => IInv
<1> SUFFICES ASSUME Init
             PROVE  IInv
  OBVIOUS
<1>1. TypeOK
  <2>1. ProcessTyped /\ NotesTyped /\ unsaved \in BOOLEAN
    <3>1. written \in 0 .. MaxOut /\ starts \in Nat
      BY CliJobsAssumption DEF Init
    <3> QED  BY <3>1 DEF Init, ProcessTyped, NotesTyped
  <2>2. faults \in 0 .. MaxFaults
    BY CliJobsAssumption DEF Init
  <2>3. TaskTyped /\ LedgerTyped
    BY IdleTyped DEF Init, TaskTyped, LedgerTyped
  <2> QED  BY <2>1, <2>2, <2>3 DEF TypeOK, ProcessTyped, NotesTyped, TaskTyped, LedgerTyped
<1>2. Idle.pc = "idle" /\ Idle.resp = None
  BY DEF Idle
<1>3. Answers /\ Counted /\ Early
  BY <1>2, Tasks DEF Init, Answers, Holding, Counted, Early
<1>4. Quiet /\ Sound /\ Ahead /\ Durable
  BY <1>2 DEF Init, Quiet, Sound, SoundJob, Ahead, Durable, Active
<1> QED  BY <1>1, <1>3, <1>4 DEF IInv

\* The inductive invariant.
THEOREM Invariance == Spec => []IInv
<1>1. IInv /\ [Next]_vars => IInv'
  <2> SUFFICES ASSUME IInv, [Next]_vars
               PROVE  IInv'
    OBVIOUS
  <2>1. CASE Crash
    BY <2>1, CrashStep, TypeStep DEF IInv, Next
  <2>2. CASE Next /\ ~Crash
    <3>1. Step
      BY <2>2, StepSummary
    <3>2. Answers'
      BY <3>1 DEF Step, Moved
    <3>3. TypeOK' /\ written' \in Nat
      BY <2>2, TypeStep, CliJobsAssumption DEF TypeOK
    <3> QED  BY <2>2, <3>1, <3>2, <3>3, CountedStep, QuietStep, SoundStep, EarlyStep,
                AheadStep, DurableStep DEF IInv
  <2>3. CASE UNCHANGED vars
    BY <2>3 DEF vars, ledger, process, history, IInv, TypeOK, Answers, Counted, Full, Quiet, Sound,
       SoundJob, Early, Ahead, Durable, Active, Open
  <2> QED  BY <2>1, <2>2, <2>3
<1> QED  BY <1>1, InitInv, PTL DEF Spec

\* Every variable keeps its type.
THEOREM TypeCorrect == Spec => []TypeOK
BY Invariance, PTL DEF IInv

\* An end that is published is true: the process is gone and its output is
\* counted or marked as cut, whichever tasks raced for it.
THEOREM EndIsTrue == Spec => []SettledIsFinal
<1>1. IInv => SettledIsFinal
  BY DEF IInv, Sound, SoundJob, SettledIsFinal, Full
<1> QED  BY <1>1, Invariance, PTL

\* No crash takes back an end that memory has published: the file has it.
THEOREM EndSurvives == Spec => [](mem # None /\ mem.state \in Terminal => disk = mem)
BY Invariance, PTL DEF IInv, Durable

-----------------------------------------------------------------------------
(* The refinement.                                                         *)

LEMMA CrashMaps ==
  ASSUME IInv, Crash
  PROVE  Abstract!Next \/ UNCHANGED Abstract!vars
<1> USE NoneAssumption
<1>0. mem \in Job \cup {None} /\ disk \in Job \cup {None} /\ Quiet /\ Ahead /\ Durable
  BY DEF IInv, TypeOK
<1>1. mem' = Reconciled(disk) /\ starts' = starts
  BY DEF Crash
<1>2. CASE mem = None
  <2>1. mem' = None
    BY <1>0, <1>1, <1>2 DEF Quiet, Reconciled, Active
  <2> QED  BY <1>1, <1>2, <2>1 DEF Abstract!vars, Active
<1>3. CASE mem # None /\ ~Active(mem)
  <2>1. mem' = mem
    BY <1>0, <1>1, <1>3 DEF Durable, Reconciled, Active
  <2> QED  BY <1>1, <2>1 DEF Abstract!vars
<1>4. CASE Active(mem) /\ disk = None
  <2>1. mem' = None /\ starts = 0
    BY <1>0, <1>1, <1>4 DEF Quiet, Reconciled, Active
  <2>2. Abstract!Forget
    BY <1>1, <1>4, <2>1 DEF Abstract!Forget, Active
  <2> QED  BY <2>2 DEF Abstract!Next
<1>5. CASE Active(mem) /\ disk # None
  <2>1. mem' # None /\ ~Active(mem') /\ MayEnd(mem')
    <3>1. CASE Active(disk)
      BY <1>0, <1>1, <1>5, <3>1 DEF Reconciled, Active, MayEnd, Job, Terminal, Target
    <3>2. CASE ~Active(disk)
      BY <1>0, <1>1, <1>5, <3>2 DEF Reconciled, Active, MayEnd, Ahead
    <3> QED  BY <3>1, <3>2
  <2>2. Abstract!End
    BY <1>1, <1>5, <2>1 DEF Abstract!End, MayEnd, Active
  <2> QED  BY <2>2 DEF Abstract!Next
<1> QED  BY <1>2, <1>3, <1>4, <1>5 DEF Active

LEMMA StepMaps ==
  ASSUME IInv, Step
  PROVE  Abstract!Next \/ UNCHANGED Abstract!vars
<1> USE NoneAssumption
<1>1. CASE Starts
  <2>1. mem' = mem /\ starts' = 1 /\ starts = 0 /\ mem # None
    BY <1>1 DEF Starts, ledger, IInv, Early, EarlyJob
  <2>2. (IF mem = None THEN "none" ELSE IF Active(mem) THEN "active" ELSE mem.state) # "none"
    BY <2>1 DEF IInv, TypeOK, Active, Job, Terminal, Target
  <2>3. Abstract!Start
    BY <2>1, <2>2 DEF Abstract!Start
  <2> QED  BY <2>3 DEF Abstract!Next
<1>2. CASE Ends /\ Admitted
  <2>1. mem = None /\ Active(mem') /\ mem'.intent = None /\ mem' # None /\ starts' = starts
    BY <1>2, AdmittedJob DEF Admitted, Ends, Active, Terminal, Target
  <2>2. Abstract!Accept
    BY <2>1 DEF Abstract!Accept, Active
  <2> QED  BY <2>2 DEF Abstract!Next
<1>3. CASE Ends /\ LedgerChange
  <2>1. starts' = starts
    BY <1>3 DEF Ends
  <2>2. CASE mem' = mem
    BY <2>1, <2>2 DEF Abstract!vars
  <2>3. CASE \E j \in Job : Changes(j) /\ mem' = j
    <3>1. PICK j \in Job : Changes(j) /\ mem' = j
      BY <2>3
    <3>2. Active(mem) /\ mem # None /\ j # None
      BY <3>1 DEF Changes, Active
    <3>3. CASE Active(j) /\ j.intent = mem.intent
      BY <2>1, <3>1, <3>2, <3>3 DEF Abstract!vars
    <3>4. CASE Active(j) /\ j.intent # mem.intent
      <4>1. mem.intent = None /\ j.intent \in Target
        BY <3>1, <3>4 DEF Changes, Job
      <4>2. Abstract!Stop
        BY <2>1, <3>1, <3>2, <3>4, <4>1 DEF Abstract!Stop, Abstract!Target, Target
      <4> QED  BY <4>2 DEF Abstract!Next
    <3>5. CASE ~Active(j)
      <4>1. j.state \in Terminal /\ MayEnd(j)
        BY <3>1, <3>2, <3>5, ChangeEnds DEF Active
      <4>2. Abstract!End
        BY <2>1, <3>1, <3>2, <3>5, <4>1 DEF Abstract!End, MayEnd
      <4> QED  BY <4>2 DEF Abstract!Next
    <3> QED  BY <3>3, <3>4, <3>5
  <2> QED  BY <1>3, <2>2, <2>3 DEF LedgerChange, Saved, ledger
<1> QED  BY <1>1, <1>2, <1>3 DEF Step

\* The job keeps the promise of CliJob.
THEOREM Refinement == Spec => JobSpec
<1>1. Init => Abstract!Init
  BY DEF Init, Abstract!Init, Active
<1>2. IInv /\ [Next]_vars => [Abstract!Next]_(Abstract!vars)
  <2> SUFFICES ASSUME IInv, [Next]_vars
               PROVE  Abstract!Next \/ UNCHANGED Abstract!vars
    OBVIOUS
  <2>1. CASE Next
    BY <2>1, StepSummary, CrashMaps, StepMaps
  <2>2. CASE UNCHANGED vars
    BY <2>2 DEF vars, ledger, process, Abstract!vars, Active
  <2> QED  BY <2>1, <2>2
<1> QED  BY <1>1, <1>2, Invariance, PTL DEF Spec, JobSpec, Abstract!Spec
=============================================================================
