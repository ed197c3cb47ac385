------------------------------- MODULE CliJobs -------------------------------
(***************************************************************************)
(* One job of the CLI runtime (cli/runtime.rs, cli/ledger.rs) and the      *)
(* process it owns in the ProcessHost (CliProcessHost.kt).                 *)
(*                                                                         *)
(* The job lives in the ledger, in memory behind one mutex and on disk as  *)
(* one file replaced by renaming.  Every task that works on the job copies *)
(* it, awaits the ProcessHost and comes back: the call that runs it, its   *)
(* monitor, and callers that poll it, cancel it, cancel the tool call it   *)
(* belongs to, or find the workspace over its budget.                      *)
(*                                                                         *)
(* Jobs meet only where they are admitted, so one is modelled, with one    *)
(* attempt and one operation id.  All tasks and the ProcessHost die with   *)
(* the application, the process tree perhaps not.  Output is counted, the  *)
(* exit code is good or bad, texts are left out.                           *)
(***************************************************************************)
EXTENDS Naturals

CONSTANTS
  Caller,      \* concurrent calls for the job
  Runner,      \* the call that runs it
  Monitor,     \* its monitor
  MaxOut,      \* bound on output
  MaxFaults,   \* bound on failed saves, failed host calls and crashes
  None

ASSUME CliJobsAssumption ==
  /\ MaxOut \in Nat /\ MaxFaults \in Nat
  /\ Runner \notin Caller /\ Monitor \notin Caller \cup {Runner}

VARIABLES
  mem,        \* the job in memory: its record, or None
  disk,       \* the job in the ledger file, or None
  task,       \* what each task does and holds
  host,       \* the ProcessHost's handle: "none", "live", "done", "stuck"
  alive,      \* the process tree runs
  good,       \* it exited with 0
  written,    \* output so far
  lost,       \* the handle has lost its foreground lease
  expired,    \* the deadline has passed
  faults,
  starts,     \* processes started for the operation (history)
  unsaved,    \* a save failed (history)
  unstarted,  \* the process could not be started (history)
  noticed     \* an inspect answer told of the lost lease (history)

ledger  == <<mem, disk>>
process == <<host, alive, good, written, lost, starts>>
history == <<faults, unsaved, unstarted, noticed>>
vars    == <<ledger, task, process, expired, history>>

Task     == Caller \cup {Runner, Monitor}
Target   == {"cancelled", "timedout", "failed", "interrupted"}
Terminal == Target \cup {"completed"}
Job      == [state : Terminal \cup {"starting", "running", "stopping"},
             intent : Target \cup {None}, out : 0 .. MaxOut, cut : BOOLEAN]
Answer   == [is : {"running", "exited", "missing"}, good : BOOLEAN, out : 0 .. MaxOut, lost : BOOLEAN]
Location == {"idle", "start", "probe", "adopt", "look", "ask", "apply", "bind", "intend", "kill",
             "refresh", "record", "claim", "note"}

ASSUME NoneAssumption == None \notin Job \cup Answer \cup Target

TaskState == [pc : Location, fresh : BOOLEAN, goal : Target \cup {None}, resp : Answer \cup {None}]

Active(j) == j # None /\ j.state \notin Terminal

Idle == [pc |-> "idle", fresh |-> FALSE, goal |-> None, resp |-> None]

Init ==
  /\ mem = None /\ disk = None
  /\ task = [t \in Task |-> Idle]
  /\ host = "none" /\ alive = FALSE /\ good = FALSE /\ written = 0 /\ lost = FALSE /\ starts = 0
  /\ expired = FALSE
  /\ faults = 0 /\ unsaved = FALSE /\ unstarted = FALSE /\ noticed = FALSE

NoFault == UNCHANGED <<faults, unsaved>>
Fault   == faults < MaxFaults /\ faults' = faults + 1 /\ UNCHANGED unsaved
BadSave == faults < MaxFaults /\ faults' = faults + 1 /\ unsaved' = TRUE

-----------------------------------------------------------------------------
(* Saving the ledger.  A save that fails may have renamed the file.        *)

\* replace_ledger_atomically: the file, then memory.
Replace(j) == mem' = j /\ disk' = j /\ NoFault

\* Mutation of ReplaceFails: memory was changed first.
ReplaceFailsLate(j) == mem' = j /\ disk' \in {disk, j} /\ BadSave

ReplaceFails(j) == mem' = mem /\ disk' \in {disk, j} /\ BadSave

\* persist_owner: memory was changed already.
Persist(j)      == mem' = j /\ disk' = j /\ NoFault
PersistFails(j) == mem' = j /\ disk' \in {disk, j} /\ BadSave

-----------------------------------------------------------------------------
(* Where a task goes on.                                                   *)

Goto(t, l)       == task' = [task EXCEPT ![t].pc = l]
Take(t, l, f, g) == task' = [task EXCEPT ![t] = [@ EXCEPT !.pc = l, !.fresh = f, !.goal = g]]
Enter(t, l, g)   == task' = [task EXCEPT ![t] = [Idle EXCEPT !.pc = l, !.goal = g]]
Return(t)        == task' = [task EXCEPT ![t] = Idle]

\* The runner hands the job over to the monitor.
Spawn == task' = [task EXCEPT ![Runner] = Idle, ![Monitor] = [Idle EXCEPT !.pc = "look"]]

\* Mutation of Unconfirmed: nobody comes back to it.
UnconfirmedIsFinal(t) == IF t = Runner THEN Goto(t, "note") ELSE Return(t)

\* Containment failed or was not confirmed: callers report it, the runner and
\* the monitor note it and go on.
Unconfirmed(t) == IF t \in Caller THEN Return(t) ELSE Goto(t, "note")

\* An error that ends the task; nobody monitors the job any more if it is the
\* runner or the monitor.
Fail(t) == Return(t)

-----------------------------------------------------------------------------
(* run_action.                                                             *)

\* Admission is in memory before it is saved.  The same operation sent again
\* is answered from the job.
Run ==
  /\ task[Runner].pc = "idle" /\ mem = None
  /\ LET j == [state |-> "starting", intent |-> None, out |-> 0, cut |-> FALSE]
     IN \/ Persist(j) /\ Goto(Runner, "start")
        \/ PersistFails(j) /\ Fail(Runner)
  /\ expired' = FALSE
  /\ UNCHANGED <<process, unstarted, noticed>>

\* The host starts a process, or finds the one it has for the attempt.
HostStarts ==
  IF host = "none"
    THEN /\ host' = "live" /\ alive' = TRUE /\ starts' = starts + 1
         /\ good' = FALSE /\ written' = 0 /\ lost' = FALSE
    ELSE UNCHANGED process

Start ==
  /\ task[Runner].pc = "start"
  /\ \/ HostStarts /\ NoFault /\ Goto(Runner, "adopt")
     \/ HostStarts /\ Fault /\ Goto(Runner, "probe")           \* the answer is lost
     \/ UNCHANGED process /\ Fault /\ Goto(Runner, "probe")
  /\ UNCHANGED <<ledger, expired, unstarted, noticed>>

ContainStart == task' = [task EXCEPT ![Runner].pc = "intend", ![Runner].goal = "failed"]

\* start_or_adopt: an attempt that is there is adopted, by starting it again.
Probe ==
  /\ task[Runner].pc = "probe"
  /\ \/ host = "none" /\ NoFault /\ ContainStart /\ unstarted' = TRUE
     \/ host # "none" /\ NoFault /\ Goto(Runner, "adopt") /\ UNCHANGED unstarted
     \/ Fault /\ ContainStart /\ unstarted' = (unstarted \/ host = "none")
  /\ UNCHANGED <<ledger, process, expired, noticed>>

\* adopt_start_response says "running" of every job that has not ended.
Adopt ==
  /\ task[Runner].pc = "adopt"
  /\ LET j == IF Active(mem) THEN [mem EXCEPT !.state = "running"] ELSE mem
     IN \/ Persist(j) /\ Spawn
        \/ PersistFails(j) /\ Fail(Runner)
  /\ UNCHANGED <<process, expired, unstarted, noticed>>

-----------------------------------------------------------------------------
(* Inspecting: wait_for_progress, inspect_job, monitor_job.                *)

WithIntent(j, g) == IF j.intent = None THEN [j EXCEPT !.intent = g] ELSE j

\* The operations on a job that exists: poll_action, cancel_action behind
\* bind_cancel_operation, cancel_operation, enforce_workspace_budget.
Poll(c)            == Enter(c, "look", None)
CancelAction(c)    == Enter(c, "bind", "cancelled")
CancelOperation(c) == Enter(c, "intend", "cancelled")
StopForBudget(c)   == Enter(c, "intend", "failed")

Call(c) ==
  /\ task[c].pc = "idle" /\ mem # None
  /\ Poll(c) \/ CancelAction(c) \/ CancelOperation(c) \/ StopForBudget(c)
  /\ UNCHANGED <<ledger, process, expired, history>>

\* ensure_deadline_intent, and what the copy of the job says.  A monitor with
\* an intent to carry out does so instead of inspecting.
Look(t) ==
  /\ task[t].pc = "look"
  /\ LET late == Active(mem) /\ expired /\ mem.intent = None
         j    == IF late THEN [mem EXCEPT !.intent = "timedout", !.state = "stopping"] ELSE mem
         next == IF t = Monitor /\ j.intent # None THEN "intend" ELSE "ask"
     IN \/ /\ IF late THEN Replace(j) ELSE UNCHANGED ledger /\ NoFault
           /\ IF Active(mem)
                THEN Take(t, next, j.intent = None, j.intent)
                ELSE Return(t)
        \/ late /\ ReplaceFails(j) /\ Fail(t)
  /\ UNCHANGED <<process, expired, unstarted, noticed>>

\* A handle is inspected as running until it is finalized.
Open == host \in {"live", "stuck"}

Inspected ==
  IF host = "none"
    THEN [is |-> "missing", good |-> FALSE, out |-> 0, lost |-> FALSE]
    ELSE [is |-> IF Open THEN "running" ELSE "exited",
          good |-> good, out |-> written, lost |-> lost]

Ask(t) ==
  /\ task[t].pc = "ask"
  /\ \/ NoFault /\ task' = [task EXCEPT ![t].pc = "apply", ![t].resp = Inspected]
     \/ Fault /\ Goto(t, "note")
  /\ UNCHANGED <<ledger, process, expired, unstarted, noticed>>

\* apply_process_observation.  Answers arrive in any order; counters only grow.
ObservedState(j, r) ==
  CASE r.is = "exited"  -> IF j.intent # None THEN j.intent
                           ELSE IF r.good THEN "completed" ELSE "failed"
    [] r.is = "running" -> IF j.intent = None THEN "running" ELSE "stopping"
    [] r.is = "missing" -> IF j.intent = None THEN "interrupted" ELSE j.state

Observe(j, r) ==
  [j EXCEPT !.state = ObservedState(j, r),
            !.out = IF r.is = "missing" \/ r.out < j.out THEN j.out ELSE r.out]

\* inspect_lease_facts is told that there is an intent when there is none.
LeaseFacts(r, has_intent) == r.lost /\ r.is = "running" /\ ~has_intent

Applied(j, r, has_intent) ==
  LET k == Observe(j, r)
  IN IF LeaseFacts(r, has_intent) /\ k.state \notin Terminal
       THEN [WithIntent(k, "interrupted") EXCEPT !.state = "stopping"] ELSE k

Apply(t) ==
  /\ task[t].pc = "apply"
  /\ LET r == task[t].resp
         j == Applied(mem, r, task[t].fresh)
         next == IF ~Active(j) THEN "idle" ELSE IF expired THEN "intend" ELSE "look"
     IN \/ /\ Active(mem)
           /\ Replace(j)
           /\ noticed' = (noticed \/ (r.lost /\ r.is = "running"))
           /\ IF t = Monitor /\ next # "idle"
                THEN Enter(t, next, "timedout")
                ELSE Return(t)
        \/ ~Active(mem) /\ NoFault /\ Return(t) /\ UNCHANGED <<ledger, noticed>>
        \/ /\ Active(mem) /\ ReplaceFails(j) /\ UNCHANGED noticed
           /\ IF t = Monitor THEN Goto(t, "note") ELSE Fail(t)
  /\ UNCHANGED <<process, expired, unstarted>>

\* set_job_reason saves whatever memory holds.  Then the monitor looks again,
\* and the runner spawns it.
Note(t) ==
  /\ task[t].pc = "note"
  /\ \/ /\ Persist(mem)
        /\ IF t = Runner THEN Spawn
           ELSE IF t = Monitor THEN Enter(t, "look", None)
           ELSE Return(t)
     \/ PersistFails(mem) /\ Fail(t)
  /\ UNCHANGED <<process, expired, unstarted, noticed>>

-----------------------------------------------------------------------------
(* Stopping: bind_cancel_operation, cancel_attempt, claim_terminal_intent. *)

\* The operation of a cancel action and the first intent are one save.
Bind(c) ==
  /\ task[c].pc = "bind"
  /\ LET j == IF Active(mem) THEN WithIntent(mem, "cancelled") ELSE mem
     IN \/ Replace(j) /\ Goto(c, "intend")
        \/ ReplaceFails(j) /\ Fail(c)
  /\ UNCHANGED <<process, expired, unstarted, noticed>>

\* persist_terminal_intent: the first one wins.
Intend(t) ==
  /\ task[t].pc = "intend"
  /\ \/ ~Active(mem) /\ Unconfirmed(t) /\ NoFault /\ UNCHANGED ledger
     \/ /\ Active(mem) /\ mem.intent # None
        /\ task' = [task EXCEPT ![t].pc = "kill", ![t].goal = mem.intent]
        /\ NoFault /\ UNCHANGED ledger
     \/ /\ Active(mem) /\ mem.intent = None
        /\ LET j == [mem EXCEPT !.intent = task[t].goal, !.state = "stopping"]
           IN \/ Replace(j) /\ Goto(t, "kill")
              \/ ReplaceFails(j) /\ Unconfirmed(t)
  /\ UNCHANGED <<process, expired, unstarted, noticed>>

\* Mutation of Confirmed: a missing process is taken for a dead one.
ConfirmedGone == TRUE

\* process_host_confirmed_containment: a handle that is not there proves nothing.
Confirmed == host # "none"

\* cancelCliProcess: TERM, QUIT, KILL; then the waiter drains the output and
\* finalizes the handle.
HostKills ==
  /\ host # "stuck"
  /\ host' = IF host = "live" THEN "done" ELSE host
  /\ alive' = (alive /\ host # "live")
  /\ UNCHANGED <<good, written, lost, starts>>

\* It throws: the group could not be ended, or nobody has finalized the handle.
HostThrows ==
  /\ alive' = alive \/ (Open /\ alive' = FALSE)
  /\ UNCHANGED <<host, good, written, lost, starts>>

\* Once the waiter has given up it always throws.
Kill(t) ==
  /\ task[t].pc = "kill"
  /\ \/ HostKills /\ NoFault /\ (IF Confirmed THEN Goto(t, "refresh") ELSE Unconfirmed(t))
     \/ HostKills /\ Fault /\ Unconfirmed(t)                  \* the answer is lost
     \/ HostThrows /\ Unconfirmed(t) /\ (IF host = "stuck" THEN NoFault ELSE Fault)
  /\ UNCHANGED <<ledger, expired, unstarted, noticed>>

\* The final counters; three attempts fail as one.
Refresh(t) ==
  /\ task[t].pc = "refresh"
  /\ \/ NoFault /\ task' = [task EXCEPT ![t].pc = "record", ![t].resp = Inspected]
     \/ Fault /\ Goto(t, "record")
  /\ UNCHANGED <<ledger, process, expired, unstarted, noticed>>

\* apply_output_snapshot, or mark_output_snapshot_incomplete.
Record(t) ==
  /\ task[t].pc = "record"
  /\ LET r == task[t].resp
         j == IF ~Active(mem) THEN mem
              ELSE IF r = None THEN [mem EXCEPT !.cut = TRUE]
              ELSE [mem EXCEPT !.out = r.out, !.cut = FALSE]
     IN \/ Persist(j) /\ task' = [task EXCEPT ![t].pc = "claim", ![t].resp = None]
        \/ PersistFails(j) /\ Unconfirmed(t)
  /\ UNCHANGED <<process, expired, unstarted, noticed>>

Claim(t) ==
  /\ task[t].pc = "claim"
  /\ \/ /\ IF Active(mem) /\ mem.intent = task[t].goal
             THEN Replace([mem EXCEPT !.state = mem.intent])
             ELSE UNCHANGED ledger /\ NoFault
        /\ IF t = Runner THEN Spawn ELSE Return(t)
     \/ /\ Active(mem) /\ mem.intent = task[t].goal
        /\ ReplaceFails([mem EXCEPT !.state = mem.intent])
        /\ Fail(t)
  /\ UNCHANGED <<process, expired, unstarted, noticed>>

-----------------------------------------------------------------------------
(* The process, the clock and the crash.                                   *)

\* The drain threads count what they read.
Writes ==
  /\ Open /\ written < MaxOut
  /\ written' = written + 1
  /\ UNCHANGED <<ledger, task, host, alive, good, lost, starts, expired, history>>

\* The leader has ended, by itself or killed: the waiter ends the group, drains
\* the output and finalizes the handle.
Exits ==
  /\ host = "live"
  /\ host' = "done" /\ alive' = FALSE /\ good' \in BOOLEAN
  /\ UNCHANGED <<ledger, task, written, lost, starts, expired, history>>

\* The waiter tries once.  If ending the group throws, or the output does not
\* come to its end, nobody finalizes the handle any more.
GivesUp ==
  /\ host = "live"
  /\ host' = "stuck" /\ alive' \in {FALSE, alive} /\ Fault
  /\ UNCHANGED <<ledger, task, good, written, lost, starts, expired, unstarted, noticed>>

LeaseLost ==
  /\ Open /\ ~lost
  /\ lost' = TRUE
  /\ UNCHANGED <<ledger, task, host, alive, good, written, starts, expired, history>>

DeadlinePasses ==
  /\ Active(mem) /\ ~expired
  /\ expired' = TRUE
  /\ UNCHANGED <<ledger, task, process, history>>

\* load_and_reconcile: what was active is interrupted and never run again.
Reconciled(j) == IF Active(j) THEN [j EXCEPT !.state = "interrupted", !.intent = None] ELSE j

Crash ==
  /\ Fault
  /\ mem' = Reconciled(disk) /\ disk' = Reconciled(disk)
  /\ task' = [t \in Task |-> Idle]
  /\ host' = "none" /\ lost' = FALSE
  /\ alive' \in {FALSE, alive}
  /\ UNCHANGED <<good, written, starts, expired, unstarted, noticed>>

-----------------------------------------------------------------------------
RunnerStep == Start \/ Probe \/ Adopt

TaskStep(t) ==
  \/ Look(t) \/ Ask(t) \/ Apply(t) \/ Note(t)
  \/ Intend(t) \/ Kill(t) \/ Refresh(t) \/ Record(t) \/ Claim(t)

Next ==
  \/ Run \/ RunnerStep
  \/ \E c \in Caller : Call(c) \/ Bind(c)
  \/ \E t \in Task : TaskStep(t)
  \/ Writes \/ Exits \/ GivesUp \/ LeaseLost \/ DeadlinePasses \/ Crash

\* Tasks run and time passes.  Nobody has to call, and no process to end.
Fairness ==
  /\ WF_vars(RunnerStep) /\ WF_vars(DeadlinePasses)
  /\ \A t \in Task : WF_vars(TaskStep(t))

Spec == Init /\ [][Next]_vars /\ Fairness

-----------------------------------------------------------------------------
\* Every variable keeps its type.
TypeOK ==
  /\ mem \in Job \cup {None} /\ disk \in Job \cup {None}
  /\ task \in [Task -> TaskState]
  /\ host \in {"none", "live", "done", "stuck"} /\ written \in 0 .. MaxOut /\ starts \in Nat
  /\ alive \in BOOLEAN /\ good \in BOOLEAN /\ lost \in BOOLEAN /\ expired \in BOOLEAN
  /\ faults \in 0 .. MaxFaults
  /\ unsaved \in BOOLEAN /\ unstarted \in BOOLEAN /\ noticed \in BOOLEAN

\* Whoever publishes the end of a job, from an observed exit or from a
\* confirmed containment, with any answers overtaking each other: its process
\* tree is gone, and its output is counted to the last byte or marked as cut.
\* "interrupted" promises neither (a restart, or an attempt the host does not
\* know yet).
SettledIsFinal ==
  mem # None /\ mem.state \in Terminal \ {"interrupted"}
    => ~alive /\ (mem.out = written \/ mem.cut)

\* The job keeps the promise of CliJob through crashes and failed saves: one
\* process per operation, one end, and the first stop decides how.
Abstract == INSTANCE CliJob WITH
  job <- IF mem = None THEN "none" ELSE IF Active(mem) THEN "active" ELSE mem.state,
  stop <- IF Active(mem) THEN mem.intent ELSE None
JobSpec == Abstract!Spec

\* Every admitted job ends, by its deadline at the latest.  The exceptions: a
\* save failed, which may end the tasks that watch it; a process that could not
\* be started, whose containment is never confirmed; and a handle whose waiter
\* has given up, which looks running and cannot be cancelled for good.
Settles == Active(mem) ~> (~Active(mem) \/ unsaved \/ unstarted \/ host = "stuck")

\* "A lease-loss fact on a live process records a durable Interrupted intent"
\* (runtime.rs, inspect_job).
LeaseLossIsNoticed == noticed /\ Active(mem) => mem.intent # None
=============================================================================
