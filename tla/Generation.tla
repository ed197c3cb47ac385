------------------------------ MODULE Generation ------------------------------
(***************************************************************************)
(* One streamed reply, from the row that announces it to its one terminal  *)
(* commit, through crashes of either process (vcp_client.rs,               *)
(* message_service.rs, SseProxyService.kt, the Android build).             *)
(*                                                                         *)
(* The upstream connection belongs to a helper process.  The main process  *)
(* follows it over a socket and may die; the helper then publishes the     *)
(* finished reply as a mailbox file.  In the main process whoever works on *)
(* the message holds its lease: the attempt that sent it ("start"), a      *)
(* recovery ("recover"), or the sweep of mailbox files ("sweep").  Each    *)
(* runs in a slot; a slot also stands for its data socket.  The deletion   *)
(* of the message cleans up without the lease.                             *)
(*                                                                         *)
(* A message id is sent once, so the helper has at most one session for    *)
(* it; a reply is the number of its chunks.  The consumer of the text is   *)
(* the subject of StreamOutput.                                            *)
(***************************************************************************)
EXTENDS Naturals, Sequences

CONSTANTS
  Slot,        \* concurrent callers of the main process
  MaxLen,      \* longest reply, in chunks
  MaxFaults,   \* bound on crashes, failed calls and failed transactions
  None

ASSUME GenerationAssumption == MaxLen \in Nat /\ MaxFaults \in Nat /\ None \notin Slot

VARIABLES
  row,       \* the message: "none", "pending" (with its active_generations row), "terminal", "deleted"
  result,    \* the terminal result the database holds, or None
  mail,      \* the published mailbox file, or None
  session,   \* the helper's session: "none", "live", "done", "gone"
  got,       \* chunks it received
  ended,     \* how upstream ended (history), or None
  owner,     \* the slot whose socket it writes to (activeConnection), or None
  tidy,      \* the helper has a cleanupSessionIfCompletedAndDisconnected to run
  lease,     \* the slot in ActiveRequests, or None
  pc, kind,  \* each slot: where it is, and who runs in it
  have,      \* text it received
  final,     \* the result it is about to commit
  known,     \* it knows the session's generation
  snapped,   \* its snapshot is complete
  cancel,    \* its token: "no", "asked", "sent" to the helper
  kept,      \* it retains the helper handoff
  up,        \* its end of the data socket is open
  peer,      \* the helper's end is
  cmd,       \* the command written and not yet read: "none", "start", "resume"
  wire,      \* frames on their way to it
  reaper,    \* the clean-up after a deletion
  seen,      \* the deletion found the session's generation
  faults,
  killed,    \* a session died with the helper (history)
  denied,    \* a resume was answered before the session existed (history)
  retained   \* the reply could not be published (history)

db      == <<row, result>>
helper  == <<session, got, ended, owner, tidy>>
work    == <<pc, kind, have, final, known, snapped, cancel, kept>>
sockets == <<up, peer, cmd, wire>>
deleter == <<reaper, seen>>
history == <<faults, killed, denied, retained>>
vars    == <<db, mail, helper, lease, work, sockets, deleter, history>>

Reason  == {"completed", "cancelled", "error"}
Outcome == [why : Reason \cup {"lost", "refused"}, len : 0 .. MaxLen]
Lost    == [why |-> "lost", len |-> 0]
Refused == [why |-> "refused", len |-> 0]

ASSUME NoneAssumption == None \notin Outcome

Location == {"idle", "list", "listed", "mailrow", "mailcommit", "mailremove", "check",
             "connect", "read", "relist", "commit", "ack", "discard"}

Frame ==
  [type : {"started", "data", "capacity", "notfound"}] \cup [type : {"terminal"}, why : Reason]
    \cup [type : {"snapshot"}, len : 0 .. MaxLen, why : Reason \cup {"none"}]

Init ==
  /\ row = "none" /\ result = None /\ mail = None
  /\ session = "none" /\ got = 0 /\ ended = None /\ owner = None /\ tidy = FALSE
  /\ lease = None
  /\ pc = [a \in Slot |-> "idle"] /\ kind = [a \in Slot |-> "start"]
  /\ have = [a \in Slot |-> 0] /\ final = [a \in Slot |-> Lost]
  /\ known = [a \in Slot |-> FALSE] /\ snapped = [a \in Slot |-> FALSE]
  /\ cancel = [a \in Slot |-> "no"] /\ kept = [a \in Slot |-> FALSE]
  /\ up = [a \in Slot |-> FALSE] /\ peer = [a \in Slot |-> FALSE]
  /\ cmd = [a \in Slot |-> "none"] /\ wire = [a \in Slot |-> <<>>]
  /\ reaper = "idle" /\ seen = FALSE
  /\ faults = 0 /\ killed = FALSE /\ denied = FALSE /\ retained = FALSE

\* Something goes wrong that the program does not control.
Fault == faults < MaxFaults /\ faults' = faults + 1 /\ UNCHANGED <<killed, denied, retained>>
NoFault == UNCHANGED history

Held == session \in {"live", "done"}
Free(a) == pc[a] = "idle" /\ ~up[a] /\ ~peer[a] /\ cmd[a] = "none"

-----------------------------------------------------------------------------
(* Who works on the message.                                               *)

Enter(a, k, at) ==
  /\ pc' = [pc EXCEPT ![a] = at]
  /\ kind' = [kind EXCEPT ![a] = k]
  /\ UNCHANGED <<have, final, known, snapped, cancel, kept>>

Goto(a, at) ==
  /\ pc' = [pc EXCEPT ![a] = at]
  /\ UNCHANGED <<kind, have, final, known, snapped, cancel, kept>>

\* Callers return: their lease drops, and with the request output the socket
\* they may still hold.
Return(S) ==
  /\ lease' = IF lease \in S THEN None ELSE lease
  /\ pc' = [a \in Slot |-> IF a \in S THEN "idle" ELSE pc[a]]
  /\ kind' = [a \in Slot |-> IF a \in S THEN "start" ELSE kind[a]]
  /\ have' = [a \in Slot |-> IF a \in S THEN 0 ELSE have[a]]
  /\ final' = [a \in Slot |-> IF a \in S THEN Lost ELSE final[a]]
  /\ cancel' = [a \in Slot |-> IF a \in S THEN "no" ELSE cancel[a]]
  /\ wire' = [a \in Slot |-> IF a \in S THEN <<>> ELSE wire[a]]
  /\ known' = [a \in Slot |-> a \notin S /\ known[a]]
  /\ snapped' = [a \in Slot |-> a \notin S /\ snapped[a]]
  /\ kept' = [a \in Slot |-> a \notin S /\ kept[a]]
  /\ up' = [a \in Slot |-> a \notin S /\ up[a]]

Leave(a) == Return({a})

\* A new message: the lease, then its row and its pending mark.
Send(a) ==
  /\ row = "none" /\ lease = None /\ Free(a)
  /\ row' = "pending"
  /\ lease' = a
  /\ Enter(a, "start", "connect")
  /\ NoFault /\ UNCHANGED <<result, mail, helper, sockets, deleter>>

\* A returning frontend.  While the lease is taken it is attached to the
\* owner instead.
Recover(a) ==
  /\ row # "none" /\ lease = None /\ Free(a)
  /\ lease' = a
  /\ Enter(a, "recover", "list")
  /\ NoFault /\ UNCHANGED <<db, mail, helper, sockets, deleter>>

\* recover_offline_completed lists the files first ...
SweepLists(a) ==
  /\ mail # None /\ Free(a)
  /\ \A b \in Slot : pc[b] # "listed"
  /\ Enter(a, "sweep", "listed")
  /\ NoFault /\ UNCHANGED <<db, mail, helper, lease, sockets, deleter>>

\* ... and skips the messages someone works on.
SweepClaims(a) ==
  /\ pc[a] = "listed"
  /\ \/ lease = None /\ lease' = a /\ Goto(a, "mailrow") /\ UNCHANGED <<up, wire>>
     \/ lease # None /\ Leave(a)
  /\ NoFault /\ UNCHANGED <<db, mail, helper, peer, cmd, deleter>>

-----------------------------------------------------------------------------
(* The mailbox: finalize_offline_completed, and the recovery around it.    *)

\* Mutation of ReadMailbox: the reply is given up without a second look.
ReadMailboxOnce(a) ==
  /\ pc[a] \in {"list", "relist"}
  /\ Goto(a, IF pc[a] = "relist" THEN "commit" ELSE IF mail # None THEN "mailrow" ELSE "check")
  /\ NoFault /\ UNCHANGED <<db, mail, helper, lease, sockets, deleter>>

\* After session_not_found the mailbox is read again before the reply is
\* given up.
ReadMailbox(a) ==
  /\ pc[a] \in {"list", "relist"}
  /\ Goto(a, IF mail # None THEN "mailrow" ELSE IF pc[a] = "list" THEN "check" ELSE "commit")
  /\ NoFault /\ UNCHANGED <<db, mail, helper, lease, sockets, deleter>>

\* Mutation of MailRow: a file of a message that needs no reply stays.
MailRowKept(a) ==
  /\ pc[a] = "mailrow"
  /\ \/ /\ row # "pending" \/ mail = None
        /\ Leave(a) /\ UNCHANGED <<mail, peer, cmd>>
     \/ /\ row = "pending" /\ mail # None
        /\ final' = [final EXCEPT ![a] = mail]
        /\ pc' = [pc EXCEPT ![a] = "mailcommit"]
        /\ UNCHANGED <<mail, lease, kind, have, known, snapped, cancel, kept, sockets>>
  /\ NoFault /\ UNCHANGED <<db, helper, deleter>>

\* A file of a message that needs no reply is removed; otherwise it is read.
\* When the row or the file cannot be read, or the file not removed, the file
\* stays for the next sweep.
MailRow(a) ==
  /\ pc[a] = "mailrow"
  /\ \/ /\ row # "pending"
        /\ mail' = None
        /\ NoFault /\ Leave(a) /\ UNCHANGED <<peer, cmd>>
     \/ /\ row = "pending" /\ mail = None
        /\ NoFault /\ Leave(a) /\ UNCHANGED <<mail, peer, cmd>>
     \/ /\ row = "pending" /\ mail # None
        /\ final' = [final EXCEPT ![a] = mail]
        /\ pc' = [pc EXCEPT ![a] = "mailcommit"]
        /\ NoFault
        /\ UNCHANGED <<mail, lease, kind, have, known, snapped, cancel, kept, sockets>>
     \/ Fault /\ Leave(a) /\ UNCHANGED <<mail, peer, cmd>>
  /\ UNCHANGED <<db, helper, deleter>>

MailRemove(a) ==
  /\ pc[a] = "mailremove"
  /\ (mail' = None /\ NoFault) \/ (Fault /\ UNCHANGED mail)
  /\ Leave(a)
  /\ UNCHANGED <<db, helper, peer, cmd, deleter>>

CheckPending(a) ==
  /\ pc[a] = "check"
  /\ IF row = "pending"
       THEN Goto(a, "connect") /\ UNCHANGED <<lease, sockets>>
       ELSE Leave(a) /\ UNCHANGED <<peer, cmd>>
  /\ NoFault /\ UNCHANGED <<db, mail, helper, deleter>>

-----------------------------------------------------------------------------
(* The data socket: handle_streaming_request.                              *)

Connect(a) ==
  /\ pc[a] = "connect"
  /\ Goto(a, "read")
  /\ up' = [up EXCEPT ![a] = TRUE]
  /\ peer' = [peer EXCEPT ![a] = TRUE]
  /\ cmd' = [cmd EXCEPT ![a] = IF kind[a] = "start" THEN "start" ELSE "resume"]
  /\ NoFault /\ UNCHANGED <<db, mail, helper, lease, wire, deleter>>

\* The helper cannot be reached.  The row stays pending.
ConnectFails(a) ==
  /\ pc[a] = "connect"
  /\ Fault
  /\ Leave(a)
  /\ UNCHANGED <<db, mail, helper, peer, cmd, deleter>>

\* All the local transport slots are taken: a new message is refused, a
\* recovery tried again later.
NoSlot(a) ==
  /\ pc[a] = "connect"
  /\ Fault
  /\ \/ /\ kind[a] = "start"
        /\ final' = [final EXCEPT ![a] = Refused]
        /\ pc' = [pc EXCEPT ![a] = "commit"]
        /\ UNCHANGED <<lease, kind, have, known, snapped, cancel, kept, sockets>>
     \/ /\ kind[a] = "recover"
        /\ Leave(a) /\ UNCHANGED <<peer, cmd>>
  /\ UNCHANGED <<db, mail, helper, deleter>>

\* The next frame.
Read(a) ==
  /\ pc[a] = "read" /\ wire[a] # <<>>
  /\ LET f == Head(wire[a])
         early == kind[a] = "recover" /\ ~snapped[a]   \* before its snapshot
         ending == f.type = "terminal" \/ (f.type = "snapshot" /\ f.why # "none")
         text == CASE f.type = "data" -> have[a] + 1
                   [] f.type = "snapshot" -> f.len
                   [] OTHER -> have[a]
     IN /\ f.type \in {"data", "terminal"} => ~early
        /\ have' = [have EXCEPT ![a] = text]
        /\ snapped' = [snapped EXCEPT ![a] = @ \/ f.type = "snapshot"]
        /\ known' = [known EXCEPT ![a] = f.type \notin {"capacity", "notfound"}]
        /\ kept' = [kept EXCEPT ![a] = ending]   \* the socket is kept for the commit
        /\ up' = [up EXCEPT ![a] = f.type \notin {"capacity", "notfound"}]
        /\ wire' = [wire EXCEPT ![a] = Tail(@)]
        /\ pc' = [pc EXCEPT ![a] = IF ending \/ f.type = "capacity" THEN "commit"
                                   ELSE IF f.type = "notfound" THEN "relist" ELSE "read"]
        /\ final' = [final EXCEPT ![a] = IF ending THEN [why |-> f.why, len |-> text]
                                         ELSE IF f.type = "capacity" THEN Refused ELSE Lost]
  /\ NoFault /\ UNCHANGED <<db, mail, helper, lease, kind, cancel, peer, cmd, deleter>>

\* The local transport is lost, which says nothing about the reply.
Broken(a) ==
  /\ pc[a] = "read"
  /\ \/ wire[a] = <<>> /\ ~peer[a]
     \/ /\ wire[a] # <<>> /\ Head(wire[a]).type \in {"data", "terminal"}
        /\ kind[a] = "recover" /\ ~snapped[a]
  /\ Leave(a)
  /\ NoFault /\ UNCHANGED <<db, mail, helper, peer, cmd, deleter>>

\* interruptRequest.
Interrupt ==
  /\ lease # None /\ cancel[lease] = "no"
  /\ cancel' = [cancel EXCEPT ![lease] = "asked"]
  /\ NoFault
  /\ UNCHANGED <<db, mail, helper, lease, pc, kind, have, final, known, snapped, kept, sockets,
                 deleter>>

CancelTimesOut(a) ==
  /\ pc[a] = "read" /\ cancel[a] # "no"
  /\ Fault
  /\ Leave(a)
  /\ UNCHANGED <<db, mail, helper, peer, cmd, deleter>>

-----------------------------------------------------------------------------
(* What the helper does to its session.                                    *)

\* A frame for the socket of slot a; nobody reads it when main closed its end.
Emit(a, f) == wire' = [wire EXCEPT ![a] = IF up[a] THEN Append(@, f) ELSE @]

\* completeSession: the first end wins.
EndSession(why) ==
  /\ session' = "done"
  /\ ended' = [why |-> why, len |-> got]
  /\ tidy' = TRUE
  /\ IF owner = None THEN UNCHANGED wire ELSE Emit(owner, [type |-> "terminal", why |-> why])
  /\ UNCHANGED <<got, owner>>

\* handleControl for ack_committed and discard: the session and a published
\* file leave together.
DropSession(states) ==
  /\ IF session \in states
       THEN /\ session' = "gone"
            /\ owner' = None
            /\ peer' = [b \in Slot |-> peer[b] /\ b # owner]
       ELSE UNCHANGED <<session, owner, peer>>
  /\ mail' = IF session \in {"none", "gone"} \cup states THEN None ELSE mail
  /\ UNCHANGED <<got, ended, tidy>>

\* The cancellation is sent when the generation is known, and refused when
\* the session is gone.
CancelSession(a) ==
  /\ pc[a] = "read" /\ cancel[a] = "asked" /\ known[a]
  /\ \/ /\ Held
        /\ IF session = "live" THEN EndSession("cancelled") ELSE UNCHANGED <<helper, wire>>
        /\ cancel' = [cancel EXCEPT ![a] = "sent"]
        /\ UNCHANGED <<lease, pc, kind, have, final, known, snapped, kept, up>>
     \/ /\ ~Held
        /\ Leave(a)
        /\ UNCHANGED helper
  /\ NoFault /\ UNCHANGED <<db, mail, peer, cmd, deleter>>

-----------------------------------------------------------------------------
(* The commit: finalize_stream_message.                                    *)

\* Mutation of CommitRow: whatever the row is.
CommitAnyRow(a) ==
  /\ row # "none"
  /\ row' = "terminal"
  /\ result' = final[a]

\* commit_stream_message writes a pending row and no other.
CommitRow(a) ==
  /\ row = "pending"
  /\ row' = "terminal"
  /\ result' = final[a]

Commit(a) ==
  /\ pc[a] \in {"commit", "mailcommit"}
  /\ CommitRow(a)
  /\ Goto(a, IF pc[a] = "mailcommit" THEN "mailremove" ELSE "ack")
  /\ NoFault /\ UNCHANGED <<mail, helper, lease, sockets, deleter>>

\* The row is not pending any more: what the helper holds has no owner.
CommitTooLate(a) ==
  /\ pc[a] \in {"commit", "mailcommit"}
  /\ row # "pending"
  /\ Goto(a, "discard")
  /\ NoFault /\ UNCHANGED <<db, mail, helper, lease, sockets, deleter>>

CommitFails(a) ==
  /\ pc[a] \in {"commit", "mailcommit"}
  /\ row = "pending"
  /\ Fault
  /\ Leave(a)
  /\ UNCHANGED <<db, mail, helper, peer, cmd, deleter>>

\* The helper is told, unless the handoff was never there or is taken; a
\* failed call is only logged.
Settle(a) ==
  /\ pc[a] \in {"ack", "discard"}
  /\ \/ kept[a] /\ NoFault /\ DropSession(IF pc[a] = "ack" THEN {"done"} ELSE {"live", "done"})
     \/ ~kept[a] /\ NoFault /\ UNCHANGED <<mail, helper, peer>>
     \/ kept[a] /\ Fault /\ UNCHANGED <<mail, helper, peer>>
  /\ Leave(a)
  /\ UNCHANGED <<db, cmd, deleter>>

-----------------------------------------------------------------------------
(* The deletion of the message and discard_deleted_generation.             *)

Delete ==
  /\ row \in {"pending", "terminal"}
  /\ row' = "deleted"
  /\ reaper' = IF row = "pending" THEN "query" ELSE "idle"
  /\ NoFault /\ UNCHANGED <<result, mail, helper, lease, work, sockets, seen>>

\* The owner is cancelled, and the generation looked up.
ReaperQueries ==
  /\ reaper = "query"
  /\ reaper' = "settle"
  /\ cancel' = [a \in Slot |-> IF a = lease /\ cancel[a] = "no" THEN "asked" ELSE cancel[a]]
  /\ \/ seen' = Held /\ NoFault
     \/ seen' = FALSE /\ Fault
  /\ UNCHANGED <<db, mail, helper, lease, pc, kind, have, final, known, snapped, kept, sockets>>

\* It takes the owner's handoff ...  When it cannot read that nothing is
\* pending any more, it goes no further.
ReaperSettles ==
  /\ reaper = "settle"
  /\ \/ /\ reaper' = "discard"
        /\ IF lease # None /\ kept[lease]
             THEN /\ \/ NoFault /\ DropSession({"live", "done"})
                     \/ Fault /\ UNCHANGED <<mail, helper, peer>>
                  /\ kept' = [kept EXCEPT ![lease] = FALSE]
                  /\ up' = [up EXCEPT ![lease] = FALSE]
             ELSE NoFault /\ UNCHANGED <<mail, helper, peer, kept, up>>
     \/ Fault /\ reaper' = "idle" /\ UNCHANGED <<mail, helper, peer, kept, up>>
  /\ UNCHANGED <<db, lease, pc, kind, have, final, known, snapped, cancel, cmd, wire, seen>>

\* ... discards the session it found, and removes the files.
ReaperDiscards ==
  /\ reaper = "discard"
  /\ reaper' = "files"
  /\ \/ seen /\ NoFault /\ DropSession({"live", "done"})
     \/ ~seen /\ NoFault /\ UNCHANGED <<mail, helper, peer>>
     \/ seen /\ Fault /\ UNCHANGED <<mail, helper, peer>>
  /\ UNCHANGED <<db, lease, work, up, cmd, wire, seen>>

ReaperRemovesFiles ==
  /\ reaper = "files"
  /\ reaper' = "idle"
  /\ (mail' = None /\ NoFault) \/ (Fault /\ UNCHANGED mail)
  /\ UNCHANGED <<db, helper, lease, work, sockets, seen>>

-----------------------------------------------------------------------------
(* The helper: SseProxyService.                                            *)

\* handleStartStream.  A socket main has closed is still the session's.
HelperStart(a) ==
  /\ cmd[a] = "start"
  /\ cmd' = [cmd EXCEPT ![a] = "none"]
  /\ \/ /\ session' = "live" /\ owner' = a
        /\ Emit(a, [type |-> "started"])
        /\ NoFault /\ UNCHANGED peer
     \/ /\ Fault                        \* session limit
        /\ Emit(a, [type |-> "capacity"])
        /\ peer' = [peer EXCEPT ![a] = FALSE]
        /\ UNCHANGED <<session, owner>>
     \/ /\ Fault                        \* the request cannot be built
        /\ session' = "gone"
        /\ Emit(a, [type |-> "started"])
        /\ peer' = [peer EXCEPT ![a] = FALSE]
        /\ UNCHANGED owner
  /\ UNCHANGED <<db, mail, got, ended, tidy, lease, work, up, deleter>>

\* handleResumeStream: the snapshot is queued and the consumer replaced
\* under the session lock, so later data follows it.
HelperResume(a) ==
  /\ cmd[a] = "resume" /\ Held
  /\ cmd' = [cmd EXCEPT ![a] = "none"]
  /\ owner' = a
  /\ Emit(a, [type |-> "snapshot", len |-> got,
               why |-> IF session = "done" THEN ended.why ELSE "none"])
  /\ peer' = [b \in Slot |-> peer[b] /\ (b # owner \/ b = a)]
  /\ NoFault /\ UNCHANGED <<db, mail, session, got, ended, tidy, lease, work, up, deleter>>

HelperDenies(a) ==
  /\ cmd[a] = "resume" /\ ~Held
  /\ cmd' = [cmd EXCEPT ![a] = "none"]
  /\ Emit(a, [type |-> "notfound"])
  /\ peer' = [peer EXCEPT ![a] = FALSE]
  /\ denied' = (denied \/ session = "none")
  /\ UNCHANGED <<db, mail, helper, lease, work, up, deleter, faults, killed, retained>>

\* acceptUpstreamEvent.
Upstream ==
  /\ session = "live" /\ got < MaxLen
  /\ got' = got + 1
  /\ IF owner = None THEN UNCHANGED wire ELSE Emit(owner, [type |-> "data"])
  /\ NoFault
  /\ UNCHANGED <<db, mail, session, ended, owner, tidy, lease, work, up, peer, cmd, deleter>>

UpstreamEnds ==
  /\ session = "live"
  /\ \E why \in {"completed", "error"} : EndSession(why)
  /\ NoFault /\ UNCHANGED <<db, mail, lease, work, up, peer, cmd, deleter>>

Detach(a) ==
  /\ peer' = [peer EXCEPT ![a] = FALSE]
  /\ owner' = IF owner = a THEN None ELSE owner
  /\ tidy' = (tidy \/ owner = a)
  /\ UNCHANGED <<session, got, ended>>

\* The handler of a socket sees main close it, after its command.
HelperNotices(a) ==
  /\ peer[a] /\ ~up[a] /\ cmd[a] = "none"
  /\ Detach(a)
  /\ NoFault /\ UNCHANGED <<db, mail, lease, work, up, cmd, wire, deleter>>

\* Main does not read fast enough: queue overflow or write time-out.  What
\* was not written yet is lost.
Stall(a) ==
  /\ peer[a] /\ up[a] /\ cmd[a] = "none"
  /\ Fault
  /\ \E k \in 0 .. Len(wire[a]) : wire' = [wire EXCEPT ![a] = SubSeq(@, 1, k)]
  /\ Detach(a)
  /\ UNCHANGED <<db, mail, lease, work, up, cmd, deleter>>

\* Mutation of Publish: the session is removed when its file could not be written.
PublishOrForget ==
  /\ tidy
  /\ tidy' = FALSE
  /\ \/ /\ session = "done" /\ owner = None
        /\ mail' = ended
        /\ session' = "gone"
        /\ NoFault
     \/ /\ session = "done" /\ owner = None
        /\ Fault
        /\ session' = "gone"
        /\ UNCHANGED mail
     \/ /\ ~(session = "done" /\ owner = None)
        /\ NoFault /\ UNCHANGED <<mail, session>>
  /\ UNCHANGED <<db, got, ended, owner, lease, work, sockets, deleter>>

\* cleanupSessionIfCompletedAndDisconnected: publication and removal are one
\* step; when the file cannot be written the session stays.
Publish ==
  /\ tidy
  /\ tidy' = FALSE
  /\ \/ /\ session = "done" /\ owner = None
        /\ mail' = ended
        /\ session' = "gone"
        /\ NoFault
     \/ /\ session = "done" /\ owner = None
        /\ faults < MaxFaults /\ faults' = faults + 1
        /\ retained' = TRUE
        /\ UNCHANGED <<mail, session, killed, denied>>
     \/ /\ ~(session = "done" /\ owner = None)
        /\ NoFault /\ UNCHANGED <<mail, session>>
  /\ UNCHANGED <<db, got, ended, owner, lease, work, sockets, deleter>>

-----------------------------------------------------------------------------
(* Either process dies.                                                    *)

MainCrash ==
  /\ Fault
  /\ Return(Slot)
  /\ reaper' = "idle" /\ seen' = FALSE
  /\ UNCHANGED <<db, mail, helper, peer, cmd>>

\* A killed helper loses everything; one that is destroyed publishes the
\* finished session first.
HelperDies ==
  /\ faults < MaxFaults /\ faults' = faults + 1
  /\ session' = IF Held THEN "gone" ELSE session
  /\ \/ mail' = mail /\ killed' = (killed \/ Held)
     \/ session = "done" /\ mail' = ended /\ UNCHANGED killed
  /\ owner' = None /\ tidy' = FALSE
  /\ peer' = [a \in Slot |-> FALSE]
  /\ cmd' = [a \in Slot |-> "none"]
  /\ UNCHANGED <<db, got, ended, lease, work, up, wire, deleter, denied, retained>>

-----------------------------------------------------------------------------
MainStep(a) ==
  \/ SweepClaims(a) \/ ReadMailbox(a) \/ MailRow(a) \/ MailRemove(a) \/ CheckPending(a)
  \/ Connect(a) \/ Read(a) \/ Broken(a) \/ CancelSession(a)
  \/ Commit(a) \/ CommitTooLate(a) \/ Settle(a)

Reaper == ReaperQueries \/ ReaperSettles \/ ReaperDiscards \/ ReaperRemovesFiles

HelperStep(a) == HelperStart(a) \/ HelperResume(a) \/ HelperDenies(a) \/ HelperNotices(a)

Faulty ==
  \/ \E a \in Slot : ConnectFails(a) \/ NoSlot(a) \/ CancelTimesOut(a) \/ CommitFails(a) \/ Stall(a)
  \/ MainCrash \/ HelperDies

Next ==
  \/ \E a \in Slot : \/ Send(a) \/ Recover(a) \/ SweepLists(a)
                     \/ MainStep(a) \/ HelperStep(a)
  \/ Interrupt \/ Delete \/ Reaper
  \/ Upstream \/ UpstreamEnds \/ Publish
  \/ Faulty

\* The tasks of both processes run, an upstream reply ends, and a frontend
\* that comes back asks for the pending messages and for the mailbox again.
Fairness ==
  /\ \A a \in Slot : WF_vars(MainStep(a)) /\ WF_vars(HelperStep(a))
  /\ WF_vars(UpstreamEnds) /\ WF_vars(Publish) /\ WF_vars(Reaper)
  /\ SF_vars(row = "pending" /\ \E a \in Slot : Recover(a))
  /\ SF_vars(\E a \in Slot : SweepLists(a))

Spec == Init /\ [][Next]_vars /\ Fairness

-----------------------------------------------------------------------------
\* Every variable keeps its type: in particular one owner, one lease, one
\* mailbox file.
TypeOK ==
  /\ row \in {"none", "pending", "terminal", "deleted"}
  /\ result \in Outcome \cup {None}
  /\ mail \in Outcome \cup {None} /\ ended \in Outcome \cup {None}
  /\ session \in {"none", "live", "done", "gone"}
  /\ got \in 0 .. MaxLen
  /\ owner \in Slot \cup {None} /\ lease \in Slot \cup {None}
  /\ pc \in [Slot -> Location]
  /\ kind \in [Slot -> {"start", "recover", "sweep"}]
  /\ have \in [Slot -> Nat] /\ final \in [Slot -> [why : Reason \cup {"lost", "refused"}, len : Nat]]
  /\ known \in [Slot -> BOOLEAN] /\ snapped \in [Slot -> BOOLEAN] /\ kept \in [Slot -> BOOLEAN]
  /\ cancel \in [Slot -> {"no", "asked", "sent"}]
  /\ up \in [Slot -> BOOLEAN] /\ peer \in [Slot -> BOOLEAN]
  /\ cmd \in [Slot -> {"none", "start", "resume"}]
  /\ wire \in [Slot -> Seq(Frame)]
  /\ reaper \in {"idle", "query", "settle", "discard", "files"}
  /\ tidy \in BOOLEAN /\ seen \in BOOLEAN /\ killed \in BOOLEAN /\ denied \in BOOLEAN /\ retained \in BOOLEAN
  /\ faults \in 0 .. MaxFaults

\* A reply that upstream has ended is never in nobody's hands while its
\* message waits for it: until the commit the helper holds it in memory or as
\* a file, whoever crashed, unless the helper itself was killed with it
\* (completeSession, persistOfflineCompletedSession, ack_helper_committed).
ReplyKept ==
  row = "pending" /\ ended # None /\ ~killed => session = "done" \/ mail # None

\* A message is given up as lost only when its reply is: no end of it is
\* known and the helper does not work on it (handle_recovery_failure).  The
\* exception is a start command that outlived its sender and is read after
\* the resume of the restarted application was answered.
LossIsReal ==
  result # None /\ result.why = "lost" /\ ~killed /\ ~(denied /\ session # "none")
    => ended = None /\ session # "live"

\* Sending, recovering, sweeping, committing and deleting, through crashes of
\* both processes, keep the promise of Reply: one result, the whole reply or
\* an owned-up loss, never after a deletion, and always some day.
Abstract == INSTANCE Reply WITH reply <- ended
ReplySpec == Abstract!Spec

\* A settled or deleted message leaves nothing in the helper's memory (unless
\* its publication failed) and no file in the mailbox for ever.
NothingLeaks ==
  row \in {"terminal", "deleted"} ~> (mail = None /\ (session = "done" => retained))
=============================================================================
