----------------------------- MODULE StreamOutput -----------------------------
(***************************************************************************)
(* What the user sees of one streamed reply: the output of the attempt     *)
(* that holds the message's lease (RequestOutput, AuroraBuffer), replaced  *)
(* consumers, and the page that asks for its pending messages again        *)
(* whenever it comes to the foreground or is loaded anew                   *)
(* (checkAndRecoverInterruptedStreams, processStreamEvent).                *)
(*                                                                         *)
(* Every channel is a FIFO of its own.  A consumer gets a new revision when *)
(* it is attached, so a channel is named by its revision.  Text is counted *)
(* in chunks.  Which results are committed is the subject of Generation;   *)
(* here a commit happens or fails.  A page forgets a finished message      *)
(* after a second, when its old channels are drained; that is left out.    *)
(***************************************************************************)
EXTENDS Naturals, Sequences, FiniteSets

CONSTANTS
  Call,       \* recover_active_generation calls under way at the same time
  Sender,     \* the attempt that sent the message
  MaxLen,     \* longest reply, in chunks
  MaxRev,     \* bound on consumers
  MaxPage,    \* bound on page loads
  MaxFaults,  \* bound on failures
  None

ASSUME OutputAssumption ==
  /\ MaxLen \in Nat /\ MaxRev \in Nat \ {0} /\ MaxPage \in Nat \ {0} /\ MaxFaults \in Nat
  /\ IsFiniteSet(Call) /\ Sender \notin Call /\ None \notin Call \cup {Sender}

VARIABLES
  pending,   \* the row waits for its reply
  src,       \* chunks the upstream has sent so far
  complete,  \* it has ended
  lease,     \* who holds the message: Sender, a call or None
  at,        \* each holder and call: where it is
  from,      \* each call: the page that made it
  after,     \* each call: the last revision when it returned
  full,      \* chunks in the holder's buffer
  pushed,    \* chunks its consumer was given
  chan,      \* the consumer (its revision), or 0
  snap,      \* snapshot_pending
  closed,    \* end or error was sent
  revision,  \* revisions given out
  pipe,      \* each revision: events under way
  dest,      \* each revision: the page at the other end
  page,      \* the page that is loaded
  view,      \* revision and text the page shows; whether it saw the end
  gate,      \* recoveryMessageIds: None, a call, or Sender for a replaced entry
  list,      \* each page: its get_active_generations call
  faults,
  silent,    \* an attempt left without an event, and not its own page's wait (history)
  stolen     \* a page that was gone took the output (history)

attempt == <<lease, at, from, after>>
buffer  == <<full, pushed>>
out     == <<chan, snap, closed, revision>>
wires   == <<pipe, dest>>
front   == <<page, view, gate, list>>
history == <<faults, silent, stolen>>
vars    == <<pending, src, complete, attempt, buffer, out, wires, front, history>>

Revision == 1 .. MaxRev
Pages    == 1 .. MaxPage
Holder   == Call \cup {Sender}

Location == {"free", "sent", "claimed", "check", "snapshot", "stream", "commit", "broken",
             "told", "attached", "done", "failed"}

\* A delta continues text of length "base"; a partial is an error with text.
Event == [type : {"delta", "snapshot", "end", "error", "partial"},
          len : 0 .. MaxLen, base : 0 .. MaxLen]

Init ==
  /\ pending = TRUE /\ src = 0 /\ complete = FALSE
  /\ lease = Sender
  /\ at = [h \in Holder |-> IF h = Sender THEN "stream" ELSE "free"]
  /\ from = [h \in Holder |-> 1] /\ after = [h \in Holder |-> 0]
  /\ full = 0 /\ pushed = 0
  /\ chan = 1 /\ snap = FALSE /\ closed = FALSE /\ revision = 1
  /\ pipe = [r \in Revision |-> <<>>] /\ dest = [r \in Revision |-> 1]
  /\ page = 1 /\ view = [rev |-> 0, text |-> 0, ended |-> FALSE] /\ gate = None
  /\ list = [p \in Pages |-> "no"]
  /\ faults = 0 /\ silent = FALSE /\ stolen = FALSE

Fault == faults < MaxFaults /\ faults' = faults + 1 /\ UNCHANGED <<silent, stolen>>

Goto(h, l) == at' = [at EXCEPT ![h] = l]

-----------------------------------------------------------------------------
(* RequestOutput.                                                          *)

\* A new consumer, on page p.
NewConsumer(p) ==
  /\ revision' = revision + 1
  /\ chan' = revision + 1
  /\ dest' = [dest EXCEPT ![revision + 1] = p]

\* Mutation of Attach: the new consumer goes on where the old one was.
AttachMidway(p) ==
  /\ NewConsumer(p)
  /\ stolen' = (stolen \/ p # page)
  /\ UNCHANGED <<snap, closed, faults, silent>>

\* attach: the consumer is replaced; it begins with a snapshot.
Attach(p) ==
  /\ NewConsumer(p)
  /\ snap' = TRUE
  /\ stolen' = (stolen \/ p # page)
  /\ UNCHANGED <<closed, faults, silent>>

\* A channel whose page is gone may or may not report it.
Delivered(e, ok) ==
  IF chan # 0 /\ dest[chan] = page
    THEN ok /\ pipe' = [pipe EXCEPT ![chan] = Append(@, e)]
    ELSE (chan = 0 => ok) /\ UNCHANGED pipe

Ev(t, n, b) == [type |-> t, len |-> n, base |-> b]

\* send_aurora: the buffer now holds n chunks.
SendAurora(n, forced) ==
  /\ full' = n
  /\ UNCHANGED <<closed, revision, dest>>
  /\ IF chan = 0
       THEN snap' = TRUE /\ UNCHANGED <<chan, pushed, pipe>>
       ELSE IF ~snap /\ ~forced /\ n = pushed
         THEN UNCHANGED <<chan, snap, pushed, pipe>>
         ELSE \E ok \in BOOLEAN :
                /\ Delivered(Ev(IF snap \/ forced THEN "snapshot" ELSE "delta", n, pushed), ok)
                /\ pushed' = IF ok THEN n ELSE pushed
                /\ snap' = ~ok
                /\ chan' = IF ok THEN chan ELSE 0

\* The bound on consumers: every call under way may need one.
Room == revision + Cardinality({c \in Call : at[c] \in {"sent", "claimed"}})
          + Cardinality({p \in Pages : list[p] = "asked"}) < MaxRev

\* deliver_request_event to an output without a consumer: the channel of the
\* attempt's own call is bound and gets the event.
Rebound(e, ok) ==
  /\ revision' = revision + 1
  /\ dest' = [dest EXCEPT ![revision + 1] = from[lease]]
  /\ chan' = IF ok THEN revision + 1 ELSE 0
  /\ IF from[lease] = page
       THEN ok /\ pipe' = [pipe EXCEPT ![revision + 1] = Append(@, e)]
       ELSE UNCHANGED pipe

\* send of end or error closes the output.
Close(e) ==
  /\ closed' = TRUE
  /\ \E ok \in BOOLEAN :
       /\ snap' = (snap \/ ~ok)
       /\ IF chan = 0 /\ Room
            THEN Rebound(e, ok)
            ELSE /\ Delivered(e, ok)
                 /\ chan' = IF ok THEN chan ELSE 0
                 /\ UNCHANGED <<revision, dest>>

\* finalize_stream_message: the end follows the commit of n chunks; if that
\* fails, an error brings the text.
Commit(n) ==
  \/ pending' = FALSE /\ Close(Ev("end", n, 0)) /\ UNCHANGED history
  \/ Fault /\ Close(Ev("partial", n, 0)) /\ UNCHANGED pending

-----------------------------------------------------------------------------
(* The attempt that holds the lease: handle_streaming_request and the      *)
(* finaliser behind it.                                                    *)

Upstream ==
  /\ pending /\ ~complete /\ src < MaxLen
  /\ src' = src + 1
  /\ UNCHANGED <<pending, complete, attempt, buffer, out, wires, front, history>>

\* The render clock, or the notice of a new consumer.  The latter comes
\* before a resumed attempt has its snapshot, too.
Window ==
  /\ lease # None
  /\ \/ /\ at[lease] = "stream"
        /\ \E n \in full .. src : (n > full \/ snap) /\ SendAurora(n, FALSE)
     \/ /\ at[lease] = "snapshot"
        /\ snap
        /\ SendAurora(full, FALSE)
  /\ UNCHANGED <<pending, src, complete, attempt, front, history>>

\* The snapshot of the helper is complete.
SnapshotEnd ==
  /\ lease # None /\ at[lease] = "snapshot"
  /\ SendAurora(src, TRUE)
  /\ Goto(lease, "stream")
  /\ UNCHANGED <<pending, src, complete, lease, from, after, front, history>>

\* The reply ends: the last of it is given out, then committed, then told.
Terminal ==
  /\ lease # None /\ at[lease] = "stream"
  /\ SendAurora(src, FALSE)
  /\ complete' = TRUE
  /\ Goto(lease, "commit")
  /\ UNCHANGED <<pending, src, lease, from, after, front, history>>

Finish ==
  /\ lease # None /\ at[lease] = "commit"
  /\ Goto(lease, "told")
  /\ Commit(full)
  /\ UNCHANGED <<src, complete, lease, from, after, buffer, front>>

\* The local transport breaks; what was read is given out first.
Break ==
  /\ lease # None
  /\ Fault
  /\ \/ at[lease] = "stream" /\ \E n \in full .. src : SendAurora(n, FALSE)
     \/ at[lease] = "snapshot" /\ UNCHANGED <<buffer, out, wires>>
  /\ Goto(lease, "broken")
  /\ UNCHANGED <<pending, src, complete, lease, from, after, front>>

\* Only the sender tells its partial text.  A recovery says that the helper
\* goes on.  If the helper has no such reply, the recovery commits what the
\* mailbox has, or what it has read as all there will be; where that cannot
\* be found out, there is no event.
TellBroken ==
  /\ lease # None /\ at[lease] = "broken"
  /\ Goto(lease, "told")
  /\ \/ /\ Close(Ev(IF lease = Sender THEN "partial" ELSE "error", full, 0))
        /\ UNCHANGED <<pending, src, complete, history>>
     \/ /\ lease # Sender
        /\ complete' = TRUE
        /\ \E n \in {full, src} : src' = n /\ Commit(n)
     \/ /\ lease # Sender /\ Fault
        /\ UNCHANGED <<pending, src, complete, out, wires>>
  /\ UNCHANGED <<lease, from, after, buffer, front>>

\* The lease drops; a call has its result.
Leave ==
  /\ lease # None /\ at[lease] = "told"
  /\ lease' = None
  /\ Goto(lease, IF lease = Sender THEN "free" ELSE IF pending THEN "failed" ELSE "done")
  /\ after' = [after EXCEPT ![lease] = revision]
  /\ full' = 0 /\ pushed' = 0
  /\ chan' = 0 /\ snap' = FALSE /\ closed' = FALSE
  /\ silent' = (silent \/ (~closed /\ gate # lease))
  /\ UNCHANGED <<pending, src, complete, from, revision, wires, front, faults, stolen>>

-----------------------------------------------------------------------------
(* recover_active_generation.                                              *)

Claim(c) ==
  /\ at[c] = "sent" /\ lease = None
  /\ lease' = c
  /\ Goto(c, "claimed")
  /\ UNCHANGED <<pending, src, complete, from, after, buffer, out, wires, front, history>>

\* Mutation of AttachCall: to an output that is closed, too.
AttachCallAnyway(c) ==
  /\ at[c] = "sent" /\ lease # None
  /\ Attach(from[c])
  /\ Goto(c, "attached")
  /\ UNCHANGED <<pending, src, complete, lease, from, after, buffer, pipe, front>>

\* While its output is closed the lease is waited for.
AttachCall(c) ==
  /\ at[c] = "sent" /\ lease # None /\ ~closed
  /\ Attach(from[c])
  /\ Goto(c, "attached")
  /\ UNCHANGED <<pending, src, complete, lease, from, after, buffer, pipe, front>>

\* bind_initial: unless somebody attached first.
Bind(c) ==
  /\ at[c] = "claimed"
  /\ Goto(c, "check")
  /\ IF chan = 0 THEN NewConsumer(from[c]) ELSE UNCHANGED <<chan, revision, dest>>
  /\ UNCHANGED <<pending, src, complete, lease, from, after, buffer, snap, closed, pipe, front, history>>

\* The mailbox has the reply ...
FoundInMailbox(c) ==
  /\ at[c] = "check" /\ pending
  /\ complete' = TRUE
  /\ Goto(c, "told")
  /\ Commit(src)
  /\ UNCHANGED <<src, lease, from, after, buffer, front>>

\* ... or the row has it, or a look at either fails: no event.
LeaveSilently(c) ==
  /\ at[c] = "check"
  /\ (~pending /\ UNCHANGED history) \/ Fault
  /\ Goto(c, "told")
  /\ UNCHANGED <<pending, src, complete, lease, from, after, buffer, out, wires, front>>

Resume(c) ==
  /\ at[c] = "check" /\ pending
  /\ Goto(c, "snapshot")
  /\ UNCHANGED <<pending, src, complete, lease, from, after, buffer, out, wires, front, history>>

-----------------------------------------------------------------------------
(* The page: checkAndRecoverInterruptedStreams.                            *)

Reload ==
  /\ page < MaxPage
  /\ page' = page + 1
  /\ view' = [rev |-> 0, text |-> 0, ended |-> FALSE]
  /\ gate' = None
  /\ pipe' = [r \in Revision |-> <<>>]
  /\ UNCHANGED <<pending, src, complete, attempt, buffer, out, dest, list, history>>

Check ==
  /\ list[page] = "no" /\ Room
  /\ list' = [list EXCEPT ![page] = "asked"]
  /\ UNCHANGED <<pending, src, complete, attempt, buffer, out, wires, page, view, gate, history>>

\* get_active_generations attaches its channel, then reads the rows.  The
\* call of a page that is gone runs on.  Between the two it takes in what the
\* mailbox has of messages nobody holds: Generation has that sweep.
ListAttaches(p) ==
  /\ list[p] = "asked"
  /\ IF lease # None /\ ~closed THEN Attach(p) ELSE UNCHANGED <<out, dest, history>>
  /\ list' = [list EXCEPT ![p] = "attached"]
  /\ UNCHANGED <<pending, src, complete, attempt, buffer, pipe, page, view, gate>>

ListReads(p) ==
  /\ list[p] = "attached"
  /\ list' = [list EXCEPT ![p] = IF pending /\ p = page THEN "pending" ELSE "no"]
  /\ UNCHANGED <<pending, src, complete, attempt, buffer, out, wires, page, view, gate, history>>

\* A message that is pending and not being recovered already is.
CheckAnswered ==
  /\ list[page] = "pending"
  /\ list' = [list EXCEPT ![page] = "no"]
  /\ \/ /\ gate = None /\ ~view.ended /\ Room
        /\ \E c \in Call :
             /\ at[c] = "free"
             /\ Goto(c, "sent")
             /\ from' = [from EXCEPT ![c] = page]
             /\ gate' = c
     \/ /\ gate # None \/ view.ended
        /\ UNCHANGED <<at, from, gate>>
  /\ UNCHANGED <<pending, src, complete, lease, after, buffer, out, wires, page, view, history>>

\* The result of the call: of use while the gate is still this call's own.
\* A call that only attached keeps the gate.  A result comes behind the
\* events that were sent before it.
Answer(c) ==
  /\ \/ at[c] = "attached"
     \/ /\ at[c] \in {"done", "failed"}
        /\ \A r \in 1 .. after[c] : dest[r] = from[c] /\ from[c] = page => pipe[r] = <<>>
  /\ Goto(c, "free")
  /\ from' = [from EXCEPT ![c] = 1] /\ after' = [after EXCEPT ![c] = 0]
  /\ IF from[c] = page /\ gate = c /\ at[c] # "attached"
       THEN /\ gate' = None
            /\ view' = IF at[c] = "done" /\ ~view.ended THEN [view EXCEPT !.text = src] ELSE view
       ELSE UNCHANGED <<gate, view>>
  /\ UNCHANGED <<pending, src, complete, lease, buffer, out, wires, page, list, history>>

-----------------------------------------------------------------------------
(* processStreamEvent.                                                     *)

Apply(e, r) ==
  /\ view' = [rev |-> r,
              text |-> CASE e.type = "delta" -> view.text + (e.len - e.base)
                         [] e.type = "error" -> view.text
                         [] OTHER -> e.len,
              ended |-> e.type = "end"]
  /\ gate' = IF e.type \in {"end", "error", "partial"} THEN None
             ELSE IF r > view.rev /\ gate # None THEN Sender ELSE gate

\* Mutation of Accepts: late events of an old consumer are taken.
AcceptsAny(r) == ~view.ended

\* After the end, and of a consumer that was replaced, nothing is taken.
Accepts(r) == ~view.ended /\ r >= view.rev

Receive(r) ==
  /\ pipe[r] # <<>> /\ dest[r] = page
  /\ pipe' = [pipe EXCEPT ![r] = Tail(@)]
  /\ IF Accepts(r) THEN Apply(Head(pipe[r]), r) ELSE UNCHANGED <<view, gate>>
  /\ UNCHANGED <<pending, src, complete, attempt, buffer, out, dest, page, list, history>>

-----------------------------------------------------------------------------
Holding == Window \/ SnapshotEnd \/ Terminal \/ Finish \/ TellBroken \/ Leave

CallStep(c) ==
  \/ Claim(c) \/ AttachCall(c) \/ Bind(c) \/ FoundInMailbox(c) \/ LeaveSilently(c) \/ Resume(c)
  \/ Answer(c)

Listing(p) == ListAttaches(p) \/ ListReads(p)

Next ==
  \/ Upstream \/ Holding \/ Break
  \/ \E c \in Call : CallStep(c)
  \/ Reload \/ Check \/ CheckAnswered
  \/ \E p \in Pages : Listing(p)
  \/ \E r \in Revision : Receive(r)

\* Tasks run, channels deliver, promises resolve and an upstream reply ends.
\* Nobody is obliged to reload the page or to come back to the foreground.
Fairness ==
  /\ WF_vars(Window) /\ WF_vars(SnapshotEnd) /\ WF_vars(Terminal)
  /\ WF_vars(Finish) /\ WF_vars(TellBroken) /\ WF_vars(Leave)
  /\ \A c \in Call : WF_vars(CallStep(c))
  /\ \A r \in Revision : WF_vars(Receive(r))

Spec == Init /\ [][Next]_vars /\ Fairness

-----------------------------------------------------------------------------
\* Every variable keeps its type.
TypeOK ==
  /\ pending \in BOOLEAN /\ complete \in BOOLEAN /\ src \in 0 .. MaxLen
  /\ lease \in Holder \cup {None}
  /\ at \in [Holder -> Location] /\ from \in [Holder -> Pages] /\ after \in [Holder -> 0 .. MaxRev]
  /\ full \in 0 .. MaxLen /\ pushed \in 0 .. full
  /\ chan \in 0 .. revision /\ snap \in BOOLEAN /\ closed \in BOOLEAN /\ revision \in Revision
  /\ pipe \in [Revision -> Seq(Event)] /\ dest \in [Revision -> Pages]
  /\ page \in Pages /\ gate \in Holder \cup {None}
  /\ view \in [rev : 0 .. MaxRev, text : 0 .. MaxLen, ended : BOOLEAN]
  /\ list \in [Pages -> {"no", "asked", "attached", "pending"}]
  /\ faults \in 0 .. MaxFaults /\ silent \in BOOLEAN /\ stolen \in BOOLEAN

\* A delta the page takes continues exactly the text it shows: the store
\* appends the chunk unchecked, so the revision filter and the snapshot that
\* begins every attachment must leave no gap and no repetition.
NoGap ==
  \A r \in Revision :
    pipe[r] # <<>> /\ dest[r] = page /\ Accepts(r) /\ Head(pipe[r]).type = "delta"
      => Head(pipe[r]).base = view.text

\* When nothing is under way, the page that is the consumer shows all that
\* was delivered, however often the consumer was replaced meanwhile.
CaughtUp ==
  /\ lease # None /\ ~closed /\ ~snap /\ chan # 0
  /\ dest[chan] = page /\ view.rev = chan /\ pipe[chan] = <<>>
  /\ at[lease] = "stream"
  => view.text = pushed

\* A page that shows a message as reconnecting is told how it goes on, by an
\* event or by its own call.  The exceptions: a recovery that ends without an
\* event while another call waits as its attached consumer, and a page that is
\* gone and whose call comes after the attachment of its successor.
PageIsTold == gate # None ~> (gate = None \/ silent \/ stolen)
=============================================================================
