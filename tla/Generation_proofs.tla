--------------------------- MODULE Generation_proofs ---------------------------
(***************************************************************************)
(* Proofs about Generation, for every set of callers, any length of a      *)
(* reply and any number of faults: what one attempt reads from its socket  *)
(* is a whole reply (Wires), a reply that ended has a holder (ReplyKept),  *)
(* and every result told is one or the other (Truth, GivenUp).             *)
(***************************************************************************)
EXTENDS Generation, SequenceTheorems, TLAPS

\* The excuses of Reply.
Excuse == {Lost, Refused}

\* The types, except that a result is the whole reply or an excuse: Truth.
SharedTyped ==
  /\ row \in {"none", "pending", "terminal", "deleted"}
  /\ mail \in Outcome \cup {None} /\ ended \in Outcome \cup {None}
  /\ session \in {"none", "live", "done", "gone"}
  /\ got \in 0 .. MaxLen
  /\ owner \in Slot \cup {None} /\ lease \in Slot \cup {None}
  /\ reaper \in {"idle", "query", "settle", "discard", "files"}
  /\ faults \in 0 .. MaxFaults

FlagTyped ==
  tidy \in BOOLEAN /\ seen \in BOOLEAN /\ killed \in BOOLEAN /\ denied \in BOOLEAN /\ retained \in BOOLEAN

SlotTyped ==
  /\ pc \in [Slot -> Location]
  /\ kind \in [Slot -> {"start", "recover", "sweep"}]
  /\ have \in [Slot -> Nat] /\ final \in [Slot -> [why : Reason \cup {"lost", "refused"}, len : Nat]]
  /\ known \in [Slot -> BOOLEAN] /\ snapped \in [Slot -> BOOLEAN] /\ kept \in [Slot -> BOOLEAN]
  /\ cancel \in [Slot -> {"no", "asked", "sent"}]
  /\ up \in [Slot -> BOOLEAN] /\ peer \in [Slot -> BOOLEAN]
  /\ cmd \in [Slot -> {"none", "start", "resume"}]

WireTyped == wire \in [Slot -> Seq(Frame)]

Types == SharedTyped /\ FlagTyped /\ SlotTyped /\ WireTyped

\* The helper's session has ended once it is done, with what it received; a
\* file is that reply.
Life ==
  /\ session \in {"none", "live"} => ended = None
  /\ session = "none" => got = 0
  /\ session = "done" => ended # None /\ ended.len = got
  /\ ended # None => ended.why \in Reason
  /\ mail # None => mail = ended

\* Before the message is sent nothing has begun.
Unsent ==
  row = "none" => session = "none" /\ mail = None /\ \A a \in Slot : pc[a] = "idle" /\ cmd[a] = "none"

\* Who tidies up does so for a message that does not wait any more.
Past ==
  /\ \A a \in Slot : pc[a] \in {"mailremove", "ack", "discard"} => row \notin {"none", "pending"}
  /\ reaper # "idle" => row = "deleted"

\* The one command that starts the session, before it is sent and under way.
Starting(a) == (pc[a] = "connect" /\ kind[a] = "start") \/ cmd[a] = "start"

Fresh ==
  /\ \A a \in Slot : pc[a] \in {"list", "check"} => kind[a] = "recover"
  /\ \A a \in Slot : Starting(a) => session = "none" /\ \A b \in Slot : Starting(b) => b = a

\* Nothing of an earlier use of a slot is left on its socket.
SocketOK(a) ==
  /\ pc[a] = "read" => up[a]
  /\ kept[a] => pc[a] \in {"commit", "ack", "discard"}
  /\ up[a] => pc[a] \notin {"idle", "list", "listed", "check", "connect"}
  /\ pc[a] \in {"idle", "list", "listed", "check", "connect"} => wire[a] = <<>> /\ have[a] = 0
  /\ pc[a] \in {"list", "listed", "check", "connect"} => ~peer[a]
  /\ owner = a => peer[a] /\ cmd[a] = "none"
  /\ cmd[a] # "none" => peer[a] /\ wire[a] = <<>> /\ have[a] = 0 /\ pc[a] \in {"idle", "read"}

Sockets == \A a \in Slot : SocketOK(a)

\* A conversation: what begins it, data, what ends it.
Opens(f)  == f.type \in {"started", "snapshot"}
Refuses(f) == f.type \in {"capacity", "notfound"}
Ends(f)   == f.type = "terminal" \/ (f.type = "snapshot" /\ f.why # "none")

Begun(w, h)   == IF w # <<>> /\ w[1].type = "snapshot" THEN w[1].len ELSE h
Openings(w)   == IF w # <<>> /\ Opens(w[1]) THEN 1 ELSE 0
TextAt(w, h, i) == Begun(w, h) + i - Openings(w)   \* after i frames

\* What may be on the wire w of an attempt that has text h, of a reply that
\* ended as e.
Conversation(w, h, e) ==
  /\ \A i \in 1 .. Len(w) : Opens(w[i]) \/ Refuses(w[i]) => i = 1
  /\ \A i \in 1 .. Len(w) : Ends(w[i]) \/ Refuses(w[i]) => i = Len(w)
  /\ \A i \in 1 .. Len(w) :
       /\ Ends(w[i]) => e # None /\ w[i].why = e.why
       /\ w[i].type = "terminal" => e.len = TextAt(w, h, i - 1)
       /\ w[i].type = "snapshot" /\ w[i].why # "none" => e.len = w[i].len

\* All the text g the session has is on its way.
Complete(w, h, g) ==
  /\ \A i \in 1 .. Len(w) : ~Ends(w[i]) /\ ~Refuses(w[i])
  /\ TextAt(w, h, Len(w)) = g

\* The session is not there any more, or was not yet.
Away == denied \/ session = "gone"

\* What is on the wire of an attempt that reads.
WireOK(a) ==
  pc[a] = "read" =>
    /\ Conversation(wire[a], have[a], ended)
    /\ owner = a /\ session = "live" => Complete(wire[a], have[a], got)
    /\ \A i \in 1 .. Len(wire[a]) : wire[a][i].type = "notfound" => Away

Wires == \A a \in Slot : WireOK(a)

\* A result is the reply as upstream ended it, or an excuse.
Truth ==
  /\ \A a \in Slot : pc[a] = "commit" => final[a] \in Excuse \/ (ended # None /\ final[a] = ended)
  /\ \A a \in Slot : pc[a] = "mailcommit" => ended # None /\ final[a] = ended
  /\ result # None => result \in Excuse \/ (ended # None /\ result = ended)

\* The reply is not to be had.
Gone == killed \/ denied \/ (session = "gone" /\ ended = None)

GivenUp ==
  /\ \A a \in Slot : pc[a] = "relist" => final[a] = Lost /\ Away
  /\ \A a \in Slot : pc[a] = "commit" /\ final[a].why = "lost" /\ row = "pending" => Gone
  /\ result # None /\ result.why = "lost" => Gone

IInv ==
  /\ Types /\ Life /\ Unsent /\ Past /\ Fresh /\ Sockets /\ Wires
  /\ ReplyKept /\ Truth /\ GivenUp

-----------------------------------------------------------------------------
\* The excuses are results.
LEMMA Outcomes == Lost \in Outcome /\ Refused \in Outcome
BY GenerationAssumption DEF Lost, Refused, Outcome

\* Who returns leaves nothing behind; the others stay as they are.
LEMMA ReturnFacts ==
  ASSUME NEW S \in SUBSET Slot, SlotTyped, Return(S)
  PROVE  /\ lease' \in {lease, None}
         /\ pc' \in [Slot -> Location] /\ kind' \in [Slot -> {"start", "recover", "sweep"}]
         /\ have' \in [Slot -> Nat]
         /\ final' \in [Slot -> [why : Reason \cup {"lost", "refused"}, len : Nat]]
         /\ cancel' \in [Slot -> {"no", "asked", "sent"}]
         /\ known' \in [Slot -> BOOLEAN] /\ snapped' \in [Slot -> BOOLEAN]
         /\ kept' \in [Slot -> BOOLEAN] /\ up' \in [Slot -> BOOLEAN]
         /\ \A a \in S : pc'[a] = "idle" /\ have'[a] = 0 /\ wire'[a] = <<>> /\ ~up'[a] /\ ~kept'[a]
         /\ \A a \in Slot \ S :
              /\ pc'[a] = pc[a] /\ kind'[a] = kind[a] /\ have'[a] = have[a] /\ final'[a] = final[a]
              /\ wire'[a] = wire[a] /\ up'[a] = up[a] /\ kept'[a] = kept[a]
         /\ WireTyped => WireTyped'
<1> USE DEF SlotTyped, Return
<1>1. lease' \in {lease, None}
  OBVIOUS
<1>2. pc' \in [Slot -> Location] /\ kind' \in [Slot -> {"start", "recover", "sweep"}]
  BY DEF Location
<1>3. have' \in [Slot -> Nat] /\ cancel' \in [Slot -> {"no", "asked", "sent"}]
  OBVIOUS
<1>4. final' \in [Slot -> [why : Reason \cup {"lost", "refused"}, len : Nat]]
  <2>1. Lost \in [why : Reason \cup {"lost", "refused"}, len : Nat]
    BY DEF Lost
  <2> QED  BY <2>1
<1>5. /\ known' \in [Slot -> BOOLEAN] /\ snapped' \in [Slot -> BOOLEAN]
      /\ kept' \in [Slot -> BOOLEAN] /\ up' \in [Slot -> BOOLEAN]
  OBVIOUS
<1>6. \A a \in S : pc'[a] = "idle" /\ have'[a] = 0 /\ wire'[a] = <<>> /\ ~up'[a] /\ ~kept'[a]
  OBVIOUS
<1>7. \A a \in Slot \ S :
        /\ pc'[a] = pc[a] /\ kind'[a] = kind[a] /\ have'[a] = have[a] /\ final'[a] = final[a]
        /\ wire'[a] = wire[a] /\ up'[a] = up[a] /\ kept'[a] = kept[a]
  OBVIOUS
<1>8. WireTyped => WireTyped'
  BY EmptySeq DEF WireTyped
<1> QED  BY <1>1, <1>2, <1>3, <1>4, <1>5, <1>6, <1>7, <1>8

\* The same, for one who leaves.
LEMMA LeaveFacts ==
  ASSUME NEW a \in Slot, SlotTyped, Leave(a)
  PROVE  /\ lease' \in {lease, None}
         /\ pc' \in [Slot -> Location] /\ kind' \in [Slot -> {"start", "recover", "sweep"}]
         /\ have' \in [Slot -> Nat]
         /\ final' \in [Slot -> [why : Reason \cup {"lost", "refused"}, len : Nat]]
         /\ cancel' \in [Slot -> {"no", "asked", "sent"}]
         /\ known' \in [Slot -> BOOLEAN] /\ snapped' \in [Slot -> BOOLEAN]
         /\ kept' \in [Slot -> BOOLEAN] /\ up' \in [Slot -> BOOLEAN]
         /\ pc'[a] = "idle" /\ have'[a] = 0 /\ wire'[a] = <<>> /\ ~up'[a] /\ ~kept'[a]
         /\ \A b \in Slot \ {a} :
              /\ pc'[b] = pc[b] /\ kind'[b] = kind[b] /\ have'[b] = have[b] /\ final'[b] = final[b]
              /\ wire'[b] = wire[b] /\ up'[b] = up[b] /\ kept'[b] = kept[b]
         /\ WireTyped => WireTyped'
BY ReturnFacts DEF Leave

\* The first end of a session.
LEMMA EndFacts ==
  ASSUME SharedTyped, NEW why \in Reason, EndSession(why)
  PROVE  /\ session' = "done" /\ tidy' = TRUE /\ got' = got /\ owner' = owner
         /\ ended' = [why |-> why, len |-> got] /\ ended' \in Outcome /\ ended' # None
<1>1. ended' = [why |-> why, len |-> got] /\ ended' \in Outcome
  BY DEF EndSession, SharedTyped, Outcome
<1> QED  BY <1>1, NoneAssumption DEF EndSession

\* The types of what the two processes share.
LEMMA SharedTypes ==
  ASSUME Types, Next
  PROVE  SharedTyped'
<1> USE NoneAssumption, GenerationAssumption
    DEF Types, SharedTyped, db, helper, work, sockets, deleter, history,
        Enter, Goto, NoFault, Fault, DropSession, Detach
<1>1. ASSUME NEW a \in Slot, Send(a)  PROVE  SharedTyped'
  BY <1>1 DEF Send, Enter
<1>2. ASSUME NEW a \in Slot, Recover(a)  PROVE  SharedTyped'
  BY <1>2 DEF Recover, Enter
<1>3. ASSUME NEW a \in Slot, SweepLists(a)  PROVE  SharedTyped'
  BY <1>3 DEF SweepLists, Enter
<1>4. ASSUME NEW a \in Slot, SweepClaims(a)  PROVE  SharedTyped'
  BY <1>4, LeaveFacts DEF SweepClaims
<1>5. ASSUME NEW a \in Slot, ReadMailbox(a)  PROVE  SharedTyped'
  BY <1>5 DEF ReadMailbox
<1>6. ASSUME NEW a \in Slot, MailRow(a)  PROVE  SharedTyped'
  BY <1>6, LeaveFacts DEF MailRow
<1>7. ASSUME NEW a \in Slot, MailRemove(a)  PROVE  SharedTyped'
  BY <1>7, LeaveFacts DEF MailRemove
<1>8. ASSUME NEW a \in Slot, CheckPending(a)  PROVE  SharedTyped'
  BY <1>8, LeaveFacts DEF CheckPending
<1>9. ASSUME NEW a \in Slot, Connect(a)  PROVE  SharedTyped'
  BY <1>9 DEF Connect
<1>10. ASSUME NEW a \in Slot, Read(a)  PROVE  SharedTyped'
  BY <1>10 DEF Read
<1>11. ASSUME NEW a \in Slot, Broken(a)  PROVE  SharedTyped'
  BY <1>11, LeaveFacts DEF Broken
<1>12. ASSUME NEW a \in Slot, CancelSession(a)  PROVE  SharedTyped'
  <2>1. CASE EndSession("cancelled")
    BY <1>12, <2>1, EndFacts, LeaveFacts DEF CancelSession, Reason
  <2>2. CASE UNCHANGED helper
    BY <1>12, <2>2, LeaveFacts DEF CancelSession
  <2> QED  BY <1>12, <2>1, <2>2 DEF CancelSession
<1>13. ASSUME NEW a \in Slot, Commit(a)  PROVE  SharedTyped'
  BY <1>13 DEF Commit, CommitRow
<1>14. ASSUME NEW a \in Slot, CommitTooLate(a)  PROVE  SharedTyped'
  BY <1>14 DEF CommitTooLate
<1>15. ASSUME NEW a \in Slot, Settle(a)  PROVE  SharedTyped'
  BY <1>15, LeaveFacts DEF Settle
<1>16. ASSUME NEW a \in Slot, HelperStart(a)  PROVE  SharedTyped'
  BY <1>16 DEF HelperStart
<1>17. ASSUME NEW a \in Slot, HelperResume(a)  PROVE  SharedTyped'
  BY <1>17 DEF HelperResume
<1>18. ASSUME NEW a \in Slot, HelperDenies(a)  PROVE  SharedTyped'
  BY <1>18 DEF HelperDenies
<1>19. ASSUME NEW a \in Slot, HelperNotices(a)  PROVE  SharedTyped'
  BY <1>19 DEF HelperNotices
<1>20. ASSUME NEW a \in Slot, ConnectFails(a)  PROVE  SharedTyped'
  BY <1>20, LeaveFacts DEF ConnectFails
<1>21. ASSUME NEW a \in Slot, NoSlot(a)  PROVE  SharedTyped'
  BY <1>21, LeaveFacts DEF NoSlot
<1>22. ASSUME NEW a \in Slot, CancelTimesOut(a)  PROVE  SharedTyped'
  BY <1>22, LeaveFacts DEF CancelTimesOut
<1>23. ASSUME NEW a \in Slot, CommitFails(a)  PROVE  SharedTyped'
  BY <1>23, LeaveFacts DEF CommitFails
<1>24. ASSUME NEW a \in Slot, Stall(a)  PROVE  SharedTyped'
  BY <1>24 DEF Stall
<1>25. ASSUME Interrupt  PROVE  SharedTyped'
  BY <1>25 DEF Interrupt
<1>26. ASSUME Delete  PROVE  SharedTyped'
  BY <1>26 DEF Delete
<1>27. ASSUME ReaperQueries  PROVE  SharedTyped'
  BY <1>27 DEF ReaperQueries
<1>28. ASSUME ReaperSettles  PROVE  SharedTyped'
  BY <1>28 DEF ReaperSettles
<1>29. ASSUME ReaperDiscards  PROVE  SharedTyped'
  BY <1>29 DEF ReaperDiscards
<1>30. ASSUME ReaperRemovesFiles  PROVE  SharedTyped'
  BY <1>30 DEF ReaperRemovesFiles
<1>31. ASSUME Upstream  PROVE  SharedTyped'
  BY <1>31 DEF Upstream
<1>32. ASSUME UpstreamEnds  PROVE  SharedTyped'
  BY <1>32, EndFacts DEF UpstreamEnds, Reason
<1>33. ASSUME Publish  PROVE  SharedTyped'
  BY <1>33 DEF Publish
<1>34. ASSUME MainCrash  PROVE  SharedTyped'
  <2>1. lease' \in {lease, None}
    BY <1>34, ReturnFacts, Slot \in SUBSET Slot DEF MainCrash
  <2> QED  BY <1>34, <2>1 DEF MainCrash
<1>35. ASSUME HelperDies  PROVE  SharedTyped'
  BY <1>35 DEF HelperDies, Held
<1> QED
  BY <1>1, <1>2, <1>3, <1>4, <1>5, <1>6, <1>7, <1>8, <1>9, <1>10, <1>11, <1>12, <1>13,
     <1>14, <1>15, <1>16, <1>17, <1>18, <1>19, <1>20, <1>21, <1>22, <1>23, <1>24, <1>25,
     <1>26, <1>27, <1>28, <1>29, <1>30, <1>31, <1>32, <1>33, <1>34, <1>35
  DEF Next, MainStep, HelperStep, Reaper, Faulty

\* Every flag is set from constants and conditions.
LEMMA FlagTypes ==
  ASSUME FlagTyped, Next
  PROVE  FlagTyped'
<1> USE DEF FlagTyped, db, helper, work, sockets, deleter, history, NoFault, Fault
<1>1. ASSUME NEW a \in Slot, Send(a)  PROVE  FlagTyped'
  BY <1>1 DEF Send, Enter
<1>2. ASSUME NEW a \in Slot, Recover(a)  PROVE  FlagTyped'
  BY <1>2 DEF Recover, Enter
<1>3. ASSUME NEW a \in Slot, SweepLists(a)  PROVE  FlagTyped'
  BY <1>3 DEF SweepLists, Enter
<1>4. ASSUME NEW a \in Slot, SweepClaims(a)  PROVE  FlagTyped'
  BY <1>4 DEF SweepClaims
<1>5. ASSUME NEW a \in Slot, ReadMailbox(a)  PROVE  FlagTyped'
  BY <1>5 DEF ReadMailbox
<1>6. ASSUME NEW a \in Slot, MailRow(a)  PROVE  FlagTyped'
  BY <1>6 DEF MailRow
<1>7. ASSUME NEW a \in Slot, MailRemove(a)  PROVE  FlagTyped'
  BY <1>7 DEF MailRemove
<1>8. ASSUME NEW a \in Slot, CheckPending(a)  PROVE  FlagTyped'
  BY <1>8 DEF CheckPending
<1>9. ASSUME NEW a \in Slot, Connect(a)  PROVE  FlagTyped'
  BY <1>9 DEF Connect
<1>10. ASSUME NEW a \in Slot, Read(a)  PROVE  FlagTyped'
  BY <1>10 DEF Read
<1>11. ASSUME NEW a \in Slot, Broken(a)  PROVE  FlagTyped'
  BY <1>11 DEF Broken
<1>12. ASSUME NEW a \in Slot, CancelSession(a)  PROVE  FlagTyped'
  BY <1>12 DEF CancelSession, EndSession
<1>13. ASSUME NEW a \in Slot, Commit(a)  PROVE  FlagTyped'
  BY <1>13 DEF Commit, CommitRow
<1>14. ASSUME NEW a \in Slot, CommitTooLate(a)  PROVE  FlagTyped'
  BY <1>14 DEF CommitTooLate
<1>15. ASSUME NEW a \in Slot, Settle(a)  PROVE  FlagTyped'
  BY <1>15 DEF Settle, DropSession
<1>16. ASSUME NEW a \in Slot, HelperStart(a)  PROVE  FlagTyped'
  BY <1>16 DEF HelperStart
<1>17. ASSUME NEW a \in Slot, HelperResume(a)  PROVE  FlagTyped'
  BY <1>17 DEF HelperResume
<1>18. ASSUME NEW a \in Slot, HelperDenies(a)  PROVE  FlagTyped'
  BY <1>18 DEF HelperDenies
<1>19. ASSUME NEW a \in Slot, HelperNotices(a)  PROVE  FlagTyped'
  BY <1>19 DEF HelperNotices, Detach
<1>20. ASSUME NEW a \in Slot, ConnectFails(a)  PROVE  FlagTyped'
  BY <1>20 DEF ConnectFails
<1>21. ASSUME NEW a \in Slot, NoSlot(a)  PROVE  FlagTyped'
  BY <1>21 DEF NoSlot
<1>22. ASSUME NEW a \in Slot, CancelTimesOut(a)  PROVE  FlagTyped'
  BY <1>22 DEF CancelTimesOut
<1>23. ASSUME NEW a \in Slot, CommitFails(a)  PROVE  FlagTyped'
  BY <1>23 DEF CommitFails
<1>24. ASSUME NEW a \in Slot, Stall(a)  PROVE  FlagTyped'
  BY <1>24 DEF Stall, Detach
<1>25. ASSUME Interrupt  PROVE  FlagTyped'
  BY <1>25 DEF Interrupt
<1>26. ASSUME Delete  PROVE  FlagTyped'
  BY <1>26 DEF Delete
<1>27. ASSUME ReaperQueries  PROVE  FlagTyped'
  <2>1. CASE seen' = FALSE
    BY <1>27, <2>1 DEF ReaperQueries
  <2>2. CASE seen' = Held
    <3>1. Held \in BOOLEAN
      BY DEF Held
    <3> QED  BY <1>27, <2>2, <3>1 DEF ReaperQueries
  <2> QED  BY <1>27, <2>1, <2>2 DEF ReaperQueries
<1>28. ASSUME ReaperSettles  PROVE  FlagTyped'
  BY <1>28 DEF ReaperSettles, DropSession
<1>29. ASSUME ReaperDiscards  PROVE  FlagTyped'
  BY <1>29 DEF ReaperDiscards, DropSession
<1>30. ASSUME ReaperRemovesFiles  PROVE  FlagTyped'
  BY <1>30 DEF ReaperRemovesFiles
<1>31. ASSUME Upstream  PROVE  FlagTyped'
  BY <1>31 DEF Upstream
<1>32. ASSUME UpstreamEnds  PROVE  FlagTyped'
  BY <1>32 DEF UpstreamEnds, EndSession
<1>33. ASSUME Publish  PROVE  FlagTyped'
  BY <1>33 DEF Publish
<1>34. ASSUME MainCrash  PROVE  FlagTyped'
  BY <1>34 DEF MainCrash
<1>35. ASSUME HelperDies  PROVE  FlagTyped'
  BY <1>35 DEF HelperDies
<1> QED
  BY <1>1, <1>2, <1>3, <1>4, <1>5, <1>6, <1>7, <1>8, <1>9, <1>10, <1>11, <1>12, <1>13,
     <1>14, <1>15, <1>16, <1>17, <1>18, <1>19, <1>20, <1>21, <1>22, <1>23, <1>24, <1>25,
     <1>26, <1>27, <1>28, <1>29, <1>30, <1>31, <1>32, <1>33, <1>34, <1>35
  DEF Next, MainStep, HelperStep, Reaper, Faulty

\* The frame that is read, and what the slot makes of it.
Kinds == {"started", "data", "capacity", "notfound", "terminal", "snapshot"}

LEMMA FrameFacts ==
  ASSUME NEW f \in Frame
  PROVE  /\ f.type \in Kinds
         /\ f.type = "terminal" => f.why \in Reason /\ f = [type |-> "terminal", why |-> f.why]
         /\ f.type = "snapshot" => f.len \in 0 .. MaxLen /\ f.why \in Reason \cup {"none"}
BY DEF Frame, Kinds

LEMMA ReadFacts ==
  ASSUME NEW a \in Slot, SlotTyped, WireTyped, Read(a)
  PROVE  LET f == wire[a][1] IN
         /\ pc[a] = "read" /\ wire[a] # <<>> /\ f \in Frame /\ f = Head(wire[a])
         /\ wire' = [wire EXCEPT ![a] = Tail(@)] /\ WireTyped'
         /\ have' = [have EXCEPT ![a] = IF f.type = "data" THEN have[a] + 1
                                       ELSE IF f.type = "snapshot" THEN f.len ELSE have[a]]
         /\ have' \in [Slot -> Nat]
         /\ final' = [final EXCEPT ![a] = IF Ends(f) THEN [why |-> f.why, len |-> have'[a]]
                                         ELSE IF f.type = "capacity" THEN Refused ELSE Lost]
         /\ final' \in [Slot -> [why : Reason \cup {"lost", "refused"}, len : Nat]]
         /\ pc' = [pc EXCEPT ![a] = IF Ends(f) \/ f.type = "capacity" THEN "commit"
                                   ELSE IF f.type = "notfound" THEN "relist" ELSE "read"]
         /\ up' = [up EXCEPT ![a] = ~Refuses(f)] /\ kept' = [kept EXCEPT ![a] = Ends(f)]
         /\ UNCHANGED <<kind, peer, cmd, db, mail, helper, lease, cancel, deleter, history>>
<1> DEFINE f == wire[a][1]
<1>1. wire[a] \in Seq(Frame) /\ wire[a] # <<>> /\ Head(wire[a]) = f
  BY DEF Read, WireTyped
<1>2. f \in Frame /\ Tail(wire[a]) \in Seq(Frame)
  BY <1>1, HeadTailProperties
<1>3. pc[a] = "read" /\ wire' = [wire EXCEPT ![a] = Tail(@)] /\ WireTyped'
  BY <1>2 DEF Read, WireTyped
<1>4. have' = [have EXCEPT ![a] = IF f.type = "data" THEN have[a] + 1
                                 ELSE IF f.type = "snapshot" THEN f.len ELSE have[a]]
  BY <1>1 DEF Read
<1>5. have' \in [Slot -> Nat]
  BY <1>2, <1>4, FrameFacts, GenerationAssumption DEF SlotTyped
<1>6. final' = [final EXCEPT ![a] = IF Ends(f) THEN [why |-> f.why, len |-> have'[a]]
                                   ELSE IF f.type = "capacity" THEN Refused ELSE Lost]
  BY <1>1, <1>4 DEF Read, Ends, SlotTyped
<1>7. final' \in [Slot -> [why : Reason \cup {"lost", "refused"}, len : Nat]]
  <2>1. Refused \in [why : Reason \cup {"lost", "refused"}, len : Nat]
    BY DEF Refused
  <2>2. Lost \in [why : Reason \cup {"lost", "refused"}, len : Nat]
    BY DEF Lost
  <2>3. Ends(f) => [why |-> f.why, len |-> have'[a]] \in [why : Reason \cup {"lost", "refused"}, len : Nat]
    BY <1>2, <1>5, FrameFacts DEF Ends
  <2> QED  BY <1>6, <2>1, <2>2, <2>3 DEF SlotTyped
<1>8. /\ pc' = [pc EXCEPT ![a] = IF Ends(f) \/ f.type = "capacity" THEN "commit"
                                ELSE IF f.type = "notfound" THEN "relist" ELSE "read"]
      /\ up' = [up EXCEPT ![a] = ~Refuses(f)] /\ kept' = [kept EXCEPT ![a] = Ends(f)]
  BY <1>1, <1>2, FrameFacts DEF Read, Ends, Refuses, Kinds
<1>9. UNCHANGED <<kind, peer, cmd, db, mail, helper, lease, cancel, deleter, history>>
  BY DEF Read, NoFault, history
<1> QED  BY <1>1, <1>2, <1>3, <1>4, <1>5, <1>6, <1>7, <1>8, <1>9

\* What leaves the helper's memory with a session.
LEMMA DropFacts ==
  ASSUME NEW states, SlotTyped, DropSession(states)
  PROVE  /\ peer' \in [Slot -> BOOLEAN]
         /\ \A a \in Slot : peer'[a] <=> peer[a] /\ (owner' = owner \/ a # owner)
<1>1. CASE UNCHANGED peer /\ UNCHANGED owner
  BY <1>1 DEF SlotTyped
<1>2. CASE owner' = None /\ peer' = [b \in Slot |-> peer[b] /\ b # owner]
  <2>1. \A a \in Slot : (peer[a] /\ a # owner) \in BOOLEAN
    OBVIOUS
  <2>2. peer' \in [Slot -> BOOLEAN]
    BY <1>2, <2>1
  <2>3. \A a \in Slot : peer'[a] <=> peer[a] /\ a # owner
    BY <1>2
  <2>4. \A a \in Slot : owner' = owner => a # owner
    BY <1>2, GenerationAssumption
  <2> QED  BY <2>2, <2>3, <2>4
<1> QED  BY <1>1, <1>2 DEF DropSession

\* The types of what each attempt and its socket hold.
LEMMA SlotTypes ==
  ASSUME Types, Next
  PROVE  SlotTyped'
<1> USE NoneAssumption, GenerationAssumption
    DEF Types, SharedTyped, SlotTyped, db, helper, work, sockets, deleter, history,
        Enter, Goto, DropSession, Detach, Location
<1>1. ASSUME NEW a \in Slot, Send(a)  PROVE  SlotTyped'
  BY <1>1 DEF Send, Enter
<1>2. ASSUME NEW a \in Slot, Recover(a)  PROVE  SlotTyped'
  BY <1>2 DEF Recover, Enter
<1>3. ASSUME NEW a \in Slot, SweepLists(a)  PROVE  SlotTyped'
  BY <1>3 DEF SweepLists, Enter
<1>4. ASSUME NEW a \in Slot, SweepClaims(a)  PROVE  SlotTyped'
  BY <1>4, LeaveFacts DEF SweepClaims
<1>5. ASSUME NEW a \in Slot, ReadMailbox(a)  PROVE  SlotTyped'
  BY <1>5 DEF ReadMailbox
<1>6. ASSUME NEW a \in Slot, MailRow(a)  PROVE  SlotTyped'
  <2>1. CASE Leave(a)
    BY <1>6, <2>1, LeaveFacts DEF MailRow
  <2>2. CASE ~Leave(a)
    <3>1. /\ final' = [final EXCEPT ![a] = mail] /\ pc' = [pc EXCEPT ![a] = "mailcommit"]
          /\ UNCHANGED <<kind, have, known, snapped, cancel, kept, sockets>>
          /\ mail \in Outcome
      BY <1>6, <2>2 DEF MailRow
    <3>2. mail \in [why : Reason \cup {"lost", "refused"}, len : Nat]
      BY <3>1 DEF Outcome
    <3> QED  BY <3>1, <3>2
  <2> QED  BY <2>1, <2>2
<1>7. ASSUME NEW a \in Slot, MailRemove(a)  PROVE  SlotTyped'
  BY <1>7, LeaveFacts DEF MailRemove
<1>8. ASSUME NEW a \in Slot, CheckPending(a)  PROVE  SlotTyped'
  BY <1>8, LeaveFacts DEF CheckPending
<1>9. ASSUME NEW a \in Slot, Connect(a)  PROVE  SlotTyped'
  BY <1>9 DEF Connect
<1>10. ASSUME NEW a \in Slot, Read(a)  PROVE  SlotTyped'
  BY <1>10, ReadFacts DEF Read
<1>11. ASSUME NEW a \in Slot, Broken(a)  PROVE  SlotTyped'
  BY <1>11, LeaveFacts DEF Broken
<1>12. ASSUME NEW a \in Slot, CancelSession(a)  PROVE  SlotTyped'
  BY <1>12, LeaveFacts DEF CancelSession
<1>13. ASSUME NEW a \in Slot, Commit(a)  PROVE  SlotTyped'
  BY <1>13 DEF Commit, CommitRow
<1>14. ASSUME NEW a \in Slot, CommitTooLate(a)  PROVE  SlotTyped'
  BY <1>14 DEF CommitTooLate
<1>15. ASSUME NEW a \in Slot, Settle(a)  PROVE  SlotTyped'
  <2>1. peer' \in [Slot -> BOOLEAN]
    <3>1. CASE \E states : DropSession(states)
      BY <3>1, DropFacts
    <3>2. CASE UNCHANGED peer
      BY <3>2
    <3> QED  BY <1>15, <3>1, <3>2 DEF Settle
  <2> QED  BY <1>15, <2>1, LeaveFacts DEF Settle
<1>16. ASSUME NEW a \in Slot, HelperStart(a)  PROVE  SlotTyped'
  BY <1>16 DEF HelperStart
<1>17. ASSUME NEW a \in Slot, HelperResume(a)  PROVE  SlotTyped'
  BY <1>17 DEF HelperResume
<1>18. ASSUME NEW a \in Slot, HelperDenies(a)  PROVE  SlotTyped'
  BY <1>18 DEF HelperDenies
<1>19. ASSUME NEW a \in Slot, HelperNotices(a)  PROVE  SlotTyped'
  BY <1>19 DEF HelperNotices
<1>20. ASSUME NEW a \in Slot, ConnectFails(a)  PROVE  SlotTyped'
  BY <1>20, LeaveFacts DEF ConnectFails
<1>21. ASSUME NEW a \in Slot, NoSlot(a)  PROVE  SlotTyped'
  <2>1. CASE kind[a] = "start"
    <3>1. /\ final' = [final EXCEPT ![a] = Refused] /\ pc' = [pc EXCEPT ![a] = "commit"]
          /\ UNCHANGED <<kind, have, known, snapped, cancel, kept, sockets>>
      BY <1>21, <2>1 DEF NoSlot
    <3>2. Refused \in [why : Reason \cup {"lost", "refused"}, len : Nat]
      BY DEF Refused
    <3> QED  BY <3>1, <3>2
  <2>2. CASE kind[a] = "recover"
    BY <1>21, <2>2, LeaveFacts DEF NoSlot
  <2> QED  BY <1>21, <2>1, <2>2 DEF NoSlot
<1>22. ASSUME NEW a \in Slot, CancelTimesOut(a)  PROVE  SlotTyped'
  BY <1>22, LeaveFacts DEF CancelTimesOut
<1>23. ASSUME NEW a \in Slot, CommitFails(a)  PROVE  SlotTyped'
  BY <1>23, LeaveFacts DEF CommitFails
<1>24. ASSUME NEW a \in Slot, Stall(a)  PROVE  SlotTyped'
  BY <1>24 DEF Stall
<1>25. ASSUME Interrupt  PROVE  SlotTyped'
  BY <1>25 DEF Interrupt
<1>26. ASSUME Delete  PROVE  SlotTyped'
  BY <1>26 DEF Delete
<1>27. ASSUME ReaperQueries  PROVE  SlotTyped'
  BY <1>27 DEF ReaperQueries
<1>28. ASSUME ReaperSettles  PROVE  SlotTyped'
  <2>1. peer' \in [Slot -> BOOLEAN]
    <3>1. CASE DropSession({"live", "done"})
      BY <3>1, DropFacts
    <3>2. CASE UNCHANGED peer
      BY <3>2
    <3> QED  BY <1>28, <3>1, <3>2 DEF ReaperSettles
  <2>2. kept' \in [Slot -> BOOLEAN] /\ up' \in [Slot -> BOOLEAN]
    BY <1>28 DEF ReaperSettles
  <2> QED  BY <1>28, <2>1, <2>2 DEF ReaperSettles
<1>29. ASSUME ReaperDiscards  PROVE  SlotTyped'
  <2>1. CASE \E states : DropSession(states)
    BY <1>29, <2>1, DropFacts DEF ReaperDiscards
  <2>2. CASE UNCHANGED peer
    BY <1>29, <2>2 DEF ReaperDiscards
  <2> QED  BY <1>29, <2>1, <2>2 DEF ReaperDiscards
<1>30. ASSUME ReaperRemovesFiles  PROVE  SlotTyped'
  BY <1>30 DEF ReaperRemovesFiles
<1>31. ASSUME Upstream  PROVE  SlotTyped'
  BY <1>31 DEF Upstream
<1>32. ASSUME UpstreamEnds  PROVE  SlotTyped'
  BY <1>32 DEF UpstreamEnds
<1>33. ASSUME Publish  PROVE  SlotTyped'
  BY <1>33 DEF Publish
<1>34. ASSUME MainCrash  PROVE  SlotTyped'
  BY <1>34, ReturnFacts DEF MainCrash
<1>35. ASSUME HelperDies  PROVE  SlotTyped'
  BY <1>35 DEF HelperDies
<1> QED
  BY <1>1, <1>2, <1>3, <1>4, <1>5, <1>6, <1>7, <1>8, <1>9, <1>10, <1>11, <1>12, <1>13,
     <1>14, <1>15, <1>16, <1>17, <1>18, <1>19, <1>20, <1>21, <1>22, <1>23, <1>24, <1>25,
     <1>26, <1>27, <1>28, <1>29, <1>30, <1>31, <1>32, <1>33, <1>34, <1>35
  DEF Next, MainStep, HelperStep, Reaper, Faulty

\* Whatever is emitted is a frame.
LEMMA EmitFacts ==
  ASSUME NEW a \in Slot, NEW f \in Frame, WireTyped, Emit(a, f)
  PROVE  /\ WireTyped'
         /\ wire'[a] = IF up[a] THEN Append(wire[a], f) ELSE wire[a]
         /\ \A b \in Slot \ {a} : wire'[b] = wire[b]
<1>1. Append(wire[a], f) \in Seq(Frame)
  BY DEF WireTyped
<1> QED  BY <1>1 DEF WireTyped, Emit

\* The frames the helper sends.
LEMMA FramesSent ==
  ASSUME SharedTyped
  PROVE  /\ \A t \in {"started", "data", "capacity", "notfound"} : [type |-> t] \in Frame
         /\ \A why \in Reason : [type |-> "terminal", why |-> why] \in Frame
         /\ \A why \in Reason \cup {"none"} : [type |-> "snapshot", len |-> got, why |-> why] \in Frame
<1>1. \A t \in {"started", "data", "capacity", "notfound"} : [type |-> t] \in Frame
  BY DEF Frame
<1>2. \A why \in Reason : [type |-> "terminal", why |-> why] \in Frame
  BY DEF Frame
<1>3. \A why \in Reason \cup {"none"} : [type |-> "snapshot", len |-> got, why |-> why] \in Frame
  BY DEF Frame, SharedTyped
<1> QED  BY <1>1, <1>2, <1>3

\* A session that ends says so to its owner, as the last thing.
LEMMA EndWire ==
  ASSUME SharedTyped, WireTyped, NEW why \in Reason, EndSession(why)
  PROVE  /\ WireTyped'
         /\ \A b \in Slot :
              \/ wire'[b] = wire[b]
              \/ owner = b /\ wire'[b] = Append(wire[b], [type |-> "terminal", why |-> why])
<1>1. CASE owner = None
  BY <1>1 DEF EndSession, WireTyped
<1>2. CASE owner # None
  <2>1. owner \in Slot /\ [type |-> "terminal", why |-> why] \in Frame
    BY <1>2, FramesSent DEF SharedTyped
  <2>2. Emit(owner, [type |-> "terminal", why |-> why])
    BY <1>2 DEF EndSession
  <2> QED  BY <2>1, <2>2, EmitFacts
<1> QED  BY <1>1, <1>2

\* The snapshot tells how a session that is done has ended.
LEMMA SnapshotWhy ==
  ASSUME SharedTyped, Life, NEW a \in Slot, HelperResume(a)
  PROVE  \E why \in Reason \cup {"none"} :
           /\ Emit(a, [type |-> "snapshot", len |-> got, why |-> why])
           /\ session = "live" => why = "none"
           /\ session = "done" => ended # None /\ why = ended.why
<1>1. CASE session = "done"
  <2>1. ended \in Outcome /\ ended # None
    BY <1>1 DEF Life, SharedTyped
  <2>2. ended.why \in Reason
    BY <2>1 DEF Life
  <2> QED  BY <1>1, <2>1, <2>2 DEF HelperResume
<1>2. CASE session # "done"
  BY <1>2 DEF HelperResume
<1> QED  BY <1>1, <1>2

\* What was not written yet is lost.
LEMMA StallFacts ==
  ASSUME WireTyped, NEW a \in Slot, Stall(a)
  PROVE  /\ WireTyped'
         /\ \E k \in 0 .. Len(wire[a]) : wire'[a] = SubSeq(wire[a], 1, k)
         /\ \A b \in Slot \ {a} : wire'[b] = wire[b]
<1>1. wire[a] \in Seq(Frame)
  BY DEF WireTyped
<1>2. PICK k \in 0 .. Len(wire[a]) : wire' = [wire EXCEPT ![a] = SubSeq(@, 1, k)]
  BY DEF Stall
<1>3. SubSeq(wire[a], 1, k) \in Seq(Frame)
  BY <1>1, SubSeqProperties
<1> QED  BY <1>2, <1>3 DEF WireTyped

\* What is under way is frames.
LEMMA WireTypes ==
  ASSUME Types, Life, Next
  PROVE  WireTyped'
<1> USE DEF Types, WireTyped, sockets, Enter, Goto
<1>1. ASSUME NEW a \in Slot, Send(a)  PROVE  WireTyped'
  BY <1>1 DEF Send, Enter
<1>2. ASSUME NEW a \in Slot, Recover(a)  PROVE  WireTyped'
  BY <1>2 DEF Recover, Enter
<1>3. ASSUME NEW a \in Slot, SweepLists(a)  PROVE  WireTyped'
  BY <1>3 DEF SweepLists, Enter
<1>4. ASSUME NEW a \in Slot, SweepClaims(a)  PROVE  WireTyped'
  BY <1>4, LeaveFacts DEF SweepClaims
<1>5. ASSUME NEW a \in Slot, ReadMailbox(a)  PROVE  WireTyped'
  BY <1>5 DEF ReadMailbox
<1>6. ASSUME NEW a \in Slot, MailRow(a)  PROVE  WireTyped'
  BY <1>6, LeaveFacts DEF MailRow
<1>7. ASSUME NEW a \in Slot, MailRemove(a)  PROVE  WireTyped'
  BY <1>7, LeaveFacts DEF MailRemove
<1>8. ASSUME NEW a \in Slot, CheckPending(a)  PROVE  WireTyped'
  BY <1>8, LeaveFacts DEF CheckPending
<1>9. ASSUME NEW a \in Slot, Connect(a)  PROVE  WireTyped'
  BY <1>9 DEF Connect
<1>10. ASSUME NEW a \in Slot, Read(a)  PROVE  WireTyped'
  BY <1>10, ReadFacts DEF Read
<1>11. ASSUME NEW a \in Slot, Broken(a)  PROVE  WireTyped'
  BY <1>11, LeaveFacts DEF Broken
<1>12. ASSUME NEW a \in Slot, CancelSession(a)  PROVE  WireTyped'
  <2>1. CASE EndSession("cancelled")
    BY <2>1, EndWire DEF Reason
  <2>2. CASE UNCHANGED wire
    BY <2>2 DEF WireTyped
  <2> QED  BY <1>12, <2>1, <2>2, LeaveFacts DEF CancelSession
<1>13. ASSUME NEW a \in Slot, Commit(a)  PROVE  WireTyped'
  BY <1>13 DEF Commit, CommitRow
<1>14. ASSUME NEW a \in Slot, CommitTooLate(a)  PROVE  WireTyped'
  BY <1>14 DEF CommitTooLate
<1>15. ASSUME NEW a \in Slot, Settle(a)  PROVE  WireTyped'
  BY <1>15, LeaveFacts DEF Settle
<1>16. ASSUME NEW a \in Slot, HelperStart(a)  PROVE  WireTyped'
  BY <1>16, FramesSent, EmitFacts DEF HelperStart
<1>17. ASSUME NEW a \in Slot, HelperResume(a)  PROVE  WireTyped'
  <2>1. PICK why \in Reason \cup {"none"} : Emit(a, [type |-> "snapshot", len |-> got, why |-> why])
    BY <1>17, SnapshotWhy
  <2> QED  BY <2>1, FramesSent, EmitFacts
<1>18. ASSUME NEW a \in Slot, HelperDenies(a)  PROVE  WireTyped'
  BY <1>18, FramesSent, EmitFacts DEF HelperDenies
<1>19. ASSUME NEW a \in Slot, HelperNotices(a)  PROVE  WireTyped'
  BY <1>19 DEF HelperNotices
<1>20. ASSUME NEW a \in Slot, ConnectFails(a)  PROVE  WireTyped'
  BY <1>20, LeaveFacts DEF ConnectFails
<1>21. ASSUME NEW a \in Slot, NoSlot(a)  PROVE  WireTyped'
  BY <1>21, LeaveFacts DEF NoSlot
<1>22. ASSUME NEW a \in Slot, CancelTimesOut(a)  PROVE  WireTyped'
  BY <1>22, LeaveFacts DEF CancelTimesOut
<1>23. ASSUME NEW a \in Slot, CommitFails(a)  PROVE  WireTyped'
  BY <1>23, LeaveFacts DEF CommitFails
<1>24. ASSUME NEW a \in Slot, Stall(a)  PROVE  WireTyped'
  BY <1>24, StallFacts
<1>25. ASSUME Interrupt  PROVE  WireTyped'
  BY <1>25 DEF Interrupt
<1>26. ASSUME Delete  PROVE  WireTyped'
  BY <1>26 DEF Delete
<1>27. ASSUME ReaperQueries  PROVE  WireTyped'
  BY <1>27 DEF ReaperQueries
<1>28. ASSUME ReaperSettles  PROVE  WireTyped'
  BY <1>28 DEF ReaperSettles
<1>29. ASSUME ReaperDiscards  PROVE  WireTyped'
  BY <1>29 DEF ReaperDiscards
<1>30. ASSUME ReaperRemovesFiles  PROVE  WireTyped'
  BY <1>30 DEF ReaperRemovesFiles
<1>31. ASSUME Upstream  PROVE  WireTyped'
  <2>1. owner # None => owner \in Slot
    BY DEF SharedTyped
  <2> QED  BY <1>31, <2>1, FramesSent, EmitFacts DEF Upstream, WireTyped
<1>32. ASSUME UpstreamEnds  PROVE  WireTyped'
  BY <1>32, EndWire DEF UpstreamEnds, Reason
<1>33. ASSUME Publish  PROVE  WireTyped'
  BY <1>33 DEF Publish
<1>34. ASSUME MainCrash  PROVE  WireTyped'
  BY <1>34, ReturnFacts, Slot \in SUBSET Slot DEF MainCrash
<1>35. ASSUME HelperDies  PROVE  WireTyped'
  BY <1>35 DEF HelperDies
<1> QED
  BY <1>1, <1>2, <1>3, <1>4, <1>5, <1>6, <1>7, <1>8, <1>9, <1>10, <1>11, <1>12, <1>13,
     <1>14, <1>15, <1>16, <1>17, <1>18, <1>19, <1>20, <1>21, <1>22, <1>23, <1>24, <1>25,
     <1>26, <1>27, <1>28, <1>29, <1>30, <1>31, <1>32, <1>33, <1>34, <1>35
  DEF Next, MainStep, HelperStep, Reaper, Faulty

-----------------------------------------------------------------------------
(* What a step does to the message and to the helper's session.            *)

\* What a step does to the message: its row is sent, settled or deleted, and a
\* result is the final of the attempt that commits.
RowMoves ==
  /\ \/ row' = row /\ result' = result
     \/ row = "none" /\ row' = "pending" /\ result' = result /\ \E a \in Slot : Send(a)
     \/ /\ row = "pending" /\ row' = "terminal"
        /\ \E a \in Slot : pc[a] \in {"commit", "mailcommit"} /\ result' = final[a]
     \/ row \in {"pending", "terminal"} /\ row' = "deleted" /\ result' = result
  /\ reaper' = "idle" \/ reaper # "idle" \/ row' = "deleted"

LEMMA RowStep ==
  ASSUME Next
  PROVE  RowMoves
<1> USE DEF RowMoves, db, deleter
<1>1. ASSUME NEW a \in Slot, Send(a)  PROVE  RowMoves
  BY <1>1 DEF Send, Enter
<1>2. ASSUME NEW a \in Slot, Recover(a)  PROVE  RowMoves
  BY <1>2 DEF Recover, Enter
<1>3. ASSUME NEW a \in Slot, SweepLists(a)  PROVE  RowMoves
  BY <1>3 DEF SweepLists, Enter
<1>4. ASSUME NEW a \in Slot, SweepClaims(a)  PROVE  RowMoves
  BY <1>4 DEF SweepClaims
<1>5. ASSUME NEW a \in Slot, ReadMailbox(a)  PROVE  RowMoves
  BY <1>5 DEF ReadMailbox
<1>6. ASSUME NEW a \in Slot, MailRow(a)  PROVE  RowMoves
  BY <1>6 DEF MailRow
<1>7. ASSUME NEW a \in Slot, MailRemove(a)  PROVE  RowMoves
  BY <1>7 DEF MailRemove
<1>8. ASSUME NEW a \in Slot, CheckPending(a)  PROVE  RowMoves
  BY <1>8 DEF CheckPending
<1>9. ASSUME NEW a \in Slot, Connect(a)  PROVE  RowMoves
  BY <1>9 DEF Connect
<1>10. ASSUME NEW a \in Slot, Read(a)  PROVE  RowMoves
  BY <1>10 DEF Read
<1>11. ASSUME NEW a \in Slot, Broken(a)  PROVE  RowMoves
  BY <1>11 DEF Broken
<1>12. ASSUME NEW a \in Slot, CancelSession(a)  PROVE  RowMoves
  BY <1>12 DEF CancelSession
<1>13. ASSUME NEW a \in Slot, Commit(a)  PROVE  RowMoves
  BY <1>13 DEF Commit, CommitRow
<1>14. ASSUME NEW a \in Slot, CommitTooLate(a)  PROVE  RowMoves
  BY <1>14 DEF CommitTooLate
<1>15. ASSUME NEW a \in Slot, Settle(a)  PROVE  RowMoves
  BY <1>15 DEF Settle
<1>16. ASSUME NEW a \in Slot, HelperStart(a)  PROVE  RowMoves
  BY <1>16 DEF HelperStart
<1>17. ASSUME NEW a \in Slot, HelperResume(a)  PROVE  RowMoves
  BY <1>17 DEF HelperResume
<1>18. ASSUME NEW a \in Slot, HelperDenies(a)  PROVE  RowMoves
  BY <1>18 DEF HelperDenies
<1>19. ASSUME NEW a \in Slot, HelperNotices(a)  PROVE  RowMoves
  BY <1>19 DEF HelperNotices
<1>20. ASSUME NEW a \in Slot, ConnectFails(a)  PROVE  RowMoves
  BY <1>20 DEF ConnectFails
<1>21. ASSUME NEW a \in Slot, NoSlot(a)  PROVE  RowMoves
  BY <1>21 DEF NoSlot
<1>22. ASSUME NEW a \in Slot, CancelTimesOut(a)  PROVE  RowMoves
  BY <1>22 DEF CancelTimesOut
<1>23. ASSUME NEW a \in Slot, CommitFails(a)  PROVE  RowMoves
  BY <1>23 DEF CommitFails
<1>24. ASSUME NEW a \in Slot, Stall(a)  PROVE  RowMoves
  BY <1>24 DEF Stall
<1>25. ASSUME Interrupt  PROVE  RowMoves
  BY <1>25 DEF Interrupt
<1>26. ASSUME Delete  PROVE  RowMoves
  BY <1>26 DEF Delete
<1>27. ASSUME ReaperQueries  PROVE  RowMoves
  BY <1>27 DEF ReaperQueries
<1>28. ASSUME ReaperSettles  PROVE  RowMoves
  BY <1>28 DEF ReaperSettles
<1>29. ASSUME ReaperDiscards  PROVE  RowMoves
  BY <1>29 DEF ReaperDiscards
<1>30. ASSUME ReaperRemovesFiles  PROVE  RowMoves
  BY <1>30 DEF ReaperRemovesFiles
<1>31. ASSUME Upstream  PROVE  RowMoves
  BY <1>31 DEF Upstream
<1>32. ASSUME UpstreamEnds  PROVE  RowMoves
  BY <1>32 DEF UpstreamEnds
<1>33. ASSUME Publish  PROVE  RowMoves
  BY <1>33 DEF Publish
<1>34. ASSUME MainCrash  PROVE  RowMoves
  BY <1>34 DEF MainCrash
<1>35. ASSUME HelperDies  PROVE  RowMoves
  BY <1>35 DEF HelperDies
<1> QED
  BY <1>1, <1>2, <1>3, <1>4, <1>5, <1>6, <1>7, <1>8, <1>9, <1>10, <1>11, <1>12, <1>13,
     <1>14, <1>15, <1>16, <1>17, <1>18, <1>19, <1>20, <1>21, <1>22, <1>23, <1>24, <1>25,
     <1>26, <1>27, <1>28, <1>29, <1>30, <1>31, <1>32, <1>33, <1>34, <1>35
  DEF Next, MainStep, HelperStep, Reaper, Faulty

SameReply == UNCHANGED <<got, ended>>   \* neither more of it nor its end

\* What a step does to the helper's session, its end and its file.
SessionMoves ==
  \/ SameReply /\ UNCHANGED <<session, mail>>
  \/ /\ session = "none" /\ session' \in {"none", "live", "gone"} /\ \E a \in Slot : HelperStart(a)
     /\ SameReply /\ UNCHANGED mail
  \/ session = "live" /\ got' = got + 1 /\ UNCHANGED <<session, ended, mail>>
  \/ /\ session = "live" /\ session' = "done" /\ UNCHANGED <<got, mail, db>>
     /\ ended' # None /\ ended'.len = got /\ ended'.why \in Reason
  \/ /\ row \notin {"none", "pending"} /\ UNCHANGED row
     /\ SameReply /\ mail' \in {mail, None}
     /\ session' = session \/ (Held /\ session' = "gone")
  \/ SameReply /\ session = "done" /\ session' = "gone" /\ mail' = ended
  \/ SameReply /\ Held /\ session' = "gone" /\ killed' /\ UNCHANGED mail

Monotone == (killed => killed') /\ (denied => denied')

LEMMA SessionStep ==
  ASSUME Types, Unsent, Past, Fresh, Next
  PROVE  SessionMoves
<1> USE DEF SessionMoves, SameReply, helper
<1>1. ASSUME NEW a \in Slot, Send(a)  PROVE  SessionMoves
  BY <1>1 DEF Send, Enter
<1>2. ASSUME NEW a \in Slot, Recover(a)  PROVE  SessionMoves
  BY <1>2 DEF Recover, Enter
<1>3. ASSUME NEW a \in Slot, SweepLists(a)  PROVE  SessionMoves
  BY <1>3 DEF SweepLists, Enter
<1>4. ASSUME NEW a \in Slot, SweepClaims(a)  PROVE  SessionMoves
  BY <1>4 DEF SweepClaims
<1>5. ASSUME NEW a \in Slot, ReadMailbox(a)  PROVE  SessionMoves
  BY <1>5 DEF ReadMailbox
<1>6. ASSUME NEW a \in Slot, MailRow(a)  PROVE  SessionMoves
  BY <1>6 DEF MailRow, Unsent, db
<1>7. ASSUME NEW a \in Slot, MailRemove(a)  PROVE  SessionMoves
  BY <1>7 DEF MailRemove, Past, db
<1>8. ASSUME NEW a \in Slot, CheckPending(a)  PROVE  SessionMoves
  BY <1>8 DEF CheckPending
<1>9. ASSUME NEW a \in Slot, Connect(a)  PROVE  SessionMoves
  BY <1>9 DEF Connect
<1>10. ASSUME NEW a \in Slot, Read(a)  PROVE  SessionMoves
  BY <1>10 DEF Read
<1>11. ASSUME NEW a \in Slot, Broken(a)  PROVE  SessionMoves
  BY <1>11 DEF Broken
<1>12. ASSUME NEW a \in Slot, CancelSession(a)  PROVE  SessionMoves
  <2>1. CASE session = "live" /\ EndSession("cancelled")
    BY <1>12, <2>1, EndFacts DEF CancelSession, Types, Reason
  <2>2. CASE UNCHANGED helper
    BY <1>12, <2>2 DEF CancelSession
  <2> QED  BY <1>12, <2>1, <2>2 DEF CancelSession
<1>13. ASSUME NEW a \in Slot, Commit(a)  PROVE  SessionMoves
  BY <1>13 DEF Commit, CommitRow
<1>14. ASSUME NEW a \in Slot, CommitTooLate(a)  PROVE  SessionMoves
  BY <1>14 DEF CommitTooLate
<1>15. ASSUME NEW a \in Slot, Settle(a)  PROVE  SessionMoves
  BY <1>15 DEF Settle, Past, DropSession, Held, db
<1>16. ASSUME NEW a \in Slot, HelperStart(a)  PROVE  SessionMoves
  <2>1. session = "none"
    BY <1>16 DEF HelperStart, Fresh, Starting
  <2> QED  BY <1>16, <2>1 DEF HelperStart
<1>17. ASSUME NEW a \in Slot, HelperResume(a)  PROVE  SessionMoves
  BY <1>17 DEF HelperResume
<1>18. ASSUME NEW a \in Slot, HelperDenies(a)  PROVE  SessionMoves
  BY <1>18 DEF HelperDenies
<1>19. ASSUME NEW a \in Slot, HelperNotices(a)  PROVE  SessionMoves
  BY <1>19 DEF HelperNotices, Detach
<1>20. ASSUME NEW a \in Slot, ConnectFails(a)  PROVE  SessionMoves
  BY <1>20 DEF ConnectFails
<1>21. ASSUME NEW a \in Slot, NoSlot(a)  PROVE  SessionMoves
  BY <1>21 DEF NoSlot
<1>22. ASSUME NEW a \in Slot, CancelTimesOut(a)  PROVE  SessionMoves
  BY <1>22 DEF CancelTimesOut
<1>23. ASSUME NEW a \in Slot, CommitFails(a)  PROVE  SessionMoves
  BY <1>23 DEF CommitFails
<1>24. ASSUME NEW a \in Slot, Stall(a)  PROVE  SessionMoves
  BY <1>24 DEF Stall, Detach
<1>25. ASSUME Interrupt  PROVE  SessionMoves
  BY <1>25 DEF Interrupt
<1>26. ASSUME Delete  PROVE  SessionMoves
  BY <1>26 DEF Delete
<1>27. ASSUME ReaperQueries  PROVE  SessionMoves
  BY <1>27 DEF ReaperQueries
<1>28. ASSUME ReaperSettles  PROVE  SessionMoves
  BY <1>28 DEF ReaperSettles, Past, DropSession, Held, db
<1>29. ASSUME ReaperDiscards  PROVE  SessionMoves
  BY <1>29 DEF ReaperDiscards, Past, DropSession, Held, db
<1>30. ASSUME ReaperRemovesFiles  PROVE  SessionMoves
  BY <1>30 DEF ReaperRemovesFiles, Past, db
<1>31. ASSUME Upstream  PROVE  SessionMoves
  BY <1>31 DEF Upstream
<1>32. ASSUME UpstreamEnds  PROVE  SessionMoves
  <2>1. PICK why \in {"completed", "error"} : EndSession(why)
    BY <1>32 DEF UpstreamEnds
  <2>2. why \in Reason
    BY DEF Reason
  <2>3. ended' = [why |-> why, len |-> got] /\ ended' # None /\ session' = "done" /\ got' = got
    BY <2>1, <2>2, EndFacts DEF Types
  <2> QED  BY <1>32, <2>2, <2>3 DEF UpstreamEnds
<1>33. ASSUME Publish  PROVE  SessionMoves
  BY <1>33 DEF Publish
<1>34. ASSUME MainCrash  PROVE  SessionMoves
  BY <1>34 DEF MainCrash
<1>35. ASSUME HelperDies  PROVE  SessionMoves
  BY <1>35 DEF HelperDies, Held
<1> QED
  BY <1>1, <1>2, <1>3, <1>4, <1>5, <1>6, <1>7, <1>8, <1>9, <1>10, <1>11, <1>12, <1>13,
     <1>14, <1>15, <1>16, <1>17, <1>18, <1>19, <1>20, <1>21, <1>22, <1>23, <1>24, <1>25,
     <1>26, <1>27, <1>28, <1>29, <1>30, <1>31, <1>32, <1>33, <1>34, <1>35
  DEF Next, MainStep, HelperStep, Reaper, Faulty

\* History is not forgotten.
LEMMA HistoryStep ==
  ASSUME FlagTyped, Next
  PROVE  Monotone
<1> USE DEF Monotone, NoFault, Fault, history
<1>1. ASSUME NEW a \in Slot, Send(a)  PROVE  Monotone
  BY <1>1 DEF Send, Enter
<1>2. ASSUME NEW a \in Slot, Recover(a)  PROVE  Monotone
  BY <1>2 DEF Recover, Enter
<1>3. ASSUME NEW a \in Slot, SweepLists(a)  PROVE  Monotone
  BY <1>3 DEF SweepLists, Enter
<1>4. ASSUME NEW a \in Slot, SweepClaims(a)  PROVE  Monotone
  BY <1>4 DEF SweepClaims
<1>5. ASSUME NEW a \in Slot, ReadMailbox(a)  PROVE  Monotone
  BY <1>5 DEF ReadMailbox
<1>6. ASSUME NEW a \in Slot, MailRow(a)  PROVE  Monotone
  BY <1>6 DEF MailRow
<1>7. ASSUME NEW a \in Slot, MailRemove(a)  PROVE  Monotone
  BY <1>7 DEF MailRemove
<1>8. ASSUME NEW a \in Slot, CheckPending(a)  PROVE  Monotone
  BY <1>8 DEF CheckPending
<1>9. ASSUME NEW a \in Slot, Connect(a)  PROVE  Monotone
  BY <1>9 DEF Connect
<1>10. ASSUME NEW a \in Slot, Read(a)  PROVE  Monotone
  BY <1>10 DEF Read
<1>11. ASSUME NEW a \in Slot, Broken(a)  PROVE  Monotone
  BY <1>11 DEF Broken
<1>12. ASSUME NEW a \in Slot, CancelSession(a)  PROVE  Monotone
  BY <1>12 DEF CancelSession
<1>13. ASSUME NEW a \in Slot, Commit(a)  PROVE  Monotone
  BY <1>13 DEF Commit, CommitRow
<1>14. ASSUME NEW a \in Slot, CommitTooLate(a)  PROVE  Monotone
  BY <1>14 DEF CommitTooLate
<1>15. ASSUME NEW a \in Slot, Settle(a)  PROVE  Monotone
  BY <1>15 DEF Settle
<1>16. ASSUME NEW a \in Slot, HelperStart(a)  PROVE  Monotone
  BY <1>16 DEF HelperStart
<1>17. ASSUME NEW a \in Slot, HelperResume(a)  PROVE  Monotone
  BY <1>17 DEF HelperResume
<1>18. ASSUME NEW a \in Slot, HelperDenies(a)  PROVE  Monotone
  BY <1>18 DEF HelperDenies
<1>19. ASSUME NEW a \in Slot, HelperNotices(a)  PROVE  Monotone
  BY <1>19 DEF HelperNotices
<1>20. ASSUME NEW a \in Slot, ConnectFails(a)  PROVE  Monotone
  BY <1>20 DEF ConnectFails
<1>21. ASSUME NEW a \in Slot, NoSlot(a)  PROVE  Monotone
  BY <1>21 DEF NoSlot
<1>22. ASSUME NEW a \in Slot, CancelTimesOut(a)  PROVE  Monotone
  BY <1>22 DEF CancelTimesOut
<1>23. ASSUME NEW a \in Slot, CommitFails(a)  PROVE  Monotone
  BY <1>23 DEF CommitFails
<1>24. ASSUME NEW a \in Slot, Stall(a)  PROVE  Monotone
  BY <1>24 DEF Stall
<1>25. ASSUME Interrupt  PROVE  Monotone
  BY <1>25 DEF Interrupt
<1>26. ASSUME Delete  PROVE  Monotone
  BY <1>26 DEF Delete
<1>27. ASSUME ReaperQueries  PROVE  Monotone
  BY <1>27 DEF ReaperQueries
<1>28. ASSUME ReaperSettles  PROVE  Monotone
  BY <1>28 DEF ReaperSettles
<1>29. ASSUME ReaperDiscards  PROVE  Monotone
  BY <1>29 DEF ReaperDiscards
<1>30. ASSUME ReaperRemovesFiles  PROVE  Monotone
  BY <1>30 DEF ReaperRemovesFiles
<1>31. ASSUME Upstream  PROVE  Monotone
  BY <1>31 DEF Upstream
<1>32. ASSUME UpstreamEnds  PROVE  Monotone
  BY <1>32 DEF UpstreamEnds
<1>33. ASSUME Publish  PROVE  Monotone
  BY <1>33 DEF Publish
<1>34. ASSUME MainCrash  PROVE  Monotone
  BY <1>34 DEF MainCrash
<1>35. ASSUME HelperDies  PROVE  Monotone
  <2>1. killed => killed'
    <3>1. CASE killed' = (killed \/ Held)
      BY <3>1
    <3>2. CASE killed' = killed
      BY <3>2
    <3> QED  BY <1>35, <3>1, <3>2 DEF HelperDies
  <2>2. denied => denied'
    BY <1>35 DEF HelperDies
  <2> QED  BY <2>1, <2>2
<1> QED
  BY <1>1, <1>2, <1>3, <1>4, <1>5, <1>6, <1>7, <1>8, <1>9, <1>10, <1>11, <1>12, <1>13,
     <1>14, <1>15, <1>16, <1>17, <1>18, <1>19, <1>20, <1>21, <1>22, <1>23, <1>24, <1>25,
     <1>26, <1>27, <1>28, <1>29, <1>30, <1>31, <1>32, <1>33, <1>34, <1>35
  DEF Next, MainStep, HelperStep, Reaper, Faulty

\* A session lives once.
LEMMA LifeStep ==
  ASSUME Types, Life, Unsent, Past, Fresh, Next
  PROVE  Life'
<1>1. SessionMoves
  BY SessionStep
<1> QED  BY <1>1 DEF SessionMoves, SameReply, Life, Held

\* A reply that has ended stays as it ended, and a session that is gone is gone.
LEMMA NeverBack ==
  ASSUME Types, Life, Unsent, Past, Fresh, Next
  PROVE  /\ ended # None => ended' = ended
         /\ session = "gone" => session' = "gone"
         /\ Away => Away'
         /\ Gone => Gone'
<1>1. SessionMoves /\ Monotone
  BY SessionStep, HistoryStep DEF Types
<1>2. ended # None => ended' = ended
  BY <1>1 DEF SessionMoves, SameReply, Life
<1>3. session = "gone" => session' = "gone" /\ ended' = ended
  BY <1>1 DEF SessionMoves, SameReply, Held
<1> QED  BY <1>1, <1>2, <1>3 DEF Gone, Away, Monotone

\* A reply that ended stays in somebody's hands until the commit.
LEMMA KeptStep ==
  ASSUME Types, Life, Unsent, Past, Fresh, ReplyKept, Next
  PROVE  ReplyKept'
<1>1. SessionMoves /\ RowMoves /\ Monotone
  BY SessionStep, RowStep, HistoryStep DEF Types
<1>2. CASE row = "none"
  BY <1>1, <1>2 DEF SessionMoves, SameReply, RowMoves, Unsent, Life, ReplyKept, Held
<1>3. CASE row # "none"
  BY <1>1, <1>3 DEF SessionMoves, SameReply, RowMoves, Monotone, Life, ReplyKept, Held
<1> QED  BY <1>2, <1>3

-----------------------------------------------------------------------------
(* What a step does to a slot.                                             *)

\* Where a step takes a slot.
Move(b) ==
  \/ pc'[b] = pc[b] /\ kind'[b] = kind[b] /\ (pc[b] # "read" => final'[b] = final[b])
  \/ pc'[b] = "idle"
  \/ pc[b] = "idle" /\ row = "none" /\ row' = "pending" /\ pc'[b] = "connect"
  \/ pc[b] = "idle" /\ row # "none" /\ pc'[b] = "list" /\ kind'[b] = "recover"
  \/ pc[b] = "idle" /\ row # "none" /\ pc'[b] = "listed"
  \/ pc[b] = "listed" /\ pc'[b] = "mailrow"
  \/ pc[b] \in {"list", "relist"} /\ mail # None /\ pc'[b] = "mailrow"
  \/ pc[b] = "list" /\ pc'[b] = "check" /\ kind'[b] = kind[b]
  \/ pc[b] = "relist" /\ mail = None /\ pc'[b] = "commit" /\ final'[b] = final[b]
  \/ pc[b] = "mailrow" /\ mail # None /\ pc'[b] = "mailcommit" /\ final'[b] = mail
  \/ pc[b] = "check" /\ pc'[b] = "connect" /\ kind'[b] = kind[b]
  \/ pc[b] = "connect" /\ pc'[b] = "read"
  \/ pc[b] = "connect" /\ pc'[b] = "commit" /\ final'[b] = Refused
  \/ pc[b] = "read" /\ pc'[b] \in {"commit", "relist"} /\ Read(b)
  \/ pc[b] \in {"commit", "mailcommit"} /\ row' = "terminal" /\ pc'[b] \in {"ack", "mailremove"}
  \/ pc[b] \in {"commit", "mailcommit"} /\ row # "pending" /\ UNCHANGED row /\ pc'[b] = "discard"

\* Reading moves one slot, to one of three places.
LEMMA ReadMoves ==
  ASSUME NEW a \in Slot, SlotTyped, WireTyped, Read(a)
  PROVE  /\ pc[a] = "read" /\ pc'[a] \in {"read", "commit", "relist"} /\ kind' = kind
         /\ \A b \in Slot \ {a} : pc'[b] = pc[b] /\ final'[b] = final[b]
<1> DEFINE f == wire[a][1]
<1>1. /\ pc[a] = "read" /\ kind' = kind
      /\ pc' = [pc EXCEPT ![a] = IF Ends(f) \/ f.type = "capacity" THEN "commit"
                                ELSE IF f.type = "notfound" THEN "relist" ELSE "read"]
      /\ final' = [final EXCEPT ![a] = IF Ends(f) THEN [why |-> f.why, len |-> have'[a]]
                                      ELSE IF f.type = "capacity" THEN Refused ELSE Lost]
  BY ReadFacts
<1> QED  BY <1>1 DEF SlotTyped

LEMMA SlotStep ==
  ASSUME Types, Unsent, Next
  PROVE  \A b \in Slot : Move(b)
<1> USE DEF Types, SlotTyped, Move, Enter, Goto, work, db
<1>1. ASSUME NEW a \in Slot, Send(a)  PROVE  \A b \in Slot : Move(b)
  BY <1>1 DEF Send, Free
<1>2. ASSUME NEW a \in Slot, Recover(a)  PROVE  \A b \in Slot : Move(b)
  BY <1>2 DEF Recover, Free
<1>3. ASSUME NEW a \in Slot, SweepLists(a)  PROVE  \A b \in Slot : Move(b)
  BY <1>3 DEF SweepLists, Free, Unsent
<1>4. ASSUME NEW a \in Slot, SweepClaims(a)  PROVE  \A b \in Slot : Move(b)
  BY <1>4, LeaveFacts DEF SweepClaims
<1>5. ASSUME NEW a \in Slot, ReadMailbox(a)  PROVE  \A b \in Slot : Move(b)
  BY <1>5 DEF ReadMailbox
<1>6. ASSUME NEW a \in Slot, MailRow(a)  PROVE  \A b \in Slot : Move(b)
  BY <1>6, LeaveFacts DEF MailRow
<1>7. ASSUME NEW a \in Slot, MailRemove(a)  PROVE  \A b \in Slot : Move(b)
  BY <1>7, LeaveFacts DEF MailRemove
<1>8. ASSUME NEW a \in Slot, CheckPending(a)  PROVE  \A b \in Slot : Move(b)
  BY <1>8, LeaveFacts DEF CheckPending
<1>9. ASSUME NEW a \in Slot, Connect(a)  PROVE  \A b \in Slot : Move(b)
  BY <1>9 DEF Connect
<1>10. ASSUME NEW a \in Slot, Read(a)  PROVE  \A b \in Slot : Move(b)
  BY <1>10, ReadMoves
<1>11. ASSUME NEW a \in Slot, Broken(a)  PROVE  \A b \in Slot : Move(b)
  BY <1>11, LeaveFacts DEF Broken
<1>12. ASSUME NEW a \in Slot, CancelSession(a)  PROVE  \A b \in Slot : Move(b)
  BY <1>12, LeaveFacts DEF CancelSession
<1>13. ASSUME NEW a \in Slot, Commit(a)  PROVE  \A b \in Slot : Move(b)
  BY <1>13 DEF Commit, CommitRow
<1>14. ASSUME NEW a \in Slot, CommitTooLate(a)  PROVE  \A b \in Slot : Move(b)
  BY <1>14 DEF CommitTooLate
<1>15. ASSUME NEW a \in Slot, Settle(a)  PROVE  \A b \in Slot : Move(b)
  BY <1>15, LeaveFacts DEF Settle
<1>16. ASSUME NEW a \in Slot, HelperStart(a)  PROVE  \A b \in Slot : Move(b)
  BY <1>16 DEF HelperStart
<1>17. ASSUME NEW a \in Slot, HelperResume(a)  PROVE  \A b \in Slot : Move(b)
  BY <1>17 DEF HelperResume
<1>18. ASSUME NEW a \in Slot, HelperDenies(a)  PROVE  \A b \in Slot : Move(b)
  BY <1>18 DEF HelperDenies
<1>19. ASSUME NEW a \in Slot, HelperNotices(a)  PROVE  \A b \in Slot : Move(b)
  BY <1>19 DEF HelperNotices
<1>20. ASSUME NEW a \in Slot, ConnectFails(a)  PROVE  \A b \in Slot : Move(b)
  BY <1>20, LeaveFacts DEF ConnectFails
<1>21. ASSUME NEW a \in Slot, NoSlot(a)  PROVE  \A b \in Slot : Move(b)
  BY <1>21, LeaveFacts DEF NoSlot
<1>22. ASSUME NEW a \in Slot, CancelTimesOut(a)  PROVE  \A b \in Slot : Move(b)
  BY <1>22, LeaveFacts DEF CancelTimesOut
<1>23. ASSUME NEW a \in Slot, CommitFails(a)  PROVE  \A b \in Slot : Move(b)
  BY <1>23, LeaveFacts DEF CommitFails
<1>24. ASSUME NEW a \in Slot, Stall(a)  PROVE  \A b \in Slot : Move(b)
  BY <1>24 DEF Stall
<1>25. ASSUME Interrupt  PROVE  \A b \in Slot : Move(b)
  BY <1>25 DEF Interrupt
<1>26. ASSUME Delete  PROVE  \A b \in Slot : Move(b)
  BY <1>26 DEF Delete
<1>27. ASSUME ReaperQueries  PROVE  \A b \in Slot : Move(b)
  BY <1>27 DEF ReaperQueries
<1>28. ASSUME ReaperSettles  PROVE  \A b \in Slot : Move(b)
  BY <1>28 DEF ReaperSettles
<1>29. ASSUME ReaperDiscards  PROVE  \A b \in Slot : Move(b)
  BY <1>29 DEF ReaperDiscards
<1>30. ASSUME ReaperRemovesFiles  PROVE  \A b \in Slot : Move(b)
  BY <1>30 DEF ReaperRemovesFiles
<1>31. ASSUME Upstream  PROVE  \A b \in Slot : Move(b)
  BY <1>31 DEF Upstream
<1>32. ASSUME UpstreamEnds  PROVE  \A b \in Slot : Move(b)
  BY <1>32 DEF UpstreamEnds
<1>33. ASSUME Publish  PROVE  \A b \in Slot : Move(b)
  BY <1>33 DEF Publish
<1>34. ASSUME MainCrash  PROVE  \A b \in Slot : Move(b)
  BY <1>34, ReturnFacts, Slot \in SUBSET Slot DEF MainCrash
<1>35. ASSUME HelperDies  PROVE  \A b \in Slot : Move(b)
  BY <1>35 DEF HelperDies
<1> QED
  BY <1>1, <1>2, <1>3, <1>4, <1>5, <1>6, <1>7, <1>8, <1>9, <1>10, <1>11, <1>12, <1>13,
     <1>14, <1>15, <1>16, <1>17, <1>18, <1>19, <1>20, <1>21, <1>22, <1>23, <1>24, <1>25,
     <1>26, <1>27, <1>28, <1>29, <1>30, <1>31, <1>32, <1>33, <1>34, <1>35
  DEF Next, MainStep, HelperStep, Reaper, Faulty

\* What a step does to the command on a socket.
CmdMove(b) ==
  \/ cmd'[b] \in {cmd[b], "none"}
  \/ pc[b] = "connect" /\ pc'[b] = "read" /\ cmd'[b] = IF kind[b] = "start" THEN "start" ELSE "resume"

LEMMA CmdStep ==
  ASSUME Types, Next
  PROVE  \A b \in Slot : CmdMove(b)
<1> USE DEF Types, SlotTyped, CmdMove, sockets
<1>1. ASSUME NEW a \in Slot, Send(a)  PROVE  \A b \in Slot : CmdMove(b)
  BY <1>1 DEF Send, Enter
<1>2. ASSUME NEW a \in Slot, Recover(a)  PROVE  \A b \in Slot : CmdMove(b)
  BY <1>2 DEF Recover, Enter
<1>3. ASSUME NEW a \in Slot, SweepLists(a)  PROVE  \A b \in Slot : CmdMove(b)
  BY <1>3 DEF SweepLists, Enter
<1>4. ASSUME NEW a \in Slot, SweepClaims(a)  PROVE  \A b \in Slot : CmdMove(b)
  BY <1>4 DEF SweepClaims
<1>5. ASSUME NEW a \in Slot, ReadMailbox(a)  PROVE  \A b \in Slot : CmdMove(b)
  BY <1>5 DEF ReadMailbox
<1>6. ASSUME NEW a \in Slot, MailRow(a)  PROVE  \A b \in Slot : CmdMove(b)
  BY <1>6 DEF MailRow
<1>7. ASSUME NEW a \in Slot, MailRemove(a)  PROVE  \A b \in Slot : CmdMove(b)
  BY <1>7 DEF MailRemove
<1>8. ASSUME NEW a \in Slot, CheckPending(a)  PROVE  \A b \in Slot : CmdMove(b)
  BY <1>8 DEF CheckPending
<1>9. ASSUME NEW a \in Slot, Connect(a)  PROVE  \A b \in Slot : CmdMove(b)
  BY <1>9 DEF Connect, Goto
<1>10. ASSUME NEW a \in Slot, Read(a)  PROVE  \A b \in Slot : CmdMove(b)
  BY <1>10 DEF Read
<1>11. ASSUME NEW a \in Slot, Broken(a)  PROVE  \A b \in Slot : CmdMove(b)
  BY <1>11 DEF Broken
<1>12. ASSUME NEW a \in Slot, CancelSession(a)  PROVE  \A b \in Slot : CmdMove(b)
  BY <1>12 DEF CancelSession
<1>13. ASSUME NEW a \in Slot, Commit(a)  PROVE  \A b \in Slot : CmdMove(b)
  BY <1>13 DEF Commit, CommitRow
<1>14. ASSUME NEW a \in Slot, CommitTooLate(a)  PROVE  \A b \in Slot : CmdMove(b)
  BY <1>14 DEF CommitTooLate
<1>15. ASSUME NEW a \in Slot, Settle(a)  PROVE  \A b \in Slot : CmdMove(b)
  BY <1>15 DEF Settle
<1>16. ASSUME NEW a \in Slot, HelperStart(a)  PROVE  \A b \in Slot : CmdMove(b)
  BY <1>16 DEF HelperStart
<1>17. ASSUME NEW a \in Slot, HelperResume(a)  PROVE  \A b \in Slot : CmdMove(b)
  BY <1>17 DEF HelperResume
<1>18. ASSUME NEW a \in Slot, HelperDenies(a)  PROVE  \A b \in Slot : CmdMove(b)
  BY <1>18 DEF HelperDenies
<1>19. ASSUME NEW a \in Slot, HelperNotices(a)  PROVE  \A b \in Slot : CmdMove(b)
  BY <1>19 DEF HelperNotices
<1>20. ASSUME NEW a \in Slot, ConnectFails(a)  PROVE  \A b \in Slot : CmdMove(b)
  BY <1>20 DEF ConnectFails
<1>21. ASSUME NEW a \in Slot, NoSlot(a)  PROVE  \A b \in Slot : CmdMove(b)
  BY <1>21 DEF NoSlot
<1>22. ASSUME NEW a \in Slot, CancelTimesOut(a)  PROVE  \A b \in Slot : CmdMove(b)
  BY <1>22 DEF CancelTimesOut
<1>23. ASSUME NEW a \in Slot, CommitFails(a)  PROVE  \A b \in Slot : CmdMove(b)
  BY <1>23 DEF CommitFails
<1>24. ASSUME NEW a \in Slot, Stall(a)  PROVE  \A b \in Slot : CmdMove(b)
  BY <1>24 DEF Stall
<1>25. ASSUME Interrupt  PROVE  \A b \in Slot : CmdMove(b)
  BY <1>25 DEF Interrupt
<1>26. ASSUME Delete  PROVE  \A b \in Slot : CmdMove(b)
  BY <1>26 DEF Delete
<1>27. ASSUME ReaperQueries  PROVE  \A b \in Slot : CmdMove(b)
  BY <1>27 DEF ReaperQueries
<1>28. ASSUME ReaperSettles  PROVE  \A b \in Slot : CmdMove(b)
  BY <1>28 DEF ReaperSettles
<1>29. ASSUME ReaperDiscards  PROVE  \A b \in Slot : CmdMove(b)
  BY <1>29 DEF ReaperDiscards
<1>30. ASSUME ReaperRemovesFiles  PROVE  \A b \in Slot : CmdMove(b)
  BY <1>30 DEF ReaperRemovesFiles
<1>31. ASSUME Upstream  PROVE  \A b \in Slot : CmdMove(b)
  BY <1>31 DEF Upstream
<1>32. ASSUME UpstreamEnds  PROVE  \A b \in Slot : CmdMove(b)
  BY <1>32 DEF UpstreamEnds
<1>33. ASSUME Publish  PROVE  \A b \in Slot : CmdMove(b)
  BY <1>33 DEF Publish
<1>34. ASSUME MainCrash  PROVE  \A b \in Slot : CmdMove(b)
  BY <1>34 DEF MainCrash
<1>35. ASSUME HelperDies  PROVE  \A b \in Slot : CmdMove(b)
  BY <1>35 DEF HelperDies
<1> QED
  BY <1>1, <1>2, <1>3, <1>4, <1>5, <1>6, <1>7, <1>8, <1>9, <1>10, <1>11, <1>12, <1>13,
     <1>14, <1>15, <1>16, <1>17, <1>18, <1>19, <1>20, <1>21, <1>22, <1>23, <1>24, <1>25,
     <1>26, <1>27, <1>28, <1>29, <1>30, <1>31, <1>32, <1>33, <1>34, <1>35
  DEF Next, MainStep, HelperStep, Reaper, Faulty

\* Nobody tidies up before the message is settled.
LEMMA PastStep ==
  ASSUME Types, Unsent, Past, Next
  PROVE  Past'
<1>1. RowMoves /\ \A b \in Slot : Move(b)
  BY RowStep, SlotStep
<1>2. \A b \in Slot : pc'[b] \in {"mailremove", "ack", "discard"} => row' \notin {"none", "pending"}
  <2> SUFFICES ASSUME NEW b \in Slot, pc'[b] \in {"mailremove", "ack", "discard"}
               PROVE  row' \notin {"none", "pending"}
    OBVIOUS
  <2>1. Move(b)
    BY <1>1
  <2> QED  BY <1>1, <2>1 DEF Move, RowMoves, Past, Unsent
<1>3. reaper' # "idle" => row' = "deleted"
  BY <1>1 DEF RowMoves, Past
<1> QED  BY <1>2, <1>3 DEF Past

\* Nothing begins before the message is sent.
LEMMA UnsentStep ==
  ASSUME Types, Life, Unsent, Past, Fresh, Next
  PROVE  Unsent'
<1> SUFFICES ASSUME row' = "none"
             PROVE  session' = "none" /\ mail' = None /\ \A b \in Slot : pc'[b] = "idle" /\ cmd'[b] = "none"
  BY DEF Unsent
<1>1. row = "none" /\ session = "none" /\ mail = None /\ \A b \in Slot : pc[b] = "idle" /\ cmd[b] = "none"
  BY RowStep DEF RowMoves, Unsent
<1>2. \A a \in Slot : ~HelperStart(a)
  BY <1>1 DEF HelperStart
<1>3. session' = "none" /\ mail' = None
  BY <1>1, <1>2, SessionStep DEF SessionMoves, SameReply, Held
<1>4. ASSUME NEW b \in Slot
      PROVE  pc'[b] = "idle" /\ cmd'[b] = "none"
  <2>1. Move(b) /\ CmdMove(b)
    BY SlotStep, CmdStep
  <2> QED  BY <1>1, <2>1 DEF Move, CmdMove
<1> QED  BY <1>3, <1>4

\* The start command is sent once: by Send, before which nothing was begun, and
\* it is used up by HelperStart.
LEMMA FreshStep ==
  ASSUME Types, Life, Unsent, Past, Fresh, Sockets, Next
  PROVE  Fresh'
<1>1. ASSUME NEW b \in Slot, pc'[b] \in {"list", "check"}
      PROVE  kind'[b] = "recover"
  <2>1. Move(b)
    BY SlotStep
  <2> QED  BY <1>1, <2>1 DEF Move, Fresh
<1>2. ASSUME NEW b \in Slot, Starting(b)'
      PROVE  session' = "none" /\ \A c \in Slot : Starting(c)' => c = b
  <2>1. CASE row = "none"
    <3>1. PICK a \in Slot : Send(a)
      <4>1. row' = "pending" \/ row' = "none"
        BY <2>1, RowStep DEF RowMoves
      <4>2. row' # "none"
        BY <1>2, UnsentStep DEF Unsent, Starting
      <4> QED  BY <2>1, <4>1, <4>2, RowStep DEF RowMoves
    <3>2. session' = "none" /\ cmd' = cmd /\ \A c \in Slot : pc'[c] = IF c = a THEN "connect" ELSE pc[c]
      BY <2>1, <3>1 DEF Send, Enter, Types, SlotTyped, helper, sockets, Unsent
    <3>3. \A c \in Slot : Starting(c)' => c = a
      BY <2>1, <3>2 DEF Starting, Unsent
    <3> QED  BY <1>2, <3>2, <3>3
  <2>2. CASE row # "none"
    <3>1. ASSUME NEW c \in Slot, Starting(c)'
          PROVE  Starting(c)
      <4>1. Move(c) /\ CmdMove(c)
        BY SlotStep, CmdStep
      <4> QED  BY <2>2, <3>1, <4>1 DEF Move, CmdMove, Starting, Fresh
    <3>2. session = "none" /\ Starting(b)
      BY <1>2, <3>1 DEF Fresh
    <3>3. ASSUME NEW a \in Slot, HelperStart(a)
          PROVE  FALSE
      <4>1. a = b
        BY <3>2, <3>3 DEF HelperStart, Starting, Fresh
      <4>2. pc[a] # "connect" /\ pc' = pc /\ cmd'[a] = "none"
        BY <3>3 DEF HelperStart, Sockets, SocketOK, work, Types, SlotTyped
      <4> QED  BY <1>2, <4>1, <4>2 DEF Starting
    <3>4. session' = "none"
      BY <3>2, <3>3, SessionStep DEF SessionMoves, SameReply, Held
    <3> QED  BY <3>1, <3>2, <3>4 DEF Fresh
  <2> QED  BY <2>1, <2>2
<1> QED  BY <1>1, <1>2 DEF Fresh

-----------------------------------------------------------------------------
(* The sockets.                                                            *)

\* A slot that returns, and one whose socket at most is closed.
Left(b) == pc'[b] = "idle" /\ have'[b] = 0 /\ wire'[b] = <<>> /\ ~up'[b] /\ ~kept'[b]
Closed(b) ==
  /\ pc'[b] = pc[b] /\ have'[b] = have[b] /\ wire'[b] = wire[b]
  /\ \/ up'[b] = up[b] /\ kept'[b] = kept[b]
     \/ pc[b] # "read" /\ ~up'[b] /\ ~kept'[b]

\* Who leaves closes one socket.
LEMMA LeaveLeft ==
  ASSUME NEW a \in Slot, SlotTyped, Leave(a)
  PROVE  \A b \in Slot : Left(b) \/ Closed(b)
<1>1. Left(a)
  BY LeaveFacts DEF Left
<1>2. \A b \in Slot \ {a} : Closed(b)
  BY LeaveFacts DEF Closed
<1> QED  BY <1>1, <1>2

\* Who leaves keeps the sockets in order.
LEMMA LeaveSockets ==
  ASSUME NEW a \in Slot, SlotTyped, Sockets, Leave(a), UNCHANGED <<owner, peer, cmd>>
  PROVE  Sockets'
<1> SUFFICES ASSUME NEW b \in Slot
             PROVE  SocketOK(b)'
  BY DEF Sockets
<1>1. CASE Left(b)
  BY <1>1 DEF Left, Sockets, SocketOK
<1>2. CASE Closed(b)
  BY <1>2 DEF Closed, Sockets, SocketOK
<1> QED  BY <1>1, <1>2, LeaveLeft

\* The end of a session goes to an open socket.
LEMMA EndSockets ==
  ASSUME Types, Sockets, NEW why \in Reason, EndSession(why),
         UNCHANGED <<pc, have, up, peer, cmd, kept>>
  PROVE  Sockets'
<1>1. owner' = owner /\ (owner = None \/ owner \in Slot)
  BY DEF EndSession, Types, SharedTyped
<1>2. \A b \in Slot : wire'[b] = wire[b] \/ (owner = b /\ up[b])
  <2>1. CASE owner = None
    BY <2>1 DEF EndSession
  <2>2. CASE owner \in Slot
    BY <2>2, GenerationAssumption DEF EndSession, Emit, Types, WireTyped
  <2> QED  BY <1>1, <2>1, <2>2
<1> QED  BY <1>1, <1>2 DEF Sockets, SocketOK

\* A frame that is read keeps the sockets in order.
LEMMA ReadSockets ==
  ASSUME NEW a \in Slot, Types, Sockets, Read(a)
  PROVE  Sockets'
<1> DEFINE f == wire[a][1]
<1>1. /\ pc[a] = "read" /\ wire[a] # <<>> /\ f \in Frame
      /\ wire' = [wire EXCEPT ![a] = Tail(@)]
      /\ have' = [have EXCEPT ![a] = IF f.type = "data" THEN have[a] + 1
                                    ELSE IF f.type = "snapshot" THEN f.len ELSE have[a]]
      /\ up' = [up EXCEPT ![a] = ~Refuses(f)] /\ kept' = [kept EXCEPT ![a] = Ends(f)]
      /\ pc' = [pc EXCEPT ![a] = IF Ends(f) \/ f.type = "capacity" THEN "commit"
                                ELSE IF f.type = "notfound" THEN "relist" ELSE "read"]
      /\ UNCHANGED <<peer, cmd, owner>>
  BY ReadFacts DEF Types, helper
<1>2. \A b \in Slot \ {a} : /\ pc'[b] = pc[b] /\ have'[b] = have[b] /\ wire'[b] = wire[b]
                            /\ up'[b] = up[b] /\ kept'[b] = kept[b]
  BY <1>1 DEF Types, SlotTyped, WireTyped
<1>3. pc'[a] \in {"read", "commit", "relist"} /\ up'[a] = ~Refuses(f) /\ kept'[a] = Ends(f)
  BY <1>1 DEF Types, SlotTyped
<1>4. (pc'[a] = "read" => ~Refuses(f)) /\ (Ends(f) => pc'[a] = "commit")
  BY <1>1 DEF Types, SlotTyped, Refuses
<1>5. \A b \in Slot \ {a} : SocketOK(b)'
  BY <1>1, <1>2 DEF Sockets, SocketOK
<1>6. SocketOK(a)'
  BY <1>1, <1>3, <1>4 DEF Sockets, SocketOK
<1> QED  BY <1>5, <1>6 DEF Sockets

\* A session that is dropped closes the socket it owned.
LEMMA DropSockets ==
  ASSUME NEW states, SlotTyped, Sockets, DropSession(states), UNCHANGED cmd,
         \A b \in Slot : Left(b) \/ Closed(b)
  PROVE  Sockets'
<1>1. owner' = owner \/ owner' = None
  BY DEF DropSession
<1>2. \A b \in Slot : peer'[b] <=> peer[b] /\ (owner' = owner \/ b # owner)
  BY DropFacts
<1> SUFFICES ASSUME NEW b \in Slot
             PROVE  SocketOK(b)'
  BY DEF Sockets
<1>3. SocketOK(b)
  BY DEF Sockets
<1>4. ~peer[b] => ~peer'[b]
  BY <1>2
<1>5. owner' = b => owner = b /\ peer'[b]
  BY <1>1, <1>2, <1>3, GenerationAssumption DEF SocketOK
<1>6. cmd[b] # "none" => peer'[b]
  BY <1>2, <1>3 DEF SocketOK
<1>7. CASE Left(b)
  BY <1>3, <1>5, <1>6, <1>7 DEF SocketOK, Left
<1>8. CASE Closed(b)
  BY <1>3, <1>4, <1>5, <1>6, <1>8 DEF SocketOK, Closed
<1> QED  BY <1>7, <1>8

\* The clean-up takes a handoff from an attempt that reads no more.
LEMMA TakenHandoff ==
  ASSUME SlotTyped, Sockets, ReaperSettles
  PROVE  \A c \in Slot : Closed(c)
<1> SUFFICES ASSUME NEW c \in Slot
             PROVE  Closed(c)
  OBVIOUS
<1>1. UNCHANGED <<pc, have, wire>>
  BY DEF ReaperSettles
<1>2. CASE /\ lease # None /\ kept[lease]
           /\ kept' = [kept EXCEPT ![lease] = FALSE] /\ up' = [up EXCEPT ![lease] = FALSE]
  <2>1. kept' = [kept EXCEPT ![lease] = FALSE] /\ up' = [up EXCEPT ![lease] = FALSE]
    BY <1>2
  <2>2. CASE c = lease
    <3>1. ~up'[c] /\ ~kept'[c] /\ pc[c] # "read"
      BY <1>2, <2>1, <2>2 DEF SlotTyped, Sockets, SocketOK
    <3> QED  BY <1>1, <3>1 DEF Closed
  <2>3. CASE c # lease
    <3>1. up'[c] = up[c] /\ kept'[c] = kept[c]
      BY <2>1, <2>3 DEF SlotTyped
    <3> QED  BY <1>1, <3>1 DEF Closed
  <2> QED  BY <2>2, <2>3
<1>3. CASE kept' = kept /\ up' = up
  BY <1>1, <1>3 DEF Closed
<1> QED  BY <1>2, <1>3 DEF ReaperSettles

\* An answer that closes one socket.
LEMMA Elsewhere ==
  ASSUME NEW a \in Slot, SlotTyped,
         cmd' = [cmd EXCEPT ![a] = "none"], peer' = [peer EXCEPT ![a] = FALSE]
  PROVE  \A b \in Slot : a # b => cmd'[b] = cmd[b] /\ peer'[b] = peer[b]
BY DEF SlotTyped

\* The sockets stay in order.
LEMMA SocketStep ==
  ASSUME Types, Life, Past, Sockets, Next
  PROVE  Sockets'
<1> SUFFICES ASSUME NEW b \in Slot
             PROVE  SocketOK(b)'
  BY DEF Sockets
<1> USE GenerationAssumption
    DEF Types, SharedTyped, SlotTyped, Sockets, SocketOK, Enter, Goto, Free, work, sockets, helper
<1>1. ASSUME NEW a \in Slot, Send(a)  PROVE  SocketOK(b)'
  BY <1>1 DEF Send, Enter
<1>2. ASSUME NEW a \in Slot, Recover(a)  PROVE  SocketOK(b)'
  BY <1>2 DEF Recover, Enter
<1>3. ASSUME NEW a \in Slot, SweepLists(a)  PROVE  SocketOK(b)'
  BY <1>3 DEF SweepLists, Enter
<1>4. ASSUME NEW a \in Slot, SweepClaims(a)  PROVE  SocketOK(b)'
  <2>1. CASE Leave(a)
    BY <1>4, <2>1, LeaveSockets DEF SweepClaims
  <2>2. CASE ~Leave(a)
    BY <1>4, <2>2 DEF SweepClaims
  <2> QED  BY <2>1, <2>2
<1>5. ASSUME NEW a \in Slot, ReadMailbox(a)  PROVE  SocketOK(b)'
  BY <1>5 DEF ReadMailbox
<1>6. ASSUME NEW a \in Slot, MailRow(a)  PROVE  SocketOK(b)'
  <2>1. CASE Leave(a)
    BY <1>6, <2>1, LeaveSockets DEF MailRow
  <2>2. CASE ~Leave(a)
    BY <1>6, <2>2 DEF MailRow
  <2> QED  BY <2>1, <2>2
<1>7. ASSUME NEW a \in Slot, MailRemove(a)  PROVE  SocketOK(b)'
  BY <1>7, LeaveSockets DEF MailRemove
<1>8. ASSUME NEW a \in Slot, CheckPending(a)  PROVE  SocketOK(b)'
  <2>1. CASE Leave(a)
    BY <1>8, <2>1, LeaveSockets DEF CheckPending
  <2>2. CASE ~Leave(a)
    BY <1>8, <2>2 DEF CheckPending
  <2> QED  BY <2>1, <2>2
<1>9. ASSUME NEW a \in Slot, Connect(a)  PROVE  SocketOK(b)'
  BY <1>9 DEF Connect
<1>10. ASSUME NEW a \in Slot, Read(a)  PROVE  SocketOK(b)'
  BY <1>10, ReadSockets
<1>11. ASSUME NEW a \in Slot, Broken(a)  PROVE  SocketOK(b)'
  BY <1>11, LeaveSockets DEF Broken
<1>12. ASSUME NEW a \in Slot, CancelSession(a)  PROVE  SocketOK(b)'
  <2>1. CASE Leave(a) /\ UNCHANGED <<helper, peer, cmd>>
    BY <2>1, LeaveSockets
  <2>2. CASE EndSession("cancelled") /\ UNCHANGED <<pc, have, up, peer, cmd, kept>>
    BY <2>2, EndSockets DEF Reason
  <2>3. CASE UNCHANGED <<helper, wire, pc, have, up, peer, cmd, kept>>
    BY <2>3
  <2> QED  BY <1>12, <2>1, <2>2, <2>3 DEF CancelSession
<1>13. ASSUME NEW a \in Slot, Commit(a)  PROVE  SocketOK(b)'
  BY <1>13 DEF Commit, CommitRow
<1>14. ASSUME NEW a \in Slot, CommitTooLate(a)  PROVE  SocketOK(b)'
  BY <1>14 DEF CommitTooLate
<1>15. ASSUME NEW a \in Slot, Settle(a)  PROVE  SocketOK(b)'
  <2>1. Leave(a) /\ UNCHANGED cmd
    BY <1>15 DEF Settle
  <2>2. CASE UNCHANGED <<helper, peer>>
    BY <2>1, <2>2, LeaveSockets
  <2>3. CASE \E states : DropSession(states)
    <3>1. \A c \in Slot : Left(c) \/ Closed(c)
      BY <2>1, LeaveLeft
    <3> QED  BY <2>1, <2>3, <3>1, DropSockets
  <2> QED  BY <1>15, <2>2, <2>3 DEF Settle
<1>16. ASSUME NEW a \in Slot, HelperStart(a)  PROVE  SocketOK(b)'
  <2>1. /\ up[a] \/ wire'[a] = wire[a]
        /\ \A c \in Slot \ {a} : wire'[c] = wire[c]
    BY <1>16, FramesSent, EmitFacts DEF HelperStart
  <2>2. UNCHANGED <<pc, have, up, kept>> /\ cmd[a] = "start" /\ cmd' = [cmd EXCEPT ![a] = "none"]
    BY <1>16 DEF HelperStart
  <2>3. CASE owner' = a /\ peer' = peer
    <3>1. peer[a] /\ pc[a] \in {"idle", "read"} /\ (pc[a] = "idle" => ~up[a])
      BY <2>2
    <3> QED  BY <2>1, <2>2, <2>3, <3>1
  <2>4. CASE owner' = owner /\ peer' = [peer EXCEPT ![a] = FALSE]
    <3>1. owner' # a /\ cmd'[a] = "none" /\ pc[a] \in {"idle", "read"} /\ (pc[a] = "idle" => ~up[a])
      BY <2>2, <2>4
    <3>2. CASE a = b
      BY <2>1, <2>2, <2>4, <3>1, <3>2
    <3>3. CASE a # b
      <4>1. cmd'[b] = cmd[b] /\ peer'[b] = peer[b] /\ wire'[b] = wire[b] /\ owner' = owner
        BY <2>1, <2>2, <2>4, <3>3, Elsewhere
      <4> QED  BY <2>2, <4>1
    <3> QED  BY <3>2, <3>3
  <2> QED  BY <1>16, <2>3, <2>4 DEF HelperStart
<1>17. ASSUME NEW a \in Slot, HelperResume(a)  PROVE  SocketOK(b)'
  <2>1. PICK why \in Reason \cup {"none"} : Emit(a, [type |-> "snapshot", len |-> got, why |-> why])
    BY <1>17, SnapshotWhy
  <2>2. /\ up[a] \/ wire'[a] = wire[a]
        /\ \A c \in Slot \ {a} : wire'[c] = wire[c]
    BY <2>1, FramesSent, EmitFacts
  <2>3. /\ UNCHANGED <<pc, have, up, kept>> /\ cmd[a] = "resume" /\ cmd' = [cmd EXCEPT ![a] = "none"]
        /\ owner' = a /\ peer' = [c \in Slot |-> peer[c] /\ (c # owner \/ c = a)]
    BY <1>17 DEF HelperResume
  <2> QED  BY <2>2, <2>3
<1>18. ASSUME NEW a \in Slot, HelperDenies(a)  PROVE  SocketOK(b)'
  <2>1. /\ up[a] \/ wire'[a] = wire[a]
        /\ \A c \in Slot \ {a} : wire'[c] = wire[c]
    BY <1>18, FramesSent, EmitFacts DEF HelperDenies
  <2>2. /\ UNCHANGED <<pc, have, up, kept, owner>> /\ cmd[a] = "resume" /\ cmd' = [cmd EXCEPT ![a] = "none"]
        /\ peer' = [peer EXCEPT ![a] = FALSE]
    BY <1>18 DEF HelperDenies
  <2>3. owner' # a /\ cmd'[a] = "none" /\ pc[a] \in {"idle", "read"} /\ (pc[a] = "idle" => ~up[a])
    BY <2>2
  <2>4. CASE a = b
    BY <2>1, <2>2, <2>3, <2>4
  <2>5. CASE a # b
    <3>1. cmd'[b] = cmd[b] /\ peer'[b] = peer[b] /\ wire'[b] = wire[b] /\ owner' = owner
      BY <2>1, <2>2, <2>5, Elsewhere
    <3> QED  BY <2>2, <3>1
  <2> QED  BY <2>4, <2>5
<1>19. ASSUME NEW a \in Slot, HelperNotices(a)  PROVE  SocketOK(b)'
  BY <1>19 DEF HelperNotices, Detach
<1>20. ASSUME NEW a \in Slot, ConnectFails(a)  PROVE  SocketOK(b)'
  BY <1>20, LeaveSockets DEF ConnectFails
<1>21. ASSUME NEW a \in Slot, NoSlot(a)  PROVE  SocketOK(b)'
  <2>1. CASE Leave(a)
    BY <1>21, <2>1, LeaveSockets DEF NoSlot
  <2>2. CASE ~Leave(a)
    BY <1>21, <2>2 DEF NoSlot
  <2> QED  BY <2>1, <2>2
<1>22. ASSUME NEW a \in Slot, CancelTimesOut(a)  PROVE  SocketOK(b)'
  BY <1>22, LeaveSockets DEF CancelTimesOut
<1>23. ASSUME NEW a \in Slot, CommitFails(a)  PROVE  SocketOK(b)'
  BY <1>23, LeaveSockets DEF CommitFails
<1>24. ASSUME NEW a \in Slot, Stall(a)  PROVE  SocketOK(b)'
  BY <1>24, StallFacts DEF Stall, Detach
<1>25. ASSUME Interrupt  PROVE  SocketOK(b)'
  BY <1>25 DEF Interrupt
<1>26. ASSUME Delete  PROVE  SocketOK(b)'
  BY <1>26 DEF Delete
<1>27. ASSUME ReaperQueries  PROVE  SocketOK(b)'
  BY <1>27 DEF ReaperQueries
<1>28. ASSUME ReaperSettles  PROVE  SocketOK(b)'
  <2>1. \A c \in Slot : Closed(c)
    BY <1>28, TakenHandoff
  <2>2. CASE UNCHANGED <<owner, peer>>
    BY <1>28, <2>1, <2>2 DEF ReaperSettles, Closed
  <2>3. CASE \E states : DropSession(states)
    BY <1>28, <2>1, <2>3, DropSockets DEF ReaperSettles
  <2> QED  BY <1>28, <2>2, <2>3 DEF ReaperSettles
<1>29. ASSUME ReaperDiscards  PROVE  SocketOK(b)'
  <2>1. UNCHANGED <<pc, have, wire, cmd, up, kept>>
    BY <1>29 DEF ReaperDiscards
  <2>2. CASE UNCHANGED <<helper, peer>>
    BY <2>1, <2>2
  <2>3. CASE \E states : DropSession(states)
    <3>1. \A c \in Slot : Closed(c)
      BY <2>1 DEF Closed
    <3> QED  BY <2>1, <2>3, <3>1, DropSockets
  <2> QED  BY <1>29, <2>2, <2>3 DEF ReaperDiscards
<1>30. ASSUME ReaperRemovesFiles  PROVE  SocketOK(b)'
  BY <1>30 DEF ReaperRemovesFiles
<1>31. ASSUME Upstream  PROVE  SocketOK(b)'
  <2>1. owner = None \/ owner \in Slot
    OBVIOUS
  <2>2. wire'[b] = wire[b] \/ (owner = b /\ up[b])
    BY <1>31, <2>1, FramesSent, EmitFacts DEF Upstream
  <2> QED  BY <1>31, <2>2 DEF Upstream
<1>32. ASSUME UpstreamEnds  PROVE  SocketOK(b)'
  BY <1>32, EndSockets DEF UpstreamEnds, Reason
<1>33. ASSUME Publish  PROVE  SocketOK(b)'
  BY <1>33 DEF Publish
<1>34. ASSUME MainCrash  PROVE  SocketOK(b)'
  BY <1>34, ReturnFacts, Slot \in SUBSET Slot DEF MainCrash
<1>35. ASSUME HelperDies  PROVE  SocketOK(b)'
  BY <1>35 DEF HelperDies
<1> QED
  BY <1>1, <1>2, <1>3, <1>4, <1>5, <1>6, <1>7, <1>8, <1>9, <1>10, <1>11, <1>12, <1>13,
     <1>14, <1>15, <1>16, <1>17, <1>18, <1>19, <1>20, <1>21, <1>22, <1>23, <1>24, <1>25,
     <1>26, <1>27, <1>28, <1>29, <1>30, <1>31, <1>32, <1>33, <1>34, <1>35
  DEF Next, MainStep, HelperStep, Reaper, Faulty

-----------------------------------------------------------------------------
(* Conversations.                                                          *)

\* A conversation says nothing about an end that is still to come.
LEMMA TalkGoesOn ==
  ASSUME NEW w \in Seq(Frame), NEW h \in Nat, NEW e, NEW e2,
         Conversation(w, h, e), e # None => e2 = e
  PROVE  Conversation(w, h, e2)
BY DEF Conversation, Ends

\* Nothing said is a conversation.
LEMMA NoTalk ==
  ASSUME NEW h \in Nat, NEW e
  PROVE  Conversation(<<>>, h, e)
BY DEF Conversation

\* What the helper answers first.
LEMMA FirstFrame ==
  ASSUME NEW f \in Frame, NEW h \in Nat, NEW g \in Nat, NEW e,
         f.type \notin {"data", "terminal"},
         Ends(f) => e # None /\ f.why = e.why /\ e.len = f.len
  PROVE  /\ Conversation(Append(<<>>, f), h, e)
         /\ f.type = "started" /\ h = g => Complete(Append(<<>>, f), h, g)
         /\ f.type = "snapshot" /\ f.why = "none" /\ f.len = g => Complete(Append(<<>>, f), h, g)
<1> DEFINE w == Append(<<>>, f)
<1>1. Len(w) = 1 /\ w[1] = f /\ w # <<>>
  OBVIOUS
<1> HIDE DEF w
<1>2. Conversation(w, h, e)
  BY <1>1 DEF Conversation, Ends
<1>3. f.type = "started" /\ h = g => Complete(w, h, g)
  BY <1>1 DEF Complete, TextAt, Begun, Openings, Opens, Ends, Refuses
<1>4. f.type = "snapshot" /\ f.why = "none" /\ f.len = g => Complete(w, h, g)
  BY <1>1 DEF Complete, TextAt, Begun, Openings, Opens, Ends, Refuses
<1> QED  BY <1>2, <1>3, <1>4 DEF w

\* What is sent next leaves the text of what was sent before as it is.
LEMMA NextFrame ==
  ASSUME NEW w \in Seq(Frame), NEW h \in Nat, NEW f \in Frame
  PROVE  LET v == Append(w, f) IN
         /\ v \in Seq(Frame) /\ Len(v) = Len(w) + 1 /\ v[Len(v)] = f
         /\ \A i \in 1 .. Len(w) : v[i] = w[i]
         /\ w # <<>> => \A i \in Nat : TextAt(v, h, i) = TextAt(w, h, i)
<1> DEFINE v == Append(w, f)
<1>1. v \in Seq(Frame) /\ Len(v) = Len(w) + 1 /\ v[Len(v)] = f /\ \A i \in 1 .. Len(w) : v[i] = w[i]
  OBVIOUS
<1>2. ASSUME w # <<>>  PROVE  v # <<>> /\ v[1] = w[1]
  BY <1>1, <1>2
<1> HIDE DEF v
<1>3. w # <<>> => \A i \in Nat : TextAt(v, h, i) = TextAt(w, h, i)
  BY <1>2 DEF TextAt, Begun, Openings
<1> QED  BY <1>1, <1>3 DEF v

\* Data that is sent keeps the text complete.
LEMMA DataFrame ==
  ASSUME NEW w \in Seq(Frame), NEW h \in Nat, NEW g \in Nat, NEW e, NEW f \in Frame,
         Conversation(w, h, e), Complete(w, h, g), f.type = "data"
  PROVE  Conversation(Append(w, f), h, e) /\ Complete(Append(w, f), h, g + 1)
<1> DEFINE v == Append(w, f)
<1>1. /\ v \in Seq(Frame) /\ Len(v) = Len(w) + 1 /\ v[Len(v)] = f
      /\ \A i \in 1 .. Len(w) : v[i] = w[i]
      /\ w # <<>> => \A i \in Nat : TextAt(v, h, i) = TextAt(w, h, i)
  BY NextFrame
<1> HIDE DEF v
<1>2. ~Opens(f) /\ ~Ends(f) /\ ~Refuses(f)
  BY DEF Opens, Ends, Refuses
<1>3. \A i \in 1 .. Len(v) : ~Ends(v[i]) /\ ~Refuses(v[i])
  BY <1>1, <1>2 DEF Complete
<1>4. \A i \in 1 .. Len(v) : Opens(v[i]) => i = 1
  BY <1>1, <1>2 DEF Conversation
<1>5. Conversation(v, h, e)
  BY <1>3, <1>4 DEF Conversation, Ends
<1>6. TextAt(v, h, Len(v)) = g + 1
  <2>1. CASE w = <<>>
    BY <1>1, <1>2, <2>1 DEF Complete, TextAt, Begun, Openings
  <2>2. CASE w # <<>>
    <3>1. TextAt(v, h, Len(w)) = g
      BY <1>1, <2>2 DEF Complete
    <3>2. Begun(v, h) + Len(w) - Openings(v) = g
      BY <3>1 DEF TextAt
    <3>3. Openings(v) \in Nat /\ Begun(v, h) \in Int
      <4>1. v # <<>> => v[1] \in Frame
        BY <1>1
      <4> QED  BY <4>1, FrameFacts, GenerationAssumption DEF Openings, Begun
    <3> QED  BY <1>1, <3>2, <3>3 DEF TextAt
  <2> QED  BY <2>1, <2>2
<1> QED  BY <1>3, <1>5, <1>6 DEF v, Complete

\* The end that is sent ends the text that was sent.
LEMMA LastFrame ==
  ASSUME NEW w \in Seq(Frame), NEW h \in Nat, NEW g \in Nat, NEW e, NEW e2, NEW f \in Frame,
         Conversation(w, h, e), Complete(w, h, g), f.type = "terminal",
         e2 # None, f.why = e2.why, e2.len = g
  PROVE  Conversation(Append(w, f), h, e2)
<1> DEFINE v == Append(w, f)
<1>1. /\ v \in Seq(Frame) /\ Len(v) = Len(w) + 1 /\ v[Len(v)] = f
      /\ \A i \in 1 .. Len(w) : v[i] = w[i]
      /\ w # <<>> => \A i \in Nat : TextAt(v, h, i) = TextAt(w, h, i)
  BY NextFrame
<1> HIDE DEF v
<1>2. ~Opens(f) /\ Ends(f) /\ ~Refuses(f)
  BY DEF Opens, Ends, Refuses
<1>3. \A i \in 1 .. Len(v) : i # Len(v) => ~Ends(v[i]) /\ ~Refuses(v[i])
  BY <1>1, <1>2 DEF Complete
<1>4. \A i \in 1 .. Len(v) : Opens(v[i]) => i = 1
  BY <1>1, <1>2 DEF Conversation
<1>5. TextAt(v, h, Len(w)) = g
  <2>1. CASE w = <<>>
    BY <1>1, <1>2, <2>1 DEF Complete, TextAt, Begun, Openings
  <2>2. CASE w # <<>>
    BY <1>1, <2>2 DEF Complete
  <2> QED  BY <2>1, <2>2
<1>6. \A i \in 1 .. Len(v) :
        /\ Ends(v[i]) => v[i] = f
        /\ v[i].type = "terminal" => i = Len(v)
        /\ ~(v[i].type = "snapshot" /\ v[i].why # "none")
  BY <1>1, <1>2, <1>3 DEF Ends
<1>7. Conversation(v, h, e2)
  BY <1>1, <1>2, <1>3, <1>4, <1>5, <1>6 DEF Conversation
<1> QED  BY <1>7 DEF v

\* A prefix of a conversation is one.
LEMMA CutOff ==
  ASSUME NEW w \in Seq(Frame), NEW h \in Nat, NEW e, NEW k \in 0 .. Len(w), Conversation(w, h, e)
  PROVE  /\ Conversation(SubSeq(w, 1, k), h, e)
         /\ \A i \in 1 .. Len(SubSeq(w, 1, k)) : i \in 1 .. Len(w) /\ SubSeq(w, 1, k)[i] = w[i]
<1> DEFINE v == SubSeq(w, 1, k)
<1>1. v \in Seq(Frame) /\ Len(v) = k /\ \A i \in 1 .. k : v[i] = w[i]
  BY SubSeqProperties
<1> HIDE DEF v
<1>2. \A i \in 1 .. Len(v) : i \in 1 .. Len(w) /\ v[i] = w[i]
  BY <1>1
<1>3. v # <<>> => w # <<>> /\ v[1] = w[1]
  BY <1>1
<1>4. \A i \in 1 .. Len(v) : TextAt(v, h, i - 1) = TextAt(w, h, i - 1)
  BY <1>1, <1>3 DEF TextAt, Begun, Openings
<1>5. Conversation(v, h, e)
  BY <1>1, <1>2, <1>4 DEF Conversation
<1> QED  BY <1>2, <1>5 DEF v

\* What is left of a conversation after its next frame.
LEMMA RestOfTalk ==
  ASSUME NEW w \in Seq(Frame), NEW h \in Nat, NEW e, w # <<>>, Conversation(w, h, e),
         ~Ends(w[1]), ~Refuses(w[1])
  PROVE  LET n == IF w[1].type = "data" THEN h + 1 ELSE IF w[1].type = "snapshot" THEN w[1].len ELSE h
         IN  /\ Conversation(Tail(w), n, e)
             /\ \A g : Complete(w, h, g) => Complete(Tail(w), n, g)
             /\ \A i \in 1 .. Len(Tail(w)) : i + 1 \in 1 .. Len(w) /\ Tail(w)[i] = w[i + 1]
<1> DEFINE v == Tail(w)
           n == IF w[1].type = "data" THEN h + 1 ELSE IF w[1].type = "snapshot" THEN w[1].len ELSE h
<1>1. v \in Seq(Frame) /\ Len(w) = Len(v) + 1 /\ \A i \in 1 .. Len(v) : v[i] = w[i + 1]
  BY HeadTailProperties
<1>2. w[1] \in Frame
  OBVIOUS
<1>3. w[1].type \in {"started", "data", "snapshot"}
  BY <1>2, FrameFacts DEF Kinds, Ends, Refuses
<1>4. n \in Nat
  BY <1>2, FrameFacts, GenerationAssumption
<1> HIDE DEF v
<1>5. \A i \in 1 .. Len(v) : i + 1 \in 1 .. Len(w) /\ v[i] = w[i + 1] /\ ~Opens(v[i]) /\ ~Refuses(v[i])
  BY <1>1 DEF Conversation
<1>6. Openings(v) = 0 /\ Begun(v, n) = n
  BY <1>1, <1>5 DEF Openings, Begun, Opens
<1>7. Begun(w, h) + 1 - Openings(w) = n /\ Begun(w, h) \in Nat /\ Openings(w) \in Nat
  BY <1>2, <1>3, FrameFacts, GenerationAssumption DEF Begun, Openings, Opens
<1> HIDE DEF n
<1>8. \A i \in Nat : TextAt(v, n, i) = TextAt(w, h, i + 1)
  BY <1>4, <1>6, <1>7 DEF TextAt
<1>9. Conversation(v, n, e)
  <2>1. \A i \in 1 .. Len(v) : Ends(v[i]) => i = Len(v)
    BY <1>1, <1>5 DEF Conversation
  <2>2. \A i \in 1 .. Len(v) : TextAt(v, n, i - 1) = TextAt(w, h, (i + 1) - 1)
    <3> SUFFICES ASSUME NEW i \in 1 .. Len(v)
                 PROVE  TextAt(v, n, i - 1) = TextAt(w, h, (i + 1) - 1)
      OBVIOUS
    <3>1. i - 1 \in Nat /\ (i - 1) + 1 = (i + 1) - 1
      BY <1>1
    <3> QED  BY <1>8, <3>1
  <2>3. \A i \in 1 .. Len(v) :
          /\ Ends(v[i]) => e # None /\ v[i].why = e.why
          /\ v[i].type = "terminal" => e.len = TextAt(v, n, i - 1)
          /\ v[i].type = "snapshot" /\ v[i].why # "none" => e.len = v[i].len
    BY <1>5, <2>2 DEF Conversation
  <2> QED  BY <1>5, <2>1, <2>3 DEF Conversation
<1>10. ASSUME NEW g, Complete(w, h, g)  PROVE  Complete(v, n, g)
  <2>1. TextAt(v, n, Len(v)) = TextAt(w, h, Len(w))
    BY <1>1, <1>8
  <2>2. \A i \in 1 .. Len(v) : ~Ends(v[i]) /\ ~Refuses(v[i])
    BY <1>5, <1>10 DEF Complete
  <2> QED  BY <1>10, <2>1, <2>2 DEF Complete
<1> QED  BY <1>5, <1>9, <1>10 DEF v, n

\* An attempt that reads the end has the reply as it ended.
LEMMA EndOfTalk ==
  ASSUME NEW w \in Seq(Frame), NEW h \in Nat, NEW e, w # <<>>, Conversation(w, h, e), Ends(w[1])
  PROVE  /\ e # None /\ w[1].why = e.why
         /\ e.len = IF w[1].type = "snapshot" THEN w[1].len ELSE h
<1>1. 1 \in 1 .. Len(w)
  OBVIOUS
<1>2. TextAt(w, h, 1 - 1) = h \/ w[1].type # "terminal"
  BY DEF TextAt, Begun, Openings, Opens
<1> QED  BY <1>1, <1>2 DEF Conversation, Ends

-----------------------------------------------------------------------------
(* What is on the wires.                                                   *)

\* Nothing happens to the wire of a slot that reads.
Quiet(b) ==
  /\ pc'[b] = "read" => pc[b] = "read" /\ wire'[b] = wire[b] /\ have'[b] = have[b]
  /\ pc'[b] = "read" /\ owner' = b /\ session' = "live" => owner = b /\ session = "live" /\ got' = got

EndsFor(b) ==
  /\ owner = b /\ session = "live" /\ \E why \in Reason : EndSession(why)
  /\ UNCHANGED <<pc, have>>

WireMove(b) ==
  \/ Quiet(b)
  \/ Connect(b) \/ Read(b) \/ Stall(b)
  \/ HelperStart(b) \/ HelperResume(b) \/ HelperDenies(b)
  \/ owner = b /\ Upstream
  \/ EndsFor(b)

\* Who leaves disturbs no other wire.
LEMMA LeaveQuiet ==
  ASSUME NEW a \in Slot, NEW b \in Slot, SlotTyped, Leave(a),
         got' = got, owner' \in {owner, None}, session' \in {session, "gone"}
  PROVE  WireMove(b)
<1>1. pc'[b] = "read" => pc[b] = "read" /\ wire'[b] = wire[b] /\ have'[b] = have[b]
  BY LeaveFacts
<1>2. owner' = b /\ session' = "live" => owner = b /\ session = "live"
  BY GenerationAssumption
<1> QED  BY <1>1, <1>2 DEF Quiet, WireMove

\* The end of a session is told to its owner only.
LEMMA EndMoves ==
  ASSUME NEW b \in Slot, NEW why \in Reason, Types, session = "live", EndSession(why), UNCHANGED <<pc, have>>
  PROVE  WireMove(b)
<1>1. CASE owner = b
  BY <1>1 DEF WireMove, EndsFor
<1>2. CASE owner # b
  <2>1. wire'[b] = wire[b] /\ session' = "done"
    BY <1>2, EndWire, EndFacts DEF Types
  <2> QED  BY <2>1 DEF WireMove, Quiet
<1> QED  BY <1>1, <1>2

\* Each step is quiet for a slot, or one of the few that are not.
LEMMA WireMoves ==
  ASSUME Types, Life, Next, NEW b \in Slot
  PROVE  WireMove(b)
<1> USE GenerationAssumption
    DEF Types, SharedTyped, SlotTyped, WireTyped, WireMove, Enter, Goto, Free, work, sockets, helper,
        Detach
<1>1. ASSUME NEW a \in Slot, Send(a)  PROVE  WireMove(b)
  BY <1>1 DEF Send, Enter, Quiet
<1>2. ASSUME NEW a \in Slot, Recover(a)  PROVE  WireMove(b)
  BY <1>2 DEF Recover, Enter, Quiet
<1>3. ASSUME NEW a \in Slot, SweepLists(a)  PROVE  WireMove(b)
  BY <1>3 DEF SweepLists, Enter, Quiet
<1>4. ASSUME NEW a \in Slot, SweepClaims(a)  PROVE  WireMove(b)
  <2>1. CASE Leave(a)
    BY <1>4, <2>1, LeaveQuiet DEF SweepClaims
  <2>2. CASE ~Leave(a)
    BY <1>4, <2>2 DEF SweepClaims, Quiet
  <2> QED  BY <2>1, <2>2
<1>5. ASSUME NEW a \in Slot, ReadMailbox(a)  PROVE  WireMove(b)
  BY <1>5 DEF ReadMailbox, Quiet
<1>6. ASSUME NEW a \in Slot, MailRow(a)  PROVE  WireMove(b)
  <2>1. CASE Leave(a)
    BY <1>6, <2>1, LeaveQuiet DEF MailRow
  <2>2. CASE ~Leave(a)
    BY <1>6, <2>2 DEF MailRow, Quiet
  <2> QED  BY <2>1, <2>2
<1>7. ASSUME NEW a \in Slot, MailRemove(a)  PROVE  WireMove(b)
  BY <1>7, LeaveQuiet DEF MailRemove
<1>8. ASSUME NEW a \in Slot, CheckPending(a)  PROVE  WireMove(b)
  <2>1. CASE Leave(a)
    BY <1>8, <2>1, LeaveQuiet DEF CheckPending
  <2>2. CASE ~Leave(a)
    BY <1>8, <2>2 DEF CheckPending, Quiet
  <2> QED  BY <2>1, <2>2
<1>9. ASSUME NEW a \in Slot, Connect(a)  PROVE  WireMove(b)
  <2>1. CASE a = b
    BY <1>9, <2>1
  <2>2. CASE a # b
    BY <1>9, <2>2 DEF Connect, Quiet
  <2> QED  BY <2>1, <2>2
<1>10. ASSUME NEW a \in Slot, Read(a)  PROVE  WireMove(b)
  <2>1. CASE a = b
    BY <1>10, <2>1
  <2>2. CASE a # b
    <3>1. /\ pc' = [pc EXCEPT ![a] = pc'[a]] /\ wire' = [wire EXCEPT ![a] = Tail(@)]
          /\ have' = [have EXCEPT ![a] = have'[a]] /\ UNCHANGED helper
      BY <1>10 DEF Read
    <3> QED  BY <2>2, <3>1 DEF Quiet
  <2> QED  BY <2>1, <2>2
<1>11. ASSUME NEW a \in Slot, Broken(a)  PROVE  WireMove(b)
  BY <1>11, LeaveQuiet DEF Broken
<1>12. ASSUME NEW a \in Slot, CancelSession(a)  PROVE  WireMove(b)
  <2>1. CASE Leave(a) /\ UNCHANGED helper
    BY <2>1, LeaveQuiet
  <2>2. CASE session = "live" /\ EndSession("cancelled") /\ UNCHANGED <<pc, have>>
    BY <2>2, EndMoves DEF Reason
  <2>3. CASE UNCHANGED <<helper, wire, pc, have>>
    BY <2>3 DEF Quiet
  <2> QED  BY <1>12, <2>1, <2>2, <2>3 DEF CancelSession
<1>13. ASSUME NEW a \in Slot, Commit(a)  PROVE  WireMove(b)
  BY <1>13 DEF Commit, CommitRow, Quiet
<1>14. ASSUME NEW a \in Slot, CommitTooLate(a)  PROVE  WireMove(b)
  BY <1>14 DEF CommitTooLate, Quiet
<1>15. ASSUME NEW a \in Slot, Settle(a)  PROVE  WireMove(b)
  <2>1. got' = got /\ owner' \in {owner, None} /\ session' \in {session, "gone"}
    BY <1>15 DEF Settle, DropSession
  <2> QED  BY <1>15, <2>1, LeaveQuiet DEF Settle
<1>16. ASSUME NEW a \in Slot, HelperStart(a)  PROVE  WireMove(b)
  <2>1. CASE a = b
    BY <1>16, <2>1
  <2>2. CASE a # b
    <3>1. \E f \in Frame : Emit(a, f)
      BY <1>16, FramesSent DEF HelperStart
    <3>2. \A c \in Slot \ {a} : wire'[c] = wire[c]
      BY <3>1, EmitFacts
    <3>3. UNCHANGED <<pc, have, got>> /\ (owner' = a \/ (owner' = owner /\ session' \in {session, "gone"}))
      BY <1>16 DEF HelperStart
    <3> QED  BY <2>2, <3>2, <3>3 DEF Quiet
  <2> QED  BY <2>1, <2>2
<1>17. ASSUME NEW a \in Slot, HelperResume(a)  PROVE  WireMove(b)
  <2>1. CASE a = b
    BY <1>17, <2>1
  <2>2. CASE a # b
    <3>1. \E f \in Frame : Emit(a, f)
      BY <1>17, SnapshotWhy, FramesSent
    <3>2. \A c \in Slot \ {a} : wire'[c] = wire[c]
      BY <3>1, EmitFacts
    <3>3. UNCHANGED <<pc, have, got>> /\ owner' = a
      BY <1>17 DEF HelperResume
    <3> QED  BY <2>2, <3>2, <3>3 DEF Quiet
  <2> QED  BY <2>1, <2>2
<1>18. ASSUME NEW a \in Slot, HelperDenies(a)  PROVE  WireMove(b)
  <2>1. CASE a = b
    BY <1>18, <2>1
  <2>2. CASE a # b
    <3>1. \E f \in Frame : Emit(a, f)
      BY <1>18, FramesSent DEF HelperDenies
    <3>2. \A c \in Slot \ {a} : wire'[c] = wire[c]
      BY <3>1, EmitFacts
    <3>3. UNCHANGED <<pc, have, got, owner, session>>
      BY <1>18 DEF HelperDenies
    <3> QED  BY <2>2, <3>2, <3>3 DEF Quiet
  <2> QED  BY <2>1, <2>2
<1>19. ASSUME NEW a \in Slot, HelperNotices(a)  PROVE  WireMove(b)
  BY <1>19 DEF HelperNotices, Quiet
<1>20. ASSUME NEW a \in Slot, ConnectFails(a)  PROVE  WireMove(b)
  BY <1>20, LeaveQuiet DEF ConnectFails
<1>21. ASSUME NEW a \in Slot, NoSlot(a)  PROVE  WireMove(b)
  <2>1. CASE Leave(a)
    BY <1>21, <2>1, LeaveQuiet DEF NoSlot
  <2>2. CASE ~Leave(a)
    BY <1>21, <2>2 DEF NoSlot, Quiet
  <2> QED  BY <2>1, <2>2
<1>22. ASSUME NEW a \in Slot, CancelTimesOut(a)  PROVE  WireMove(b)
  BY <1>22, LeaveQuiet DEF CancelTimesOut
<1>23. ASSUME NEW a \in Slot, CommitFails(a)  PROVE  WireMove(b)
  BY <1>23, LeaveQuiet DEF CommitFails
<1>24. ASSUME NEW a \in Slot, Stall(a)  PROVE  WireMove(b)
  <2>1. CASE a = b
    BY <1>24, <2>1
  <2>2. CASE a # b
    BY <1>24, <2>2, StallFacts DEF Stall, Quiet
  <2> QED  BY <2>1, <2>2
<1>25. ASSUME Interrupt  PROVE  WireMove(b)
  BY <1>25 DEF Interrupt, Quiet
<1>26. ASSUME Delete  PROVE  WireMove(b)
  BY <1>26 DEF Delete, Quiet
<1>27. ASSUME ReaperQueries  PROVE  WireMove(b)
  BY <1>27 DEF ReaperQueries, Quiet
<1>28. ASSUME ReaperSettles  PROVE  WireMove(b)
  <2>1. got' = got /\ owner' \in {owner, None} /\ session' \in {session, "gone"}
    BY <1>28 DEF ReaperSettles, DropSession
  <2> QED  BY <1>28, <2>1 DEF ReaperSettles, Quiet
<1>29. ASSUME ReaperDiscards  PROVE  WireMove(b)
  <2>1. got' = got /\ owner' \in {owner, None} /\ session' \in {session, "gone"}
    BY <1>29 DEF ReaperDiscards, DropSession
  <2> QED  BY <1>29, <2>1 DEF ReaperDiscards, Quiet
<1>30. ASSUME ReaperRemovesFiles  PROVE  WireMove(b)
  BY <1>30 DEF ReaperRemovesFiles, Quiet
<1>31. ASSUME Upstream  PROVE  WireMove(b)
  <2>1. CASE owner = b
    BY <1>31, <2>1
  <2>2. CASE owner # b
    <3>1. wire'[b] = wire[b]
      <4>1. owner = None \/ owner \in Slot
        OBVIOUS
      <4> QED  BY <1>31, <2>2, <4>1, FramesSent, EmitFacts DEF Upstream
    <3>2. UNCHANGED <<pc, have, owner>>
      BY <1>31 DEF Upstream
    <3> QED  BY <2>2, <3>1, <3>2 DEF Quiet
  <2> QED  BY <2>1, <2>2
<1>32. ASSUME UpstreamEnds  PROVE  WireMove(b)
  <2>1. PICK why \in {"completed", "error"} : EndSession(why)
    BY <1>32 DEF UpstreamEnds
  <2> QED  BY <1>32, <2>1, EndMoves DEF UpstreamEnds, Reason
<1>33. ASSUME Publish  PROVE  WireMove(b)
  BY <1>33 DEF Publish, Quiet
<1>34. ASSUME MainCrash  PROVE  WireMove(b)
  BY <1>34, ReturnFacts, Slot \in SUBSET Slot DEF MainCrash, Quiet
<1>35. ASSUME HelperDies  PROVE  WireMove(b)
  BY <1>35 DEF HelperDies, Quiet
<1> QED
  BY <1>1, <1>2, <1>3, <1>4, <1>5, <1>6, <1>7, <1>8, <1>9, <1>10, <1>11, <1>12, <1>13,
     <1>14, <1>15, <1>16, <1>17, <1>18, <1>19, <1>20, <1>21, <1>22, <1>23, <1>24, <1>25,
     <1>26, <1>27, <1>28, <1>29, <1>30, <1>31, <1>32, <1>33, <1>34, <1>35
  DEF Next, MainStep, HelperStep, Reaper, Faulty

\* The conversation of every attempt goes on.
LEMMA WireStep ==
  ASSUME Types, Life, Unsent, Past, Fresh, Sockets, Wires, Next
  PROVE  Wires'
<1> SUFFICES ASSUME NEW b \in Slot, pc'[b] = "read"
             PROVE  /\ Conversation(wire'[b], have'[b], ended')
                    /\ owner' = b /\ session' = "live" => Complete(wire'[b], have'[b], got')
                    /\ \A i \in 1 .. Len(wire'[b]) : wire'[b][i].type = "notfound" => Away'
  BY DEF Wires, WireOK
<1>1. /\ wire[b] \in Seq(Frame) /\ have[b] \in Nat /\ got \in Nat /\ b # None
      /\ wire'[b] \in Seq(Frame) /\ have'[b] \in Nat /\ got' \in Nat
  <2>1. wire[b] \in Seq(Frame) /\ have[b] \in Nat /\ got \in Nat /\ b # None
    BY GenerationAssumption DEF Types, SharedTyped, SlotTyped, WireTyped
  <2>2. SharedTyped' /\ SlotTyped' /\ WireTyped'
    BY SharedTypes, SlotTypes, WireTypes
  <2>3. wire'[b] \in Seq(Frame) /\ have'[b] \in Nat /\ got' \in Nat
    BY <2>2, GenerationAssumption DEF SharedTyped, SlotTyped, WireTyped
  <2> QED  BY <2>1, <2>3
<1>2. (ended # None => ended' = ended) /\ (Away => Away')
  BY NeverBack
<1>3. /\ SocketOK(b)
      /\ pc[b] = "read" => /\ Conversation(wire[b], have[b], ended)
                           /\ Conversation(wire[b], have[b], ended')
                           /\ owner = b /\ session = "live" => Complete(wire[b], have[b], got)
                           /\ \A i \in 1 .. Len(wire[b]) : wire[b][i].type = "notfound" => Away'
  BY <1>1, <1>2, TalkGoesOn DEF Sockets, Wires, WireOK
<1>4. CASE Quiet(b)
  BY <1>3, <1>4 DEF Quiet
<1>5. CASE Connect(b)
  <2>1. pc[b] = "connect" /\ wire' = wire /\ have' = have /\ owner' = owner
    BY <1>5 DEF Connect, Goto, helper
  <2>2. wire'[b] = <<>> /\ owner' # b
    BY <1>3, <2>1 DEF SocketOK
  <2> QED  BY <1>1, <2>2, NoTalk
<1>6. CASE Read(b)
  <2> DEFINE w == wire[b]
             f == w[1]
             n == IF f.type = "data" THEN have[b] + 1 ELSE IF f.type = "snapshot" THEN f.len ELSE have[b]
  <2>1. pc[b] = "read" /\ w # <<>> /\ wire'[b] = Tail(w) /\ have'[b] = n /\ f \in Frame
    <3>1. /\ pc[b] = "read" /\ w # <<>> /\ f \in Frame
          /\ wire' = [wire EXCEPT ![b] = Tail(@)] /\ have' = [have EXCEPT ![b] = n]
      BY <1>6, ReadFacts DEF Types
    <3> QED  BY <3>1 DEF Types, WireTyped, SlotTyped
  <2>2. pc' = [pc EXCEPT ![b] = IF Ends(f) \/ f.type = "capacity" THEN "commit"
                                ELSE IF f.type = "notfound" THEN "relist" ELSE "read"]
    BY <1>6, ReadFacts DEF Types
  <2>3. ~Ends(f) /\ ~Refuses(f)
    BY <2>2 DEF Types, SlotTyped, Refuses
  <2>4. UNCHANGED <<owner, session, got>>
    BY <1>6 DEF Read, helper
  <2>5. Conversation(w, have[b], ended') /\ w \in Seq(Frame)
    BY <1>1, <1>3, <2>1
  <2>6. /\ Conversation(Tail(w), n, ended')
        /\ \A g : Complete(w, have[b], g) => Complete(Tail(w), n, g)
        /\ \A i \in 1 .. Len(Tail(w)) : i + 1 \in 1 .. Len(w) /\ Tail(w)[i] = w[i + 1]
    BY <1>1, <2>1, <2>3, <2>5, RestOfTalk
  <2> HIDE DEF n, f
  <2>7. owner' = b /\ session' = "live" => Complete(wire'[b], have'[b], got')
    BY <1>3, <2>1, <2>4, <2>6
  <2>8. \A i \in 1 .. Len(wire'[b]) : wire'[b][i].type = "notfound" => Away'
    BY <1>3, <2>1, <2>6
  <2> QED  BY <2>1, <2>6, <2>7, <2>8
<1>7. CASE Stall(b)
  <2>1. PICK k \in 0 .. Len(wire[b]) : wire'[b] = SubSeq(wire[b], 1, k)
    BY <1>7, StallFacts DEF Types
  <2>2. pc[b] = "read" /\ have' = have /\ owner' # b
    BY <1>1, <1>7 DEF Stall, Detach, work
  <2>3. /\ Conversation(SubSeq(wire[b], 1, k), have[b], ended')
        /\ \A i \in 1 .. Len(SubSeq(wire[b], 1, k)) :
             i \in 1 .. Len(wire[b]) /\ SubSeq(wire[b], 1, k)[i] = wire[b][i]
    BY <1>1, <1>3, <2>2, CutOff
  <2> QED  BY <1>3, <2>1, <2>2, <2>3
<1>8. CASE HelperStart(b)
  <2>1. /\ pc[b] = "read" /\ wire[b] = <<>> /\ have[b] = 0 /\ up[b] /\ cmd[b] = "start"
        /\ owner # b /\ have' = have
    BY <1>3, <1>8 DEF HelperStart, SocketOK, work
  <2>2. session = "none" /\ got = 0 /\ got' = got
    BY <1>8, <2>1 DEF Fresh, Starting, Life, HelperStart
  <2>3. PICK f \in Frame :
          /\ wire'[b] = Append(<<>>, f)
          /\ f.type \in {"started", "capacity"}
          /\ owner' = b => f.type = "started"
    <3>1. PICK t \in {"started", "capacity"} : Emit(b, [type |-> t]) /\ (owner' = b => t = "started")
      BY <1>8, <2>1 DEF HelperStart
    <3>2. [type |-> t] \in Frame
      BY <3>1, FramesSent DEF Types
    <3>3. wire'[b] = Append(<<>>, [type |-> t])
      BY <2>1, <3>1, <3>2, EmitFacts DEF Types
    <3> QED  BY <3>1, <3>2, <3>3
  <2>4. ~Ends(f)
    BY <2>3 DEF Ends
  <2>5. Conversation(wire'[b], have'[b], ended') /\ (f.type = "started" => Complete(wire'[b], have'[b], got'))
    BY <1>1, <2>1, <2>2, <2>3, <2>4, FirstFrame
  <2>6. \A i \in 1 .. Len(wire'[b]) : wire'[b][i] = f
    BY <2>3
  <2> QED  BY <2>3, <2>5, <2>6
<1>9. CASE HelperResume(b)
  <2>1. /\ pc[b] = "read" /\ wire[b] = <<>> /\ have[b] = 0 /\ up[b] /\ cmd[b] = "resume"
        /\ have' = have /\ UNCHANGED <<got, session, ended>> /\ session \in {"live", "done"}
    BY <1>3, <1>9 DEF HelperResume, SocketOK, Held, work
  <2>2. PICK why \in Reason \cup {"none"} :
          /\ Emit(b, [type |-> "snapshot", len |-> got, why |-> why])
          /\ session = "live" => why = "none"
          /\ session = "done" => ended # None /\ why = ended.why
    BY <1>9, SnapshotWhy DEF Types
  <2> DEFINE f == [type |-> "snapshot", len |-> got, why |-> why]
  <2>3. f \in Frame /\ wire'[b] = Append(<<>>, f)
    BY <2>1, <2>2, FramesSent, EmitFacts DEF Types
  <2>4. f.type = "snapshot" /\ f.len = got /\ f.why = why
    OBVIOUS
  <2> HIDE DEF f
  <2>5. Ends(f) => ended' # None /\ f.why = ended'.why /\ ended'.len = f.len
    BY <2>1, <2>2, <2>4 DEF Ends, Life
  <2>6. /\ Conversation(wire'[b], have'[b], ended')
        /\ f.why = "none" /\ f.len = got' => Complete(wire'[b], have'[b], got')
    BY <1>1, <2>1, <2>3, <2>4, <2>5, FirstFrame
  <2>7. \A i \in 1 .. Len(wire'[b]) : wire'[b][i] = f
    BY <2>3
  <2>8. session' = "live" => f.why = "none" /\ f.len = got'
    BY <2>1, <2>2, <2>4
  <2>9. owner' = b /\ session' = "live" => Complete(wire'[b], have'[b], got')
    BY <2>6, <2>8
  <2>10. \A i \in 1 .. Len(wire'[b]) : wire'[b][i].type = "notfound" => Away'
    BY <2>4, <2>7
  <2> QED  BY <2>6, <2>9, <2>10
<1>10. CASE HelperDenies(b)
  <2>1. /\ pc[b] = "read" /\ wire[b] = <<>> /\ have[b] = 0 /\ up[b] /\ cmd[b] = "resume"
        /\ have' = have /\ owner' = owner
    BY <1>3, <1>10 DEF HelperDenies, SocketOK, work, helper
  <2>2. owner # b
    BY <1>3, <2>1 DEF SocketOK
  <2> DEFINE f == [type |-> "notfound"]
  <2>3. f \in Frame /\ Emit(b, f)
    BY <1>10, FramesSent DEF Types, HelperDenies
  <2>4. f.type = "notfound"
    OBVIOUS
  <2> HIDE DEF f
  <2>5. wire'[b] = Append(<<>>, f)
    BY <2>1, <2>3, EmitFacts DEF Types
  <2>6. ~Ends(f)
    BY <2>4 DEF Ends
  <2>7. Conversation(wire'[b], have'[b], ended')
    BY <1>1, <2>1, <2>3, <2>4, <2>5, <2>6, FirstFrame
  <2>8. Away'
    <3>1. session \in {"none", "gone"} /\ session' = session
      BY <1>10 DEF HelperDenies, Held, helper, Types, SharedTyped
    <3>2. session = "none" => denied'
      BY <1>10 DEF HelperDenies
    <3> QED  BY <3>1, <3>2 DEF Away
  <2> QED  BY <2>1, <2>2, <2>7, <2>8
<1>11. CASE owner = b /\ Upstream
  <2>1. /\ pc[b] = "read" /\ UNCHANGED <<have, owner, ended, session>> /\ session = "live" /\ got' = got + 1
        /\ Emit(b, [type |-> "data"])
    BY <1>1, <1>11 DEF Upstream, work
  <2> DEFINE f == [type |-> "data"]
  <2>2. f \in Frame
    BY FramesSent DEF Types
  <2>3. f.type = "data"
    OBVIOUS
  <2>4. up[b]
    BY <1>3, <2>1 DEF SocketOK
  <2>5. wire'[b] = Append(wire[b], f)
    BY <2>1, <2>2, <2>4, EmitFacts DEF Types
  <2> HIDE DEF f
  <2>6. Conversation(wire'[b], have'[b], ended') /\ Complete(wire'[b], have'[b], got')
    BY <1>1, <1>3, <1>11, <2>1, <2>2, <2>3, <2>5, DataFrame
  <2>7. \A i \in 1 .. Len(wire'[b]) : wire'[b][i].type # "notfound"
    BY <1>1, <2>6 DEF Complete, Refuses
  <2> QED  BY <2>6, <2>7
<1>12. CASE EndsFor(b)
  <2>1. PICK why \in Reason : EndSession(why)
    BY <1>12 DEF EndsFor
  <2>2. owner = b /\ session = "live" /\ pc[b] = "read" /\ have' = have
    BY <1>12 DEF EndsFor
  <2>3. session' = "done" /\ ended' # None /\ ended'.why = why /\ ended'.len = got
    <3>1. session' = "done" /\ ended' # None /\ ended' = [why |-> why, len |-> got]
      BY <2>1, EndFacts DEF Types
    <3> QED  BY <3>1
  <2> DEFINE f == [type |-> "terminal", why |-> why]
  <2>4. f \in Frame
    BY FramesSent DEF Types
  <2>5. f.type = "terminal" /\ f.why = why
    OBVIOUS
  <2>6. wire'[b] = wire[b] \/ wire'[b] = Append(wire[b], f)
    BY <2>1, EndWire DEF Types
  <2> HIDE DEF f
  <2>7. Conversation(Append(wire[b], f), have[b], ended')
    BY <1>1, <1>3, <2>2, <2>3, <2>4, <2>5, LastFrame
  <2>8. Conversation(wire'[b], have'[b], ended')
    BY <1>3, <2>2, <2>6, <2>7
  <2>9. \A i \in 1 .. Len(wire'[b]) : wire'[b][i].type = "notfound" => Away'
    <3>1. CASE wire'[b] = wire[b]
      BY <1>3, <2>2, <3>1
    <3>2. CASE wire'[b] = Append(wire[b], f)
      <4>1. /\ Len(wire'[b]) = Len(wire[b]) + 1 /\ wire'[b][Len(wire'[b])] = f
            /\ \A i \in 1 .. Len(wire[b]) : wire'[b][i] = wire[b][i]
        BY <1>1, <2>4, <3>2, NextFrame
      <4>2. ASSUME NEW i \in 1 .. Len(wire[b]), wire'[b][i].type = "notfound"  PROVE  Away'
        BY <1>3, <2>2, <4>1, <4>2
      <4>3. wire'[b][Len(wire'[b])].type # "notfound"
        BY <2>5, <4>1
      <4>4. \A i \in 1 .. Len(wire'[b]) : i = Len(wire'[b]) \/ i \in 1 .. Len(wire[b])
        BY <1>1, <4>1
      <4> QED  BY <4>2, <4>3, <4>4
    <3> QED  BY <2>6, <3>1, <3>2
  <2> QED  BY <2>3, <2>8, <2>9
<1>13. WireMove(b)
  BY WireMoves
<1> QED  BY <1>4, <1>5, <1>6, <1>7, <1>8, <1>9, <1>10, <1>11, <1>12, <1>13 DEF WireMove

-----------------------------------------------------------------------------
(* What is told.                                                           *)

\* What an attempt that stops reading is about to tell.
LEMMA ReadResult ==
  ASSUME Types, Wires, NEW b \in Slot, Read(b)
  PROVE  /\ pc'[b] = "commit" => final'[b] = Refused \/ (ended # None /\ final'[b] = ended)
         /\ pc'[b] = "relist" => final'[b] = Lost /\ Away
<1> DEFINE w == wire[b]
           f == w[1]
           n == IF f.type = "data" THEN have[b] + 1 ELSE IF f.type = "snapshot" THEN f.len ELSE have[b]
<1>1. /\ pc[b] = "read" /\ w # <<>> /\ f \in Frame
      /\ have' = [have EXCEPT ![b] = n]
      /\ final' = [final EXCEPT ![b] = IF Ends(f) THEN [why |-> f.why, len |-> have'[b]]
                                      ELSE IF f.type = "capacity" THEN Refused ELSE Lost]
      /\ pc' = [pc EXCEPT ![b] = IF Ends(f) \/ f.type = "capacity" THEN "commit"
                                ELSE IF f.type = "notfound" THEN "relist" ELSE "read"]
  BY ReadFacts DEF Types
<1>2. have'[b] = n
  BY <1>1 DEF Types, SlotTyped
<1>3. /\ final'[b] = IF Ends(f) THEN [why |-> f.why, len |-> n]
                     ELSE IF f.type = "capacity" THEN Refused ELSE Lost
      /\ pc'[b] = IF Ends(f) \/ f.type = "capacity" THEN "commit"
                  ELSE IF f.type = "notfound" THEN "relist" ELSE "read"
  BY <1>1, <1>2 DEF Types, SlotTyped
<1>4. w \in Seq(Frame) /\ have[b] \in Nat /\ Conversation(w, have[b], ended) /\ (f.type = "notfound" => Away)
  BY <1>1 DEF Types, SlotTyped, WireTyped, Wires, WireOK
<1>5. CASE Ends(f)
  <2>1. ended # None /\ f.why = ended.why /\ ended.len = IF f.type = "snapshot" THEN f.len ELSE have[b]
    BY <1>1, <1>4, <1>5, EndOfTalk
  <2>2. n = ended.len
    BY <1>5, <2>1 DEF Ends
  <2>3. ended = [why |-> ended.why, len |-> ended.len]
    BY <2>1 DEF Types, SharedTyped, Outcome
  <2>4. final'[b] = ended /\ pc'[b] = "commit"
    BY <1>3, <1>5, <2>1, <2>2, <2>3
  <2> QED  BY <2>1, <2>4
<1>6. CASE ~Ends(f)
  BY <1>3, <1>4, <1>6
<1> QED  BY <1>5, <1>6

\* What is told is the reply as it ended, or an excuse.
LEMMA TruthStep ==
  ASSUME Types, Life, Unsent, Past, Fresh, Wires, Truth, GivenUp, Next
  PROVE  Truth'
<1>1. RowMoves /\ (ended # None => ended' = ended)
  BY RowStep, NeverBack
<1>2. ASSUME NEW b \in Slot, pc'[b] = "commit"
      PROVE  final'[b] \in Excuse \/ (ended' # None /\ final'[b] = ended')
  <2>1. Move(b)
    BY SlotStep
  <2>2. CASE Read(b)
    BY <1>1, <1>2, <2>2, ReadResult DEF Excuse
  <2>3. CASE ~Read(b)
    <3>1. \/ pc[b] = "commit" /\ final'[b] = final[b]
          \/ pc[b] = "relist" /\ final'[b] = final[b]
          \/ final'[b] = Refused
      BY <1>2, <2>1, <2>3 DEF Move
    <3> QED  BY <1>1, <3>1 DEF Truth, GivenUp, Excuse
  <2> QED  BY <2>2, <2>3
<1>3. ASSUME NEW b \in Slot, pc'[b] = "mailcommit"
      PROVE  ended' # None /\ final'[b] = ended'
  <2>1. Move(b)
    BY SlotStep
  <2>2. \/ pc[b] = "mailcommit" /\ final'[b] = final[b]
        \/ mail # None /\ final'[b] = mail
    BY <1>3, <2>1 DEF Move
  <2>3. ended # None /\ final'[b] = ended
    BY <2>2 DEF Truth, Life
  <2> QED  BY <1>1, <2>3
<1>4. result' # None => result' \in Excuse \/ (ended' # None /\ result' = ended')
  BY <1>1 DEF RowMoves, Truth
<1> QED  BY <1>2, <1>3, <1>4 DEF Truth

\* A reply is given up only when it is not to be had.
LEMMA GivenUpStep ==
  ASSUME Types, Life, Unsent, Past, Fresh, Wires, ReplyKept, Truth, GivenUp, Next
  PROVE  GivenUp'
<1>1. RowMoves /\ (Away => Away') /\ (Gone => Gone')
  BY RowStep, NeverBack
<1>2. ASSUME NEW b \in Slot, pc'[b] = "relist"
      PROVE  final'[b] = Lost /\ Away'
  <2>1. Move(b)
    BY SlotStep
  <2>2. Read(b) \/ (pc[b] = "relist" /\ final'[b] = final[b])
    BY <1>2, <2>1 DEF Move
  <2> QED  BY <1>1, <1>2, <2>2, ReadResult DEF GivenUp
<1>3. ASSUME NEW b \in Slot, pc'[b] = "commit", final'[b].why = "lost", row' = "pending"
      PROVE  Gone'
  <2>1. Move(b)
    BY SlotStep
  <2>2. ~Read(b)
    <3>1. Refused.why # "lost" /\ (ended # None => ended.why # "lost")
      BY DEF Refused, Life, Reason
    <3> QED  BY <1>3, <3>1, ReadResult
  <2>3. \/ pc[b] = "commit" /\ final'[b] = final[b]
        \/ pc[b] = "relist" /\ final'[b] = final[b] /\ mail = None
        \/ final'[b] = Refused
    BY <1>3, <2>1, <2>2 DEF Move
  <2>4. pc[b] # "idle" => row = "pending"
    BY <1>1, <1>3 DEF RowMoves, Unsent
  <2>5. CASE pc[b] = "commit" /\ final'[b] = final[b]
    BY <1>1, <1>3, <2>4, <2>5 DEF GivenUp
  <2>6. CASE pc[b] = "relist" /\ mail = None
    <3>1. Gone
      BY <2>4, <2>6 DEF GivenUp, Away, Gone, ReplyKept
    <3> QED  BY <1>1, <3>1
  <2>7. final'[b] # Refused
    BY <1>3 DEF Refused
  <2> QED  BY <2>3, <2>5, <2>6, <2>7
<1>4. ASSUME result' # None, result'.why = "lost"
      PROVE  Gone'
  <2>1. CASE result' = result
    BY <1>1, <1>4, <2>1 DEF GivenUp
  <2>2. CASE result' # result
    <3>1. PICK a \in Slot : row = "pending" /\ pc[a] \in {"commit", "mailcommit"} /\ result' = final[a]
      BY <1>1, <2>2 DEF RowMoves
    <3>2. pc[a] # "mailcommit"
      BY <1>4, <3>1 DEF Truth, Life, Reason
    <3> QED  BY <1>1, <1>4, <3>1, <3>2 DEF GivenUp
  <2> QED  BY <2>1, <2>2
<1> QED  BY <1>2, <1>3, <1>4 DEF GivenUp

-----------------------------------------------------------------------------
\* The invariant holds at the start.
LEMMA InitInv == Init => IInv
<1> SUFFICES ASSUME Init  PROVE  IInv
  OBVIOUS
<1>1. Types
  <2>1. Lost \in [why : Reason \cup {"lost", "refused"}, len : Nat]
    BY DEF Lost
  <2>2. SharedTyped
    BY GenerationAssumption DEF Init, SharedTyped
  <2>3. FlagTyped
    BY DEF Init, FlagTyped
  <2>4. SlotTyped
    BY <2>1 DEF Init, SlotTyped, Location
  <2>5. WireTyped
    BY EmptySeq DEF Init, WireTyped
  <2> QED  BY <2>2, <2>3, <2>4, <2>5 DEF Types
<1>2. Life /\ Unsent /\ Past /\ Fresh
  BY DEF Init, Life, Unsent, Past, Fresh, Starting
<1>3. Sockets
  BY GenerationAssumption DEF Init, Sockets, SocketOK
<1>4. Wires /\ ReplyKept /\ Truth /\ GivenUp
  BY DEF Init, Wires, WireOK, ReplyKept, Truth, GivenUp
<1> QED  BY <1>1, <1>2, <1>3, <1>4 DEF IInv

\* Every step keeps the invariant.
LEMMA NextInv == IInv /\ [Next]_vars => IInv'
<1> SUFFICES ASSUME IInv, [Next]_vars  PROVE  IInv'
  OBVIOUS
<1>0. Types /\ Life /\ Unsent /\ Past /\ Fresh /\ Sockets /\ Wires /\ ReplyKept /\ Truth /\ GivenUp
  BY DEF IInv
<1>1. CASE Next
  <2>1. Types'
    BY <1>0, <1>1, SharedTypes, FlagTypes, SlotTypes, WireTypes DEF Types
  <2>2. Life' /\ Past' /\ Unsent' /\ Fresh' /\ Sockets'
    BY <1>0, <1>1, LifeStep, PastStep, UnsentStep, FreshStep, SocketStep
  <2>3. Wires' /\ ReplyKept' /\ Truth' /\ GivenUp'
    BY <1>0, <1>1, WireStep, KeptStep, TruthStep, GivenUpStep
  <2> QED  BY <2>1, <2>2, <2>3 DEF IInv
<1>2. CASE UNCHANGED vars
  <2> USE <1>0, <1>2 DEF vars, db, helper, work, sockets, deleter, history
  <2>1. Types'
    BY DEF Types, SharedTyped, FlagTyped, SlotTyped, WireTyped
  <2>2. Life' /\ Past' /\ Unsent' /\ Fresh'
    BY DEF Life, Unsent, Past, Fresh, Starting
  <2>3. Sockets'
    BY DEF Sockets, SocketOK
  <2>4. Wires'
    BY DEF Wires, WireOK, Away
  <2>5. ReplyKept' /\ Truth' /\ GivenUp'
    BY DEF ReplyKept, Truth, GivenUp, Away, Gone
  <2> QED  BY <2>1, <2>2, <2>3, <2>4, <2>5 DEF IInv
<1> QED  BY <1>1, <1>2

\* Whatever crashes, fails or comes late, every part of the invariant holds.
THEOREM Invariance == Spec => []IInv
BY InitInv, NextInv, PTL DEF Spec

\* Every variable keeps its type; what is stored is the reply or an excuse.
THEOREM TypeCorrect == Spec => []TypeOK
<1>1. IInv => TypeOK
  <2> SUFFICES ASSUME IInv  PROVE  TypeOK
    OBVIOUS
  <2>1. Types /\ Truth
    BY DEF IInv
  <2>2. ended \in Outcome \cup {None}
    BY <2>1 DEF Types, SharedTyped
  <2>3. result \in Outcome \cup {None}
    BY <2>1, <2>2, Outcomes DEF Truth, Excuse
  <2> QED  BY <2>1, <2>3 DEF Types, SharedTyped, FlagTyped, SlotTyped, WireTyped, TypeOK
<1> QED  BY <1>1, Invariance, PTL

\* A reply that ended is never in nobody's hands while its message waits, for
\* any callers, length and number of faults.
THEOREM ReplyIsKept == Spec => []ReplyKept
BY Invariance, PTL DEF IInv

\* A message is given up as lost only when its reply is.
THEOREM LossIsOwned == Spec => []LossIsReal
<1>1. IInv => LossIsReal
  <2> SUFFICES ASSUME IInv, result # None, result.why = "lost", ~killed, ~(denied /\ session # "none")
               PROVE  ended = None /\ session # "live"
    BY DEF LossIsReal
  <2>1. Gone /\ Life
    BY DEF IInv, GivenUp
  <2> QED  BY <2>1 DEF Gone, Life
<1> QED  BY <1>1, Invariance, PTL

-----------------------------------------------------------------------------
(* The refinement.                                                         *)

\* Every step is a step of Reply, or changes none of its variables.
LEMMA StepMaps ==
  ASSUME IInv, Next
  PROVE  Abstract!Next \/ UNCHANGED Abstract!vars
<1>0. Types /\ Life /\ Unsent /\ Past /\ Fresh /\ Truth
  BY DEF IInv
<1>1. SessionMoves /\ RowMoves
  BY <1>0, SessionStep, RowStep
<1>2. CASE ended' # ended
  <2>1. session = "live" /\ UNCHANGED db /\ ended' # None /\ ended'.why \in Reason
    BY <1>1, <1>2 DEF SessionMoves, SameReply
  <2>2. ended' \in Outcome
    BY <1>0, <2>1, SharedTypes DEF SharedTyped
  <2>3. ended' \in Abstract!Ends
    BY <2>1, <2>2 DEF Outcome, Reason, Abstract!Ends
  <2>4. Abstract!Ended
    BY <1>0, <2>1, <2>3 DEF Abstract!Ended, Life, Unsent, db
  <2> QED  BY <2>4 DEF Abstract!Next
<1>3. CASE ended' = ended
  <2>1. CASE row' = row /\ result' = result
    BY <1>3, <2>1 DEF Abstract!vars
  <2>2. CASE row = "none" /\ row' = "pending" /\ result' = result
    BY <1>3, <2>2 DEF Abstract!Next, Abstract!Send
  <2>3. CASE /\ row = "pending" /\ row' = "terminal"
             /\ \E a \in Slot : pc[a] \in {"commit", "mailcommit"} /\ result' = final[a]
    <3>1. PICK a \in Slot : pc[a] \in {"commit", "mailcommit"} /\ result' = final[a]
      BY <2>3
    <3>2. result' \in Excuse \/ (ended # None /\ result' = ended)
      BY <1>0, <3>1 DEF Truth
    <3>3. result' \in Abstract!Excuses \cup ({ended} \ {None})
      BY <3>2 DEF Excuse, Lost, Refused, Abstract!Excuses
    <3>4. Abstract!Settle
      BY <1>3, <2>3, <3>3 DEF Abstract!Settle
    <3> QED  BY <3>4 DEF Abstract!Next
  <2>4. CASE row \in {"pending", "terminal"} /\ row' = "deleted" /\ result' = result
    BY <1>3, <2>4 DEF Abstract!Next, Abstract!Delete
  <2> QED  BY <1>1, <2>1, <2>2, <2>3, <2>4 DEF RowMoves
<1> QED  BY <1>2, <1>3

\* One result, the whole reply or an owned-up loss, never after a deletion:
\* the safety of Reply; that it comes some day is model-checked.
THEOREM Refinement == Spec => Abstract!Init /\ [][Abstract!Next]_(Abstract!vars)
<1>1. Init => Abstract!Init
  BY DEF Init, Abstract!Init
<1>2. IInv /\ [Next]_vars => [Abstract!Next]_(Abstract!vars)
  <2> SUFFICES ASSUME IInv, [Next]_vars
               PROVE  Abstract!Next \/ UNCHANGED Abstract!vars
    OBVIOUS
  <2>1. CASE Next
    BY <2>1, StepMaps
  <2>2. CASE UNCHANGED vars
    BY <2>2 DEF vars, db, helper, Abstract!vars
  <2> QED  BY <2>1, <2>2
<1> QED  BY <1>1, <1>2, Invariance, PTL DEF Spec
=============================================================================
