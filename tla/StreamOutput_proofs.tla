-------------------------- MODULE StreamOutput_proofs --------------------------
(***************************************************************************)
(* Proofs about StreamOutput, for every set of calls, any length of a      *)
(* reply, any number of consumers, page loads and failures: however often  *)
(* the consumer is replaced and the page reloaded, what a page takes       *)
(* continues what it shows (NoGap), and it shows what it was given         *)
(* (CaughtUp).                                                             *)
(***************************************************************************)
EXTENDS StreamOutput, FiniteSetTheorems, SequenceTheorems, TLAPS

Types == TypeOK /\ full <= src

\* The holder of the lease works on the message, and nobody else does.
Working == {"claimed", "check", "snapshot", "stream", "commit", "broken", "told"}
Waiting == {"free", "sent", "attached", "done", "failed"}

Roles ==
  /\ lease # None => at[lease] \in Working
  /\ \A h \in Holder : h # lease => at[h] \in Waiting
  /\ closed => lease # None /\ at[lease] = "told"
  /\ ~pending /\ lease # None => at[lease] \in {"claimed", "check", "told"}

\* The consumer is the last one attached, on a page that was loaded.
Consumers ==
  /\ chan \in {0, revision}
  /\ \A r \in Revision : dest[r] <= page /\ (r > revision => pipe[r] = <<>>)
  /\ view.rev <= revision
  /\ \A h \in Holder : from[h] <= page
  /\ \A p \in Pages : list[p] # "no" => p <= page

\* Every call under way has a revision left.
Coming == {c \in Call : at[c] \in {"sent", "claimed"}}
Asking == {p \in Pages : list[p] = "asked"}
Roomy  == revision + Cardinality(Coming) + Cardinality(Asking) <= MaxRev

\* The end is told when the message has its reply; who returns with it has
\* nothing behind what was sent before.
Over ==
  /\ view.ended => ~pending
  /\ \A r \in Revision : \A i \in 1 .. Len(pipe[r]) : pipe[r][i].type = "end" => ~pending
  /\ \A h \in Holder : at[h] = "done" =>
       ~pending /\ \A r \in Revision : r > after[h] => pipe[r] = <<>>

IsText(e) == e.type \in {"delta", "snapshot"}

\* A delta continues the event before it.
Linked(w) ==
  \A i \in 1 .. Len(w) :
    i > 1 /\ w[i].type = "delta" => IsText(w[i - 1]) /\ w[i].base = w[i - 1].len

Chain == \A r \in Revision : Linked(pipe[r])

\* The next delta the page would take continues what it shows.
HeadOK(r) ==
  pipe[r] # <<>> /\ dest[r] = page /\ Accepts(r) /\ pipe[r][1].type = "delta"
    => pipe[r][1].base = view.text /\ (view.rev = r \/ r = 1)

Heads == \A r \in Revision : HeadOK(r)

\* The consumer of a stream has been given all that was pushed.
Streaming == lease # None /\ at[lease] = "stream"

Given ==
  Streaming /\ ~snap /\ chan # 0 /\ dest[chan] = page =>
    IF pipe[chan] = <<>>
      THEN view.text = pushed /\ (view.rev = chan \/ chan = 1)
      ELSE LET e == pipe[chan][Len(pipe[chan])] IN IsText(e) /\ e.len = pushed

IInv == Types /\ Roles /\ Consumers /\ Roomy /\ Over /\ Chain /\ Heads /\ Given

-----------------------------------------------------------------------------
(* What sending does to the channels.                                      *)

\* The consumer is on the page that is loaded and has e in its channel.
Put(e) ==
  /\ chan \in Revision /\ dest[chan] = page /\ chan' = chan
  /\ pipe' = [pipe EXCEPT ![chan] = Append(@, e)]

\* Nobody has it: there is no consumer, or its page is gone.
Lost == pipe' = pipe /\ chan' \in {0, chan} /\ (chan' = 0 \/ dest[chan'] # page)

\* A consumer that was bound for it may have e in its channel.
PutAnew(e) ==
  /\ Room /\ revision' = revision + 1 /\ chan' \in {0, revision + 1}
  /\ dest' = [dest EXCEPT ![revision + 1] = from[lease]]
  /\ pipe' = pipe \/ pipe' = [pipe EXCEPT ![revision + 1] = Append(@, e)]

\* Nothing to send.
Nothing == pipe' = pipe /\ chan' = chan /\ snap' = snap /\ pushed' = pushed

\* SendAurora puts a snapshot or what follows what was pushed, or it loses it.
LEMMA SendFacts ==
  ASSUME Types, NEW f \in BOOLEAN, NEW n \in full .. src, SendAurora(n, f)
  PROVE  /\ full' = n /\ UNCHANGED <<closed, revision, dest>>
         /\ snap' \in BOOLEAN /\ pushed' \in {pushed, n}
         /\ \/ Lost
            \/ ~f /\ ~snap /\ Nothing
            \/ /\ pushed' = n
               /\ \E e \in Event :
                    /\ Put(e) /\ e.len = n
                    /\ e.type = "snapshot" \/ (e.type = "delta" /\ ~f /\ ~snap /\ e.base = pushed)
<1> DEFINE e == Ev(IF snap \/ f THEN "snapshot" ELSE "delta", n, pushed)
<1>1. n \in 0 .. MaxLen /\ pushed \in 0 .. MaxLen /\ chan \in 0 .. revision /\ revision \in Revision
  BY OutputAssumption DEF Types, TypeOK
<1>2. e \in Event /\ e.len = n /\ e.base = pushed
  BY <1>1 DEF Ev, Event
<1>3. e.type = "snapshot" \/ (e.type = "delta" /\ ~f /\ ~snap)
  BY DEF Ev
<1>4. snap \in BOOLEAN
  BY DEF Types, TypeOK
<1>5. full' = n /\ UNCHANGED <<closed, revision, dest>>
  BY DEF SendAurora
<1>6. CASE chan = 0
  BY <1>4, <1>5, <1>6 DEF SendAurora, Lost
<1>7. CASE chan # 0 /\ ~snap /\ ~f /\ n = pushed
  BY <1>4, <1>5, <1>7 DEF SendAurora, Nothing
<1>8. CASE chan # 0 /\ ~(~snap /\ ~f /\ n = pushed)
  <2>1. PICK ok \in BOOLEAN : /\ Delivered(e, ok)
                              /\ pushed' = IF ok THEN n ELSE pushed
                              /\ snap' = ~ok
                              /\ chan' = IF ok THEN chan ELSE 0
    BY <1>8 DEF SendAurora
  <2> HIDE DEF e
  <2>2. CASE dest[chan] = page
    <3>1. ok /\ pipe' = [pipe EXCEPT ![chan] = Append(@, e)]
      BY <1>8, <2>1, <2>2 DEF Delivered
    <3>2. Put(e)
      <4>1. chan \in Revision
        BY <1>1, <1>8, OutputAssumption DEF Revision
      <4> QED
        BY <2>1, <2>2, <3>1, <4>1 DEF Put
    <3> QED
      BY <1>2, <1>3, <1>5, <2>1, <3>1, <3>2
  <2>3. CASE dest[chan] # page
    <3>1. Lost
      BY <1>8, <2>1, <2>3 DEF Delivered, Lost
    <3> QED
      BY <1>5, <2>1, <3>1
  <2> QED
    BY <2>2, <2>3
<1> QED
  BY <1>6, <1>7, <1>8

\* Close puts its event or loses it.
LEMMA CloseFacts ==
  ASSUME Types, NEW e \in Event, Close(e)
  PROVE  /\ closed' = TRUE /\ snap' \in BOOLEAN
         /\ \/ UNCHANGED <<revision, dest>> /\ (Lost \/ Put(e))
            \/ PutAnew(e)
<1>1. chan \in 0 .. revision /\ revision \in Revision
  BY DEF Types, TypeOK
<1>2. closed' = TRUE
  BY DEF Close
<1>3. PICK ok \in BOOLEAN :
        /\ snap' = (snap \/ ~ok)
        /\ IF chan = 0 /\ Room
             THEN Rebound(e, ok)
             ELSE /\ Delivered(e, ok)
                  /\ chan' = IF ok THEN chan ELSE 0
                  /\ UNCHANGED <<revision, dest>>
  BY DEF Close
<1>4. CASE chan = 0 /\ Room
  <2>1. Rebound(e, ok)
    BY <1>3, <1>4
  <2>2. PutAnew(e)
    BY <1>4, <2>1 DEF Rebound, PutAnew
  <2> QED
    BY <1>2, <1>3, <2>2
<1>5. CASE ~(chan = 0 /\ Room)
  <2>1. Delivered(e, ok) /\ chan' = (IF ok THEN chan ELSE 0) /\ UNCHANGED <<revision, dest>>
    BY <1>3, <1>5
  <2>2. ASSUME chan # 0, dest[chan] = page  PROVE Put(e)
    <3>1. chan \in Revision
      BY <1>1, <2>2, OutputAssumption DEF Revision
    <3>2. ok /\ pipe' = [pipe EXCEPT ![chan] = Append(@, e)]
      BY <2>1, <2>2 DEF Delivered
    <3> QED
      BY <2>1, <2>2, <3>1, <3>2 DEF Put
  <2>3. ASSUME ~(chan # 0 /\ dest[chan] = page)  PROVE Lost
    BY <2>1, <2>3 DEF Delivered, Lost
  <2> QED
    BY <1>2, <1>3, <2>1, <2>2, <2>3
<1> QED
  BY <1>4, <1>5

-----------------------------------------------------------------------------
(* Room for a consumer.                                                    *)

\* The calls and the pages are finitely many.
LEMMA FiniteCounts ==
  /\ \A S \in SUBSET Call : IsFiniteSet(S) /\ Cardinality(S) \in Nat
  /\ \A S \in SUBSET Pages : IsFiniteSet(S) /\ Cardinality(S) \in Nat
<1>1. IsFiniteSet(Call) /\ IsFiniteSet(Pages)
  BY OutputAssumption, FS_Interval DEF Pages
<1> QED
  BY <1>1, FS_Subset, FS_CardinalityType

\* Who is still to come has a revision left.
LEMMA RevisionLeft ==
  ASSUME Types, Roomy, Coming # {} \/ Asking # {}
  PROVE  revision + 1 \in Revision
<1>1. /\ IsFiniteSet(Coming) /\ Cardinality(Coming) \in Nat
      /\ IsFiniteSet(Asking) /\ Cardinality(Asking) \in Nat
  BY FiniteCounts DEF Coming, Asking
<1>2. Cardinality(Coming) # 0 \/ Cardinality(Asking) # 0
  BY <1>1, FS_EmptySet
<1>3. revision + 1 <= MaxRev
  BY <1>1, <1>2, OutputAssumption DEF Roomy, Types, TypeOK, Revision
<1> QED
  BY <1>3, OutputAssumption DEF Types, TypeOK, Revision

\* The revisions are counted in natural numbers.
LEMMA CountRevisions ==
  Types => revision \in Nat /\ MaxRev \in Nat
  BY OutputAssumption DEF Types, TypeOK, Revision

\* So has a consumer that is bound at the end.
LEMMA RevisionRoom ==
  ASSUME Types, Room
  PROVE  revision + 1 \in Revision
<1>1. /\ Cardinality(Coming) \in Nat /\ Cardinality(Asking) \in Nat
      /\ revision + Cardinality(Coming) + Cardinality(Asking) < MaxRev
  BY FiniteCounts DEF Coming, Asking, Room
<1> QED
  BY <1>1, OutputAssumption DEF Types, TypeOK, Revision

\* A put keeps the channels' type.
LEMMA PutTypes ==
  ASSUME Types, NEW e \in Event, Put(e)
  PROVE  pipe' \in [Revision -> Seq(Event)]
<1>1. pipe \in [Revision -> Seq(Event)] /\ pipe[chan] \in Seq(Event)
  BY DEF Types, TypeOK, Put
<1>2. Append(pipe[chan], e) \in Seq(Event)
  BY <1>1, AppendProperties
<1> QED
  BY <1>1, <1>2 DEF Put

\* So does a put for a new consumer.
LEMMA AnewTypes ==
  ASSUME Types, lease # None, NEW e \in Event, PutAnew(e)
  PROVE  /\ chan' \in 0 .. revision' /\ revision' \in Revision
         /\ pipe' \in [Revision -> Seq(Event)] /\ dest' \in [Revision -> Pages]
<1>1. revision + 1 \in Revision
  BY RevisionRoom DEF PutAnew
<1>2. /\ pipe \in [Revision -> Seq(Event)] /\ dest \in [Revision -> Pages]
      /\ from[lease] \in Pages
  BY DEF Types, TypeOK
<1>3. Append(pipe[revision + 1], e) \in Seq(Event)
  BY <1>1, <1>2, AppendProperties
<1>4. pipe' \in [Revision -> Seq(Event)]
  BY <1>1, <1>2, <1>3 DEF PutAnew
<1>5. dest' \in [Revision -> Pages]
  BY <1>2 DEF PutAnew
<1>6. chan' \in 0 .. revision' /\ revision' \in Revision
  BY <1>1, OutputAssumption DEF PutAnew, Revision
<1> QED
  BY <1>4, <1>5, <1>6

\* The events that end a reply are events.
LEMMA EndTyped ==
  ASSUME Types, NEW t \in {"end", "error", "partial"}
  PROVE  Ev(t, full, 0) \in Event /\ Ev(t, src, 0) \in Event
  BY OutputAssumption DEF Types, TypeOK, Ev, Event

\* What sending keeps.
LEMMA SendTypes ==
  ASSUME Types, NEW f \in BOOLEAN, NEW n \in full .. src, SendAurora(n, f)
  PROVE  /\ full' \in 0 .. MaxLen /\ full' <= src /\ pushed' \in 0 .. full'
         /\ chan' \in 0 .. revision' /\ snap' \in BOOLEAN /\ closed' \in BOOLEAN
         /\ revision' \in Revision /\ pipe' \in [Revision -> Seq(Event)]
         /\ dest' \in [Revision -> Pages]
<1>1. /\ full' = n /\ UNCHANGED <<closed, revision, dest>>
      /\ snap' \in BOOLEAN /\ pushed' \in {pushed, n}
      /\ \/ Lost
         \/ ~f /\ ~snap /\ Nothing
         \/ \E e \in Event : Put(e)
  BY SendFacts
<1>2. full' \in 0 .. MaxLen /\ full' <= src /\ pushed' \in 0 .. full'
  BY <1>1, OutputAssumption DEF Types, TypeOK
<1>3. closed' \in BOOLEAN /\ revision' \in Revision /\ dest' \in [Revision -> Pages]
  BY <1>1 DEF Types, TypeOK
<1>4. chan' \in {0, chan}
  BY <1>1 DEF Lost, Nothing, Put
<1>5. chan' \in 0 .. revision'
  BY <1>1, <1>4, OutputAssumption DEF Types, TypeOK, Revision
<1>6. pipe' \in [Revision -> Seq(Event)]
  BY <1>1, PutTypes DEF Types, TypeOK, Lost, Nothing
<1> QED
  BY <1>1, <1>2, <1>3, <1>5, <1>6

\* What a last event keeps.
LEMMA CloseTypes ==
  ASSUME Types, lease # None, NEW e \in Event, Close(e)
  PROVE  /\ chan' \in 0 .. revision' /\ snap' \in BOOLEAN /\ closed' \in BOOLEAN
         /\ revision' \in Revision /\ pipe' \in [Revision -> Seq(Event)]
         /\ dest' \in [Revision -> Pages]
<1>1. /\ closed' = TRUE /\ snap' \in BOOLEAN
      /\ \/ UNCHANGED <<revision, dest>> /\ (Lost \/ Put(e))
         \/ PutAnew(e)
  BY CloseFacts
<1>2. CASE UNCHANGED <<revision, dest>> /\ (Lost \/ Put(e))
  <2>1. revision' \in Revision /\ dest' \in [Revision -> Pages]
    BY <1>2 DEF Types, TypeOK
  <2>2. chan' \in {0, chan}
    BY <1>2 DEF Lost, Put
  <2>3. chan' \in 0 .. revision'
    BY <1>2, <2>2, OutputAssumption DEF Types, TypeOK, Revision
  <2>4. pipe' \in [Revision -> Seq(Event)]
    BY <1>2, PutTypes DEF Types, TypeOK, Lost
  <2> QED
    BY <1>1, <2>1, <2>3, <2>4
<1>3. CASE PutAnew(e)
  BY <1>1, <1>3, AnewTypes
<1> QED
  BY <1>1, <1>2, <1>3

\* An event that ends the attempt; an end only with the reply in its row.
Last(e) == Close(e) /\ ~IsText(e) /\ (e.type = "end" => ~pending')

\* A commit sends one, and a failed one leaves the row.
LEMMA CommitFacts ==
  ASSUME Types, NEW n \in {full, src}, Commit(n)
  PROVE  /\ \E e \in Event : Last(e)
         /\ pending' \in BOOLEAN /\ (pending' => pending)
         /\ faults' \in 0 .. MaxFaults /\ UNCHANGED <<silent, stolen>>
<1>1. /\ Ev("end", n, 0) \in Event /\ Ev("partial", n, 0) \in Event
      /\ ~IsText(Ev("end", n, 0)) /\ ~IsText(Ev("partial", n, 0))
      /\ Ev("partial", n, 0).type # "end"
  BY EndTyped DEF Ev, IsText
<1>2. CASE pending' = FALSE /\ Close(Ev("end", n, 0)) /\ UNCHANGED history
  <2>1. Last(Ev("end", n, 0))
    BY <1>1, <1>2 DEF Last
  <2> QED
    BY <1>1, <1>2, <2>1 DEF history, Types, TypeOK
<1>3. CASE Fault /\ Close(Ev("partial", n, 0)) /\ UNCHANGED pending
  <2>1. Last(Ev("partial", n, 0))
    BY <1>1, <1>3 DEF Last
  <2>2. faults' \in 0 .. MaxFaults /\ UNCHANGED <<silent, stolen>>
    BY <1>3, OutputAssumption DEF Fault, Types, TypeOK
  <2> QED
    BY <1>1, <1>3, <2>1, <2>2 DEF Types, TypeOK
<1> QED
  BY <1>2, <1>3 DEF Commit

\* A broken attempt ends with one, or without an event.
LEMMA TellFacts ==
  ASSUME Types, TellBroken
  PROVE  /\ lease # None /\ at[lease] = "broken" /\ Goto(lease, "told")
         /\ UNCHANGED <<lease, from, after, buffer, front>>
         /\ pending' \in BOOLEAN /\ (pending' => pending) /\ complete' \in BOOLEAN
         /\ src' \in 0 .. MaxLen /\ full <= src'
         /\ faults' \in 0 .. MaxFaults /\ UNCHANGED <<silent, stolen>>
         /\ UNCHANGED <<out, wires>> \/ \E e \in Event : Last(e)
<1>1. /\ lease # None /\ at[lease] = "broken" /\ Goto(lease, "told")
      /\ UNCHANGED <<lease, from, after, buffer, front>>
  BY DEF TellBroken
<1>2. /\ pending \in BOOLEAN /\ complete \in BOOLEAN /\ src \in 0 .. MaxLen
      /\ full \in 0 .. MaxLen /\ full <= src /\ faults \in 0 .. MaxFaults
  BY DEF Types, TypeOK
<1>3. ASSUME NEW t \in {"partial", "error"}, Close(Ev(t, full, 0)),
             UNCHANGED <<pending, src, complete, history>>
      PROVE  /\ \E e \in Event : Last(e)
             /\ UNCHANGED <<pending, src, complete, faults, silent, stolen>>
  <2>1. Ev(t, full, 0) \in Event
    BY EndTyped
  <2>2. Last(Ev(t, full, 0))
    BY <1>3 DEF Last, IsText, Ev
  <2> QED
    BY <1>3, <2>1, <2>2 DEF history
<1>4. ASSUME complete' = TRUE, NEW n \in {full, src}, src' = n, Commit(n)
      PROVE  /\ \E e \in Event : Last(e)
             /\ src' \in 0 .. MaxLen /\ full <= src'
             /\ pending' \in BOOLEAN /\ (pending' => pending)
             /\ faults' \in 0 .. MaxFaults /\ UNCHANGED <<silent, stolen>>
  <2>1. n \in 0 .. MaxLen /\ full <= n
    BY <1>2, OutputAssumption
  <2> QED
    BY <1>4, <2>1, CommitFacts
<1>5. ASSUME Fault  PROVE faults' \in 0 .. MaxFaults /\ UNCHANGED <<silent, stolen>>
  BY <1>2, <1>5, OutputAssumption DEF Fault
<1>6. CASE /\ Close(Ev(IF lease = Sender THEN "partial" ELSE "error", full, 0))
           /\ UNCHANGED <<pending, src, complete, history>>
  <2>1. \E t \in {"partial", "error"} : Close(Ev(t, full, 0))
    BY <1>6
  <2> QED
    BY <1>1, <1>2, <1>3, <1>6, <2>1
<1>7. CASE complete' = TRUE /\ \E n \in {full, src} : src' = n /\ Commit(n)
  BY <1>1, <1>4, <1>7
<1>8. CASE Fault /\ UNCHANGED <<pending, src, complete, out, wires>>
  BY <1>1, <1>2, <1>5, <1>8
<1> QED
  BY <1>6, <1>7, <1>8 DEF TellBroken

\* A new consumer has a revision of its own.
LEMMA NewConsumerTypes ==
  ASSUME Types, revision + 1 \in Revision, NEW p \in Pages, NewConsumer(p)
  PROVE  /\ chan' \in 0 .. revision' /\ revision' \in Revision
         /\ dest' \in [Revision -> Pages]
  BY OutputAssumption DEF Types, TypeOK, NewConsumer, Revision

-----------------------------------------------------------------------------
(* Every step keeps the invariant, part by part.                           *)

\* The call that looks into the mailbox holds the lease.
LEMMA HolderLooks ==
  ASSUME Types, Roles, NEW c \in Call, at[c] = "check"
  PROVE  c = lease /\ lease # None
<1>1. c \in Holder /\ c # None
  BY OutputAssumption DEF Holder
<1>2. at[c] \notin Waiting
  BY DEF Waiting
<1> QED
  BY <1>1, <1>2 DEF Roles

\* The view keeps its type when its text is replaced.
LEMMA ViewTyped ==
  ASSUME Types
  PROVE  /\ view \in [rev : 0 .. MaxRev, text : 0 .. MaxLen, ended : BOOLEAN]
         /\ [view EXCEPT !.text = src] \in [rev : 0 .. MaxRev, text : 0 .. MaxLen, ended : BOOLEAN]
  BY DEF Types, TypeOK

\* Types: the revision of a new consumer comes from Roomy, the text from Heads.
LEMMA TypesKept ==
  ASSUME IInv, [Next]_vars
  PROVE  Types'
<1> USE OutputAssumption DEF Types, TypeOK
<1> Types
  BY DEF IInv
<1>1. ASSUME Upstream  PROVE  Types'
  BY <1>1 DEF Upstream, attempt, buffer, out, wires, front, history, Goto, Location,
     Holder
<1>2. ASSUME Window  PROVE  Types'
  <2>1. PICK n \in full .. src, f \in BOOLEAN : SendAurora(n, f)
    BY <1>2, full \in full .. src, src \in full .. src DEF Window
  <2>2. /\ UNCHANGED <<pending, src, from, after, front, lease>> /\ complete' \in BOOLEAN
        /\ at' \in [Holder -> Location]
    BY <1>2 DEF Window, Goto, attempt, Location
  <2>3. UNCHANGED history
    BY <1>2 DEF Window
  <2> QED
    BY <2>1, <2>2, <2>3, SendTypes DEF front, history
<1>3. ASSUME SnapshotEnd  PROVE  Types'
  <2>1. PICK n \in full .. src, f \in BOOLEAN : SendAurora(n, f)
    BY <1>3, full \in full .. src, src \in full .. src DEF SnapshotEnd
  <2>2. /\ UNCHANGED <<pending, src, from, after, front, lease>> /\ complete' \in BOOLEAN
        /\ at' \in [Holder -> Location]
    BY <1>3 DEF SnapshotEnd, Goto, attempt, Location
  <2>3. UNCHANGED history
    BY <1>3 DEF SnapshotEnd
  <2> QED
    BY <2>1, <2>2, <2>3, SendTypes DEF front, history
<1>4. ASSUME Terminal  PROVE  Types'
  <2>1. PICK n \in full .. src, f \in BOOLEAN : SendAurora(n, f)
    BY <1>4, full \in full .. src, src \in full .. src DEF Terminal
  <2>2. /\ UNCHANGED <<pending, src, from, after, front, lease>> /\ complete' \in BOOLEAN
        /\ at' \in [Holder -> Location]
    BY <1>4 DEF Terminal, Goto, attempt, Location
  <2>3. UNCHANGED history
    BY <1>4 DEF Terminal
  <2> QED
    BY <2>1, <2>2, <2>3, SendTypes DEF front, history
<1>5. ASSUME Finish  PROVE  Types'
  <2>1. PICK e \in Event : Close(e)
    BY <1>5, CommitFacts DEF Finish, Last
  <2>2. /\ UNCHANGED <<src, from, after, lease, buffer, front>> /\ complete' \in BOOLEAN
        /\ at' \in [Holder -> Location] /\ lease # None
    BY <1>5 DEF Finish, Goto, Location, Holder
  <2>3. /\ pending' \in BOOLEAN /\ faults' \in 0 .. MaxFaults
        /\ UNCHANGED <<silent, stolen>>
    BY <1>5, CommitFacts DEF Finish
  <2> QED
    BY <2>1, <2>2, <2>3, CloseTypes DEF front, history, buffer
<1>6. ASSUME TellBroken  PROVE  Types'
  <2>1. /\ UNCHANGED <<from, after, lease, buffer, front>> /\ complete' \in BOOLEAN
        /\ pending' \in BOOLEAN /\ src' \in 0 .. MaxLen /\ full <= src'
        /\ faults' \in 0 .. MaxFaults /\ UNCHANGED <<silent, stolen>>
        /\ lease # None /\ Goto(lease, "told")
    BY <1>6, TellFacts
  <2>2. at' \in [Holder -> Location]
    BY <2>1 DEF Goto, Location
  <2>3. CASE UNCHANGED <<out, wires>>
    BY <2>1, <2>2, <2>3 DEF front, buffer, out, wires
  <2>4. ASSUME NEW e \in Event, Close(e)  PROVE Types'
    BY <2>1, <2>2, <2>4, CloseTypes DEF front, buffer
  <2> QED
    BY <1>6, <2>3, <2>4, TellFacts DEF Last
<1>7. ASSUME Leave  PROVE  Types'
  <2>1. /\ UNCHANGED <<pending, src, complete, from, revision, wires, front, faults, stolen>>
        /\ full' = 0 /\ pushed' = 0 /\ chan' = 0 /\ snap' = FALSE /\ closed' = FALSE
        /\ lease' = None
    BY <1>7 DEF Leave
  <2>2. at' \in [Holder -> Location]
    BY <1>7 DEF Leave, Goto, Location
  <2>3. after' \in [Holder -> 0 .. MaxRev]
    BY <1>7 DEF Leave, Revision
  <2>4. silent' \in BOOLEAN
    BY <1>7 DEF Leave
  <2>5. /\ full' <= src' /\ full' \in 0 .. MaxLen /\ pushed' \in 0 .. full'
        /\ chan' \in 0 .. revision' /\ revision' \in Revision /\ src' \in 0 .. MaxLen
    BY <2>1 DEF Revision
  <2> QED
    BY <2>1, <2>2, <2>3, <2>4, <2>5 DEF wires, front
<1>8. ASSUME Break  PROVE  Types'
  <2>1. /\ UNCHANGED <<pending, src, complete, from, after, front, lease>>
        /\ at' \in [Holder -> Location]
    BY <1>8 DEF Break, Goto, Location
  <2>2. faults' \in 0 .. MaxFaults /\ UNCHANGED <<silent, stolen>>
    BY <1>8, OutputAssumption DEF Break, Fault
  <2>3. CASE \E n \in full .. src : SendAurora(n, FALSE)
    BY <2>1, <2>2, <2>3, SendTypes DEF front
  <2>4. CASE UNCHANGED <<buffer, out, wires>>
    BY <2>1, <2>2, <2>4 DEF front, buffer, out, wires
  <2> QED
    BY <1>8, <2>3, <2>4 DEF Break
<1>9. ASSUME NEW c \in Call, Claim(c)  PROVE  Types'
  BY <1>9 DEF Claim, attempt, buffer, out, wires, front, history, Goto, Location,
     Holder
<1>10. ASSUME NEW c \in Call, AttachCall(c)  PROVE  Types'
  <2>1. revision + 1 \in Revision
    BY <1>10, RevisionLeft DEF IInv, AttachCall, Coming
  <2>2. /\ Attach(from[c]) /\ Goto(c, "attached")
        /\ UNCHANGED <<pending, src, complete, lease, from, after, buffer, pipe, front>>
    BY <1>10 DEF AttachCall
  <2>3. NewConsumer(from[c]) /\ from[c] \in Pages
    BY <2>2 DEF Attach, Holder
  <2>4. at' \in [Holder -> Location]
    BY <2>2 DEF Goto, Location
  <2>5. snap' = TRUE /\ UNCHANGED <<closed, faults, silent>> /\ stolen' \in BOOLEAN
    BY <2>2 DEF Attach
  <2> QED
    BY <2>1, <2>2, <2>3, <2>4, <2>5, NewConsumerTypes DEF buffer, front
<1>11. ASSUME NEW c \in Call, Bind(c)  PROVE  Types'
  <2>1. /\ UNCHANGED <<pending, src, complete, lease, from, after, buffer, snap, closed,
                       pipe, front, history>>
        /\ at' \in [Holder -> Location] /\ from[c] \in Pages
    BY <1>11 DEF Bind, Goto, Location, Holder
  <2>2. CASE chan = 0
    <3>1. revision + 1 \in Revision
      BY <1>11, RevisionLeft DEF IInv, Bind, Coming
    <3>2. NewConsumer(from[c])
      BY <1>11, <2>2 DEF Bind
    <3> QED
      BY <2>1, <3>1, <3>2, NewConsumerTypes DEF buffer, front, history
  <2>3. CASE chan # 0
    BY <1>11, <2>1, <2>3 DEF Bind, buffer, front, history
  <2> QED
    BY <2>2, <2>3
<1>12. ASSUME NEW c \in Call, FoundInMailbox(c)  PROVE  Types'
  <2>1. PICK e \in Event : Close(e)
    BY <1>12, CommitFacts DEF FoundInMailbox, Last
  <2>2. /\ UNCHANGED <<src, from, after, lease, buffer, front>> /\ complete' \in BOOLEAN
        /\ at' \in [Holder -> Location] /\ at[c] = "check"
    BY <1>12 DEF FoundInMailbox, Goto, Location, Holder
  <2>3. /\ pending' \in BOOLEAN /\ faults' \in 0 .. MaxFaults
        /\ UNCHANGED <<silent, stolen>>
    BY <1>12, CommitFacts DEF FoundInMailbox
  <2>4. lease # None
    BY <2>2, HolderLooks DEF IInv
  <2> QED
    BY <2>1, <2>2, <2>3, <2>4, CloseTypes DEF front, history, buffer
<1>13. ASSUME NEW c \in Call, LeaveSilently(c)  PROVE  Types'
  BY <1>13 DEF LeaveSilently, attempt, buffer, out, wires, front, history, Goto,
     Location, Holder, Fault
<1>14. ASSUME NEW c \in Call, Resume(c)  PROVE  Types'
  BY <1>14 DEF Resume, attempt, buffer, out, wires, front, history, Goto, Location,
     Holder
<1>15. ASSUME NEW c \in Call, Answer(c)  PROVE  Types'
  <2>1. /\ UNCHANGED <<pending, src, complete, lease, buffer, out, wires, page, list, history>>
        /\ at' \in [Holder -> Location]
    BY <1>15 DEF Answer, Goto, Location
  <2>2. from' \in [Holder -> Pages] /\ after' \in [Holder -> 0 .. MaxRev]
    <3>1. from' = [from EXCEPT ![c] = 1] /\ after' = [after EXCEPT ![c] = 0]
      BY <1>15 DEF Answer
    <3>2. 1 \in Pages /\ 0 \in 0 .. MaxRev
      BY DEF Pages
    <3> QED
      BY <3>1, <3>2
  <2>3. gate' \in {gate, None}
    BY <1>15 DEF Answer
  <2>4. view' \in {view, [view EXCEPT !.text = src]}
    BY <1>15 DEF Answer
  <2>5. view' \in [rev : 0 .. MaxRev, text : 0 .. MaxLen, ended : BOOLEAN]
    BY <2>4, ViewTyped
  <2>6. gate' \in Holder \cup {None}
    BY <2>3
  <2> QED
    BY <2>1, <2>2, <2>5, <2>6 DEF buffer, out, wires, history
<1>16. ASSUME Reload  PROVE  Types'
  BY <1>16 DEF Reload, attempt, buffer, out, wires, front, history, Goto, Location,
     Holder, Pages
<1>17. ASSUME Check  PROVE  Types'
  BY <1>17 DEF Check, attempt, buffer, out, wires, front, history, Goto, Location,
     Holder
<1>18. ASSUME CheckAnswered  PROVE  Types'
  <2>1. UNCHANGED <<pending, src, complete, lease, after, buffer, out, wires, page, view, history>>
    BY <1>18 DEF CheckAnswered
  <2>2. list' \in [Pages -> {"no", "asked", "attached", "pending"}]
    BY <1>18 DEF CheckAnswered
  <2>3. CASE UNCHANGED <<at, from, gate>>
    BY <2>1, <2>2, <2>3 DEF buffer, out, wires, history
  <2>4. ASSUME NEW c \in Call, Goto(c, "sent"), from' = [from EXCEPT ![c] = page], gate' = c
        PROVE  Types'
    <3>1. /\ at' \in [Holder -> Location] /\ from' \in [Holder -> Pages]
          /\ gate' \in Holder \cup {None}
      BY <2>4 DEF Goto, Location, Holder
    <3> QED
      BY <2>1, <2>2, <3>1 DEF buffer, out, wires, history
  <2> QED
    BY <1>18, <2>3, <2>4 DEF CheckAnswered
<1>19. ASSUME NEW p \in Pages, ListAttaches(p)  PROVE  Types'
  <2>1. /\ UNCHANGED <<pending, src, complete, attempt, buffer, pipe, page, view, gate>>
        /\ list' = [list EXCEPT ![p] = "attached"]
    BY <1>19 DEF ListAttaches
  <2>2. CASE lease # None /\ ~closed
    <3>1. revision + 1 \in Revision
      BY <1>19, RevisionLeft DEF IInv, ListAttaches, Asking
    <3>2. Attach(p)
      BY <1>19, <2>2 DEF ListAttaches
    <3>3. NewConsumer(p)
      BY <3>2 DEF Attach
    <3>4. snap' = TRUE /\ UNCHANGED <<closed, faults, silent>> /\ stolen' \in BOOLEAN
      BY <3>2 DEF Attach
    <3> QED
      BY <2>1, <3>1, <3>3, <3>4, NewConsumerTypes DEF buffer, attempt
  <2>3. CASE ~(lease # None /\ ~closed)
    <3>1. UNCHANGED <<out, dest, history>>
      BY <1>19, <2>3 DEF ListAttaches
    <3> QED
      BY <2>1, <3>1 DEF buffer, attempt, out, history
  <2> QED
    BY <2>2, <2>3
<1>20. ASSUME NEW p \in Pages, ListReads(p)  PROVE  Types'
  BY <1>20 DEF ListReads, attempt, buffer, out, wires, front, history, Goto, Location,
     Holder
<1>21. ASSUME NEW r \in Revision, Receive(r)  PROVE  Types'
  <2> DEFINE e == Head(pipe[r])
  <2>1. pipe[r] \in Seq(Event) /\ pipe[r] # <<>> /\ dest[r] = page
    BY <1>21 DEF Receive
  <2>2. e \in Event /\ e = pipe[r][1] /\ Tail(pipe[r]) \in Seq(Event)
    BY <2>1, HeadTailProperties
  <2>3. pipe' \in [Revision -> Seq(Event)]
    BY <1>21, <2>2 DEF Receive
  <2>4. UNCHANGED <<pending, src, complete, attempt, buffer, out, dest, page, list, history>>
    BY <1>21 DEF Receive
  <2>5. CASE Accepts(r)
    <3>1. Apply(e, r)
      BY <1>21, <2>5 DEF Receive
    <3>2. e.type = "delta" => e.base = view.text
      BY <2>1, <2>2, <2>5 DEF IInv, Heads, HeadOK
    <3>3. e.len \in 0 .. MaxLen /\ view.text + (e.len - view.text) = e.len
      BY <2>2, OutputAssumption DEF Event
    <3>4. /\ view'.text \in 0 .. MaxLen /\ view'.rev = r /\ view'.ended \in BOOLEAN
          /\ view' = [rev |-> view'.rev, text |-> view'.text, ended |-> view'.ended]
      <4> HIDE DEF e
      <4> QED
        BY <3>1, <3>2, <3>3 DEF Apply
    <3>5. view' \in [rev : 0 .. MaxRev, text : 0 .. MaxLen, ended : BOOLEAN]
      BY <3>4, OutputAssumption DEF Revision
    <3>6. gate' \in Holder \cup {None}
      BY <3>1 DEF Apply, Holder
    <3> QED
      BY <2>3, <2>4, <3>5, <3>6 DEF attempt, buffer, out, history
  <2>6. CASE ~Accepts(r)
    BY <1>21, <2>3, <2>4, <2>6 DEF Receive, attempt, buffer, out, history
  <2> QED
    BY <2>5, <2>6
<1>22. CASE UNCHANGED vars
  BY <1>22 DEF vars, attempt, buffer, out, wires, front, history
<1> QED
  BY <1>1, <1>2, <1>3, <1>4, <1>5, <1>6, <1>7, <1>8, <1>9, <1>10, <1>11, <1>12, <1>13,
     <1>14, <1>15, <1>16, <1>17, <1>18, <1>19, <1>20, <1>21, <1>22
  DEF Next, Holding, CallStep, Listing
\* Roles: the lease moves, and only its holder works.
LEMMA RolesKept ==
  ASSUME IInv, [Next]_vars
  PROVE  Roles'
<1> /\ lease \in Holder \cup {None} /\ at \in [Holder -> Location] /\ pending \in BOOLEAN
    /\ closed \in BOOLEAN
  BY DEF IInv, Types, TypeOK
<1> Roles
  BY DEF IInv
<1> USE OutputAssumption DEF Roles, Working, Waiting, Goto, Holder
<1>1. ASSUME Upstream  PROVE  Roles'
  BY <1>1 DEF Upstream, attempt, buffer, out, wires, front, history
<1>2. ASSUME Window  PROVE  Roles'
  <2>1. UNCHANGED <<pending, lease, at, closed>>
    BY <1>2 DEF Window, attempt, SendAurora
  <2> QED
    BY <2>1
<1>3. ASSUME SnapshotEnd  PROVE  Roles'
  BY <1>3 DEF SnapshotEnd, attempt, buffer, out, wires, front, history, SendAurora
<1>4. ASSUME Terminal  PROVE  Roles'
  BY <1>4 DEF Terminal, attempt, buffer, out, wires, front, history, SendAurora
<1>5. ASSUME Finish  PROVE  Roles'
  <2>1. lease' = lease /\ Goto(lease, "told") /\ closed' \in BOOLEAN /\ lease # None
    BY <1>5 DEF Finish, Commit, Close
  <2> QED
    BY <2>1
<1>6. ASSUME TellBroken  PROVE  Roles'
  <2>1. lease' = lease /\ Goto(lease, "told") /\ lease # None
    BY <1>6 DEF TellBroken
  <2> QED
    BY <2>1
<1>7. ASSUME Leave  PROVE  Roles'
  BY <1>7 DEF Leave, attempt, buffer, out, wires, front, history
<1>8. ASSUME Break  PROVE  Roles'
  BY <1>8 DEF Break, attempt, buffer, out, wires, front, history, SendAurora
<1>9. ASSUME NEW c \in Call, Claim(c)  PROVE  Roles'
  BY <1>9 DEF Claim, attempt, buffer, out, wires, front, history
<1>10. ASSUME NEW c \in Call, AttachCall(c)  PROVE  Roles'
  BY <1>10 DEF AttachCall, attempt, buffer, out, wires, front, history, Attach,
     NewConsumer
<1>11. ASSUME NEW c \in Call, Bind(c)  PROVE  Roles'
  <2>1. UNCHANGED <<pending, lease, closed>> /\ at[c] = "claimed" /\ Goto(c, "check")
    BY <1>11 DEF Bind
  <2> QED
    BY <2>1
<1>12. ASSUME NEW c \in Call, FoundInMailbox(c)  PROVE  Roles'
  <2>1. lease' = lease /\ Goto(c, "told") /\ at[c] = "check"
    BY <1>12 DEF FoundInMailbox
  <2>2. c = lease
    BY <2>1
  <2> QED
    BY <2>1, <2>2
<1>13. ASSUME NEW c \in Call, LeaveSilently(c)  PROVE  Roles'
  BY <1>13 DEF LeaveSilently, attempt, buffer, out, wires, front, history
<1>14. ASSUME NEW c \in Call, Resume(c)  PROVE  Roles'
  BY <1>14 DEF Resume, attempt, buffer, out, wires, front, history
<1>15. ASSUME NEW c \in Call, Answer(c)  PROVE  Roles'
  BY <1>15 DEF Answer, attempt, buffer, out, wires, front, history
<1>16. ASSUME Reload  PROVE  Roles'
  <2>1. UNCHANGED <<pending, lease, at, closed>>
    BY <1>16 DEF Reload, attempt, out
  <2> QED
    BY <2>1
<1>17. ASSUME Check  PROVE  Roles'
  <2>1. UNCHANGED <<pending, lease, at, closed>>
    BY <1>17 DEF Check, attempt, out
  <2> QED
    BY <2>1
<1>18. ASSUME CheckAnswered  PROVE  Roles'
  BY <1>18 DEF CheckAnswered, attempt, buffer, out, wires, front, history
<1>19. ASSUME NEW p \in Pages, ListAttaches(p)  PROVE  Roles'
  <2>1. UNCHANGED <<pending, lease, at, closed>>
    BY <1>19 DEF ListAttaches, Attach, attempt, out
  <2> QED
    BY <2>1
<1>20. ASSUME NEW p \in Pages, ListReads(p)  PROVE  Roles'
  <2>1. UNCHANGED <<pending, lease, at, closed>>
    BY <1>20 DEF ListReads, attempt, out
  <2> QED
    BY <2>1
<1>21. ASSUME NEW r \in Revision, Receive(r)  PROVE  Roles'
  <2>1. UNCHANGED <<pending, lease, at, closed>>
    BY <1>21 DEF Receive, attempt, out
  <2> QED
    BY <2>1
<1>22. CASE UNCHANGED vars
  BY <1>22 DEF vars, attempt, buffer, out, wires, front, history
<1> QED
  BY <1>1, <1>2, <1>3, <1>4, <1>5, <1>6, <1>7, <1>8, <1>9, <1>10, <1>11, <1>12, <1>13,
     <1>14, <1>15, <1>16, <1>17, <1>18, <1>19, <1>20, <1>21, <1>22
  DEF Next, Holding, CallStep, Listing

\* So does a new consumer, on a page that was loaded.
LEMMA NewConsumers ==
  ASSUME Types, Consumers, revision + 1 \in Revision, NEW p \in Pages, p <= page, NewConsumer(p),
         UNCHANGED <<from, pipe, page, view>>,
         \A q \in Pages : list'[q] # "no" => list[q] # "no"
  PROVE  Consumers'
<1>1. revision \in Nat /\ view.rev \in Nat /\ dest \in [Revision -> Pages]
  BY OutputAssumption DEF Types, TypeOK, Revision
<1>2. revision' = revision + 1 /\ chan' = revision + 1 /\ dest' = [dest EXCEPT ![revision + 1] = p]
  BY DEF NewConsumer
<1>3. \A r \in Revision : dest'[r] <= page
  BY <1>1, <1>2 DEF Consumers
<1>4. \A r \in Revision : r > revision' => pipe'[r] = <<>>
  BY <1>1, <1>2 DEF Consumers, Revision
<1>5. view'.rev <= revision'
  BY <1>1, <1>2 DEF Consumers
<1> QED
  BY <1>2, <1>3, <1>4, <1>5 DEF Consumers

\* A put leaves the consumers as they are.
LEMMA PutConsumers ==
  ASSUME Types, Consumers, UNCHANGED <<front, from, revision, dest>>, NEW e \in Event, Put(e)
  PROVE  Consumers'
<1>1. chan' = chan /\ chan = revision
  BY DEF Consumers, Put, Revision
<1>2. \A r \in Revision : r # chan => pipe'[r] = pipe[r]
  BY DEF Put, Types, TypeOK
<1>3. \A r \in Revision : r > revision => pipe'[r] = <<>>
  BY <1>1, <1>2, OutputAssumption DEF Consumers, Revision
<1> QED
  BY <1>1, <1>3 DEF Consumers, front

\* Sending leaves the consumers as they are.
LEMMA SendConsumers ==
  ASSUME Types, Consumers, NEW f \in BOOLEAN, NEW n \in full .. src, SendAurora(n, f),
         UNCHANGED <<front, from>>
  PROVE  Consumers'
<1>1. UNCHANGED <<revision, dest>> /\ (Lost \/ Nothing \/ \E e \in Event : Put(e))
  BY SendFacts
<1>2. CASE Lost \/ Nothing
  BY <1>1, <1>2 DEF Consumers, Lost, Nothing, front
<1>3. ASSUME NEW e \in Event, Put(e)  PROVE Consumers'
  BY <1>1, <1>3, PutConsumers
<1> QED
  BY <1>1, <1>2, <1>3

\* What a new consumer changes is its own channel.
LEMMA AnewAt ==
  ASSUME Types, Consumers, NEW e \in Event, PutAnew(e)
  PROVE  /\ revision + 1 \in Revision
         /\ \A r \in Revision : r # revision + 1 => pipe'[r] = pipe[r] /\ dest'[r] = dest[r]
         /\ \A r \in Revision :
              \/ pipe'[r] = pipe[r] /\ (dest'[r] = dest[r] \/ pipe[r] = <<>>)
              \/ Len(pipe'[r]) = 1 /\ pipe'[r][1] = e
<1>1. revision + 1 \in Revision
  BY RevisionRoom DEF PutAnew
<1>2. pipe[revision + 1] = <<>> /\ pipe \in [Revision -> Seq(Event)]
      /\ dest \in [Revision -> Pages]
  BY <1>1, CountRevisions DEF Consumers, Types, TypeOK
<1>3. \A r \in Revision : r # revision + 1 => pipe'[r] = pipe[r] /\ dest'[r] = dest[r]
  BY <1>2 DEF PutAnew
<1>4. Len(Append(pipe[revision + 1], e)) = 1 /\ Append(pipe[revision + 1], e)[1] = e
  BY <1>2
<1>5. \/ pipe'[revision + 1] = <<>>
      \/ Len(pipe'[revision + 1]) = 1 /\ pipe'[revision + 1][1] = e
  BY <1>1, <1>2, <1>4 DEF PutAnew
<1> QED
  BY <1>1, <1>2, <1>3, <1>5

\* A last event leaves the consumers in order.
LEMMA CloseConsumers ==
  ASSUME Types, Consumers, lease # None, NEW e \in Event, Close(e), UNCHANGED <<front, from>>
  PROVE  Consumers'
<1>1. \/ UNCHANGED <<revision, dest>> /\ (Lost \/ Put(e))
      \/ PutAnew(e)
  BY CloseFacts
<1>2. CASE UNCHANGED <<revision, dest>> /\ Lost
  BY <1>2 DEF Consumers, Lost, front
<1>3. CASE UNCHANGED <<revision, dest>> /\ Put(e)
  BY <1>3, PutConsumers
<1>4. CASE PutAnew(e)
  <2>1. /\ revision' = revision + 1 /\ chan' \in {0, revision'} /\ revision \in Nat
        /\ view.rev \in Nat /\ dest' = [dest EXCEPT ![revision + 1] = from[lease]]
        /\ dest \in [Revision -> Pages]
    BY <1>4, CountRevisions, OutputAssumption DEF PutAnew, Types, TypeOK
  <2>2. from[lease] <= page
    BY DEF Consumers, Types, TypeOK
  <2>3. \A r \in Revision : dest'[r] <= page
    BY <2>1, <2>2 DEF Consumers
  <2>4. \A r \in Revision : r > revision' => pipe'[r] = <<>>
    <3> SUFFICES ASSUME NEW r \in Revision, r > revision'  PROVE pipe'[r] = <<>>
      OBVIOUS
    <3>1. r # revision + 1 /\ r > revision
      BY <2>1 DEF Revision
    <3> QED
      BY <1>4, <3>1, AnewAt DEF Consumers
  <2> QED
    BY <2>1, <2>3, <2>4 DEF Consumers, front
<1> QED
  BY <1>1, <1>2, <1>3, <1>4

\* Consumers: a new one takes the next revision.
LEMMA ConsumersKept ==
  ASSUME IInv, [Next]_vars
  PROVE  Consumers'
<1> Types /\ Consumers /\ Roomy
  BY DEF IInv
<1> /\ full \in 0 .. MaxLen /\ src \in 0 .. MaxLen /\ full <= src
    /\ from \in [Holder -> Pages] /\ chan \in 0 .. revision /\ revision \in Revision
    /\ pipe \in [Revision -> Seq(Event)] /\ dest \in [Revision -> Pages]
    /\ page \in Pages /\ view \in [rev : 0 .. MaxRev, text : 0 .. MaxLen, ended : BOOLEAN]
    /\ list \in [Pages -> {"no", "asked", "attached", "pending"}]
  BY DEF IInv, Types, TypeOK
<1> USE OutputAssumption DEF Consumers, Revision, Holder
<1>1. ASSUME Upstream  PROVE  Consumers'
  BY <1>1 DEF Upstream, attempt, out, wires, front
<1>2. ASSUME Window  PROVE  Consumers'
  <2>1. UNCHANGED <<front, from>>
    BY <1>2 DEF Window, attempt
  <2>2. PICK n \in full .. src, f \in BOOLEAN : SendAurora(n, f)
    BY <1>2, full \in full .. src, src \in full .. src DEF Window
  <2> QED
    BY <2>1, <2>2, SendConsumers
<1>3. ASSUME SnapshotEnd  PROVE  Consumers'
  <2>1. UNCHANGED <<front, from>>
    BY <1>3 DEF SnapshotEnd, attempt
  <2>2. PICK n \in full .. src, f \in BOOLEAN : SendAurora(n, f)
    BY <1>3, full \in full .. src, src \in full .. src DEF SnapshotEnd
  <2> QED
    BY <2>1, <2>2, SendConsumers
<1>4. ASSUME Terminal  PROVE  Consumers'
  <2>1. UNCHANGED <<front, from>>
    BY <1>4 DEF Terminal, attempt
  <2>2. PICK n \in full .. src, f \in BOOLEAN : SendAurora(n, f)
    BY <1>4, full \in full .. src, src \in full .. src DEF Terminal
  <2> QED
    BY <2>1, <2>2, SendConsumers
<1>5. ASSUME Finish  PROVE  Consumers'
  <2>1. UNCHANGED <<front, from>>
    BY <1>5 DEF Finish, attempt
  <2>2. lease # None /\ \E e \in Event : Close(e)
    BY <1>5, CommitFacts DEF Finish, Last
  <2> QED
    BY <2>1, <2>2, CloseConsumers
<1>6. ASSUME TellBroken  PROVE  Consumers'
  <2>1. UNCHANGED <<front, from>> /\ lease # None
    BY <1>6, TellFacts
  <2>2. UNCHANGED <<out, wires>> \/ \E e \in Event : Close(e)
    BY <1>6, TellFacts DEF Last
  <2>3. CASE UNCHANGED <<out, wires>>
    BY <2>1, <2>3 DEF out, wires, front
  <2> QED
    BY <2>1, <2>2, <2>3, CloseConsumers
<1>7. ASSUME Leave  PROVE  Consumers'
  BY <1>7 DEF Leave, wires, front
<1>8. ASSUME Break  PROVE  Consumers'
  <2>1. UNCHANGED <<front, from>>
    BY <1>8 DEF Break, attempt
  <2>2. CASE \E n \in full .. src : SendAurora(n, FALSE)
    BY <2>1, <2>2, SendConsumers
  <2>3. CASE UNCHANGED <<buffer, out, wires>>
    BY <2>1, <2>3 DEF out, wires, front
  <2> QED
    BY <1>8, <2>2, <2>3 DEF Break
<1>9. ASSUME NEW c \in Call, Claim(c)  PROVE  Consumers'
  BY <1>9 DEF Claim, attempt, out, wires, front
<1>10. ASSUME NEW c \in Call, AttachCall(c)  PROVE  Consumers'
  <2>1. revision + 1 \in Revision
    BY <1>10, RevisionLeft DEF AttachCall, Coming
  <2>2. /\ NewConsumer(from[c]) /\ UNCHANGED <<from, pipe, front>> /\ from[c] \in Pages
        /\ from[c] <= page
    BY <1>10 DEF AttachCall, Attach
  <2> QED
    BY <2>1, <2>2, NewConsumers DEF front
<1>11. ASSUME NEW c \in Call, Bind(c)  PROVE  Consumers'
  <2>1. UNCHANGED <<from, pipe, front>> /\ from[c] \in Pages /\ from[c] <= page
    BY <1>11 DEF Bind
  <2>2. CASE chan = 0
    <3>1. revision + 1 \in Revision
      BY <1>11, RevisionLeft DEF Bind, Coming
    <3>2. NewConsumer(from[c])
      BY <1>11, <2>2 DEF Bind
    <3> QED
      BY <2>1, <3>1, <3>2, NewConsumers DEF front
  <2>3. CASE chan # 0
    BY <1>11, <2>1, <2>3 DEF Bind, front
  <2> QED
    BY <2>2, <2>3
<1>12. ASSUME NEW c \in Call, FoundInMailbox(c)  PROVE  Consumers'
  <2>1. UNCHANGED <<front, from>>
    BY <1>12 DEF FoundInMailbox, attempt
  <2>2. at[c] = "check" /\ \E e \in Event : Close(e)
    BY <1>12, CommitFacts DEF FoundInMailbox, Last
  <2>3. lease # None
    BY <2>2, HolderLooks DEF IInv
  <2> QED
    BY <2>1, <2>2, <2>3, CloseConsumers
<1>13. ASSUME NEW c \in Call, LeaveSilently(c)  PROVE  Consumers'
  BY <1>13 DEF LeaveSilently, attempt, out, wires, front
<1>14. ASSUME NEW c \in Call, Resume(c)  PROVE  Consumers'
  BY <1>14 DEF Resume, attempt, out, wires, front
<1>15. ASSUME NEW c \in Call, Answer(c)  PROVE  Consumers'
  <2>1. /\ UNCHANGED <<out, wires, page, list>> /\ from' = [from EXCEPT ![c] = 1]
        /\ view'.rev = view.rev
    BY <1>15 DEF Answer
  <2>2. 1 <= page
    BY DEF Pages
  <2> QED
    BY <2>1, <2>2 DEF out, wires
<1>16. ASSUME Reload  PROVE  Consumers'
  <2>1. /\ UNCHANGED <<chan, revision, dest, from, list>> /\ page' = page + 1 /\ view'.rev = 0
        /\ pipe' = [r \in Revision |-> <<>>]
    BY <1>16 DEF Reload, attempt, out
  <2>2. page \in Nat
    BY DEF Pages
  <2>3. /\ \A r \in Revision : dest[r] <= page + 1
        /\ \A h \in Holder : from[h] <= page + 1
        /\ \A p \in Pages : list[p] # "no" => p <= page + 1
    <3>1. \A n \in Pages : n <= page => n <= page + 1
      BY <2>2 DEF Pages
    <3> QED
      BY <3>1
  <2> QED
    BY <2>1, <2>3
<1>17. ASSUME Check  PROVE  Consumers'
  <2>1. UNCHANGED <<out, wires, from, view, page>> /\ list' = [list EXCEPT ![page] = "asked"]
    BY <1>17 DEF Check, attempt
  <2>2. \A p \in Pages : list'[p] # "no" => p <= page
    BY <2>1 DEF Pages
  <2> QED
    BY <2>1, <2>2 DEF out, wires
<1>18. ASSUME CheckAnswered  PROVE  Consumers'
  <2>1. UNCHANGED <<out, wires, page, view>> /\ list' = [list EXCEPT ![page] = "no"]
    BY <1>18 DEF CheckAnswered
  <2>2. \A h \in Holder : from'[h] \in {from[h], page}
    BY <1>18 DEF CheckAnswered
  <2>3. ASSUME NEW h \in Holder  PROVE from'[h] <= page
    <3>1. from[h] <= page /\ page <= page
      BY DEF Pages
    <3> QED
      BY <2>2, <3>1
  <2>4. \A p \in Pages : list'[p] # "no" => p <= page
    BY <2>1
  <2> QED
    BY <2>1, <2>3, <2>4 DEF out, wires
<1>19. ASSUME NEW p \in Pages, ListAttaches(p)  PROVE  Consumers'
  <2>1. UNCHANGED <<from, pipe, page, view>> /\ p <= page /\ list' = [list EXCEPT ![p] = "attached"]
    BY <1>19 DEF ListAttaches, attempt
  <2>4. \A q \in Pages : list'[q] # "no" => list[q] # "no"
    BY <1>19, <2>1 DEF ListAttaches
  <2>2. CASE lease # None /\ ~closed
    <3>1. revision + 1 \in Revision
      BY <1>19, RevisionLeft DEF ListAttaches, Asking
    <3>2. NewConsumer(p)
      BY <1>19, <2>2 DEF ListAttaches, Attach
    <3> QED
      BY <2>1, <2>4, <3>1, <3>2, NewConsumers
  <2>3. CASE ~(lease # None /\ ~closed)
    <3>1. UNCHANGED <<out, dest>>
      BY <1>19, <2>3 DEF ListAttaches
    <3> QED
      BY <2>1, <3>1 DEF out
  <2> QED
    BY <2>2, <2>3
<1>20. ASSUME NEW p \in Pages, ListReads(p)  PROVE  Consumers'
  BY <1>20 DEF ListReads, attempt, out, wires
<1>21. ASSUME NEW r \in Revision, Receive(r)  PROVE  Consumers'
  <2>1. /\ UNCHANGED <<attempt, out, dest, page, list>> /\ pipe' = [pipe EXCEPT ![r] = Tail(@)]
        /\ pipe[r] # <<>>
    BY <1>21 DEF Receive
  <2>2. r <= revision
    BY <2>1
  <2>3. view'.rev \in {view.rev, r}
    BY <1>21 DEF Receive, Apply
  <2>4. \A s \in Revision : s > revision => pipe'[s] = <<>>
    BY <2>1, <2>2
  <2> QED
    BY <2>1, <2>2, <2>3, <2>4 DEF attempt, out
<1>22. CASE UNCHANGED vars
  BY <1>22 DEF vars, attempt, out, wires, front
<1> QED
  BY <1>1, <1>2, <1>3, <1>4, <1>5, <1>6, <1>7, <1>8, <1>9, <1>10, <1>11, <1>12, <1>13,
     <1>14, <1>15, <1>16, <1>17, <1>18, <1>19, <1>20, <1>21, <1>22
  DEF Next, Holding, CallStep, Listing

-----------------------------------------------------------------------------
\* A step that gives no revision out and adds nobody who may need one.
LEMMA RoomySame ==
  ASSUME Types, Roomy, revision' = revision, Coming' \subseteq Coming, Asking' \subseteq Asking
  PROVE  Roomy'
<1>1. /\ IsFiniteSet(Coming) /\ Cardinality(Coming) \in Nat
      /\ IsFiniteSet(Asking) /\ Cardinality(Asking) \in Nat
      /\ Cardinality(Coming') \in Nat /\ Cardinality(Asking') \in Nat
  BY FiniteCounts DEF Coming, Asking
<1>2. Cardinality(Coming') <= Cardinality(Coming) /\ Cardinality(Asking') <= Cardinality(Asking)
  BY <1>1, FS_Subset
<1> QED
  BY <1>1, <1>2, CountRevisions DEF Roomy

\* A revision given out is one that was left.
LEMMA RoomyCall ==
  ASSUME Types, Roomy, revision' = revision + 1, NEW c \in Coming,
         Coming' \subseteq Coming \ {c}, Asking' \subseteq Asking
  PROVE  Roomy'
<1>1. /\ IsFiniteSet(Coming) /\ Cardinality(Coming) \in Nat
      /\ IsFiniteSet(Asking) /\ Cardinality(Asking) \in Nat
      /\ Cardinality(Coming') \in Nat /\ Cardinality(Asking') \in Nat
  BY FiniteCounts DEF Coming, Asking
<1>2. IsFiniteSet(Coming \ {c}) /\ Cardinality(Coming \ {c}) = Cardinality(Coming) - 1
  BY <1>1, FS_RemoveElement
<1>3. Cardinality(Coming') <= Cardinality(Coming) - 1 /\ Cardinality(Asking') <= Cardinality(Asking)
  BY <1>1, <1>2, FS_Subset
<1> QED
  BY <1>1, <1>3, CountRevisions DEF Roomy

\* The same for a listing that attaches.
LEMMA RoomyList ==
  ASSUME Types, Roomy, revision' = revision + 1, NEW p \in Asking,
         Asking' \subseteq Asking \ {p}, Coming' \subseteq Coming
  PROVE  Roomy'
<1>1. /\ IsFiniteSet(Coming) /\ Cardinality(Coming) \in Nat
      /\ IsFiniteSet(Asking) /\ Cardinality(Asking) \in Nat
      /\ Cardinality(Coming') \in Nat /\ Cardinality(Asking') \in Nat
  BY FiniteCounts DEF Coming, Asking
<1>2. IsFiniteSet(Asking \ {p}) /\ Cardinality(Asking \ {p}) = Cardinality(Asking) - 1
  BY <1>1, FS_RemoveElement
<1>3. Cardinality(Asking') <= Cardinality(Asking) - 1 /\ Cardinality(Coming') <= Cardinality(Coming)
  BY <1>1, <1>2, FS_Subset
<1> QED
  BY <1>1, <1>3, CountRevisions DEF Roomy

\* Who is let in finds room.
LEMMA RoomyAdd ==
  ASSUME Types, Room, revision' = revision, NEW x,
         \/ Coming' \subseteq Coming \cup {x} /\ Asking' \subseteq Asking
         \/ Asking' \subseteq Asking \cup {x} /\ Coming' \subseteq Coming
  PROVE  Roomy'
<1>1. /\ IsFiniteSet(Coming) /\ Cardinality(Coming) \in Nat
      /\ IsFiniteSet(Asking) /\ Cardinality(Asking) \in Nat
      /\ Cardinality(Coming') \in Nat /\ Cardinality(Asking') \in Nat
  BY FiniteCounts DEF Coming, Asking
<1>2. revision + Cardinality(Coming) + Cardinality(Asking) < MaxRev
  BY DEF Room, Coming, Asking
<1>3. /\ IsFiniteSet(Coming \cup {x}) /\ Cardinality(Coming \cup {x}) <= Cardinality(Coming) + 1
      /\ IsFiniteSet(Asking \cup {x}) /\ Cardinality(Asking \cup {x}) <= Cardinality(Asking) + 1
      /\ Cardinality(Coming \cup {x}) \in Nat /\ Cardinality(Asking \cup {x}) \in Nat
  <2>1. /\ IsFiniteSet(Coming \cup {x})
        /\ Cardinality(Coming \cup {x})
             = IF x \in Coming THEN Cardinality(Coming) ELSE Cardinality(Coming) + 1
    BY <1>1, FS_AddElement
  <2>2. /\ IsFiniteSet(Asking \cup {x})
        /\ Cardinality(Asking \cup {x})
             = IF x \in Asking THEN Cardinality(Asking) ELSE Cardinality(Asking) + 1
    BY <1>1, FS_AddElement
  <2> QED
    BY <1>1, <2>1, <2>2
<1>4. \/ Cardinality(Coming') <= Cardinality(Coming) + 1 /\ Cardinality(Asking') <= Cardinality(Asking)
      \/ Cardinality(Asking') <= Cardinality(Asking) + 1 /\ Cardinality(Coming') <= Cardinality(Coming)
  <2>1. CASE Coming' \subseteq Coming \cup {x} /\ Asking' \subseteq Asking
    <3>1. /\ Cardinality(Coming') <= Cardinality(Coming \cup {x})
          /\ Cardinality(Asking') <= Cardinality(Asking)
      BY <1>1, <1>3, <2>1, FS_Subset
    <3> QED
      BY <1>1, <1>3, <3>1
  <2>2. CASE Asking' \subseteq Asking \cup {x} /\ Coming' \subseteq Coming
    <3>1. /\ Cardinality(Asking') <= Cardinality(Asking \cup {x})
          /\ Cardinality(Coming') <= Cardinality(Coming)
      BY <1>1, <1>3, <2>2, FS_Subset
    <3> QED
      BY <1>1, <1>3, <3>1
  <2> QED
    BY <2>1, <2>2
<1> QED
  BY <1>1, <1>2, <1>4, CountRevisions DEF Roomy

\* A last event takes a revision where there is room.
LEMMA RoomyClose ==
  ASSUME Types, Roomy, NEW e \in Event, Close(e), UNCHANGED list,
         \A c \in Call : at'[c] \in {"sent", "claimed"} => at[c] \in {"sent", "claimed"}
  PROVE  Roomy'
<1>1. Coming' \subseteq Coming /\ Asking' = Asking
  BY DEF Coming, Asking
<1>2. revision' = revision \/ (Room /\ revision' = revision + 1)
  BY CloseFacts DEF PutAnew
<1>3. ASSUME Room, revision' = revision + 1  PROVE Roomy'
  <2>1. /\ IsFiniteSet(Coming) /\ Cardinality(Coming) \in Nat
        /\ Cardinality(Asking) \in Nat /\ Cardinality(Coming') \in Nat
    BY FiniteCounts DEF Coming, Asking
  <2>2. Cardinality(Coming') <= Cardinality(Coming)
    BY <1>1, <2>1, FS_Subset
  <2>3. revision + Cardinality(Coming) + Cardinality(Asking) < MaxRev
    BY <1>3 DEF Room, Coming, Asking
  <2> QED
    BY <1>1, <1>3, <2>1, <2>2, <2>3, CountRevisions DEF Roomy
<1> QED
  BY <1>1, <1>2, <1>3, RoomySame

\* Roomy: who takes a revision is no longer to come.
LEMMA RoomyKept ==
  ASSUME IInv, [Next]_vars
  PROVE  Roomy'
<1> Types /\ Roomy /\ Roles
  BY DEF IInv
<1> /\ at \in [Holder -> Location] /\ list \in [Pages -> {"no", "asked", "attached", "pending"}]
    /\ Call \subseteq Holder /\ page \in Pages
  BY DEF Types, TypeOK, Holder
<1>1. ASSUME Upstream  PROVE  Roomy'
  <2>1. revision' = revision
    BY <1>1 DEF Upstream, attempt, out, front
  <2>2. \A x \in Call : at'[x] \in {"sent", "claimed"} => at[x] \in {"sent", "claimed"}
    BY <1>1 DEF Upstream, attempt, out, front
  <2>3. \A x \in Pages : list'[x] = "asked" => list[x] = "asked"
    BY <1>1 DEF Upstream, attempt, out, front
  <2> QED
    BY <2>1, <2>2, <2>3, RoomySame DEF Coming, Asking
<1>2. ASSUME Window  PROVE  Roomy'
  <2>1. revision' = revision
    BY <1>2 DEF Window, attempt, front, SendAurora
  <2>2. \A x \in Call : at'[x] \in {"sent", "claimed"} => at[x] \in {"sent", "claimed"}
    BY <1>2 DEF Window, attempt, front, SendAurora
  <2>3. \A x \in Pages : list'[x] = "asked" => list[x] = "asked"
    BY <1>2 DEF Window, attempt, front, SendAurora
  <2> QED
    BY <2>1, <2>2, <2>3, RoomySame DEF Coming, Asking
<1>3. ASSUME SnapshotEnd  PROVE  Roomy'
  <2>1. revision' = revision
    BY <1>3 DEF SnapshotEnd, front, Goto, SendAurora
  <2>2. \A x \in Call : at'[x] \in {"sent", "claimed"} => at[x] \in {"sent", "claimed"}
    BY <1>3 DEF SnapshotEnd, front, Goto, SendAurora
  <2>3. \A x \in Pages : list'[x] = "asked" => list[x] = "asked"
    BY <1>3 DEF SnapshotEnd, front, Goto, SendAurora
  <2> QED
    BY <2>1, <2>2, <2>3, RoomySame DEF Coming, Asking
<1>4. ASSUME Terminal  PROVE  Roomy'
  <2>1. revision' = revision
    BY <1>4 DEF Terminal, front, Goto, SendAurora
  <2>2. \A x \in Call : at'[x] \in {"sent", "claimed"} => at[x] \in {"sent", "claimed"}
    BY <1>4 DEF Terminal, front, Goto, SendAurora
  <2>3. \A x \in Pages : list'[x] = "asked" => list[x] = "asked"
    BY <1>4 DEF Terminal, front, Goto, SendAurora
  <2> QED
    BY <2>1, <2>2, <2>3, RoomySame DEF Coming, Asking
<1>5. ASSUME Finish  PROVE  Roomy'
  <2>1. list' = list
    BY <1>5 DEF Finish, front
  <2>2. \A x \in Call : at'[x] \in {"sent", "claimed"} => at[x] \in {"sent", "claimed"}
    BY <1>5 DEF Finish, Goto
  <2>3. \E e \in Event : Close(e)
    BY <1>5, CommitFacts DEF Finish, Last
  <2> QED
    BY <2>1, <2>2, <2>3, RoomyClose
<1>6. ASSUME TellBroken  PROVE  Roomy'
  <2>1. list' = list
    BY <1>6 DEF TellBroken, front
  <2>2. \A x \in Call : at'[x] \in {"sent", "claimed"} => at[x] \in {"sent", "claimed"}
    BY <1>6 DEF TellBroken, Goto
  <2>3. UNCHANGED <<out, wires>> \/ \E e \in Event : Close(e)
    BY <1>6, TellFacts DEF Last
  <2>4. CASE UNCHANGED <<out, wires>>
    <3>1. revision' = revision /\ Coming' \subseteq Coming /\ Asking' = Asking
      BY <2>1, <2>2, <2>4 DEF out, Coming, Asking
    <3> QED
      BY <3>1, RoomySame
  <2> QED
    BY <2>1, <2>2, <2>3, <2>4, RoomyClose
<1>7. ASSUME Leave  PROVE  Roomy'
  <2>1. revision' = revision
    BY <1>7 DEF Leave, front, Goto
  <2>2. \A x \in Call : at'[x] \in {"sent", "claimed"} => at[x] \in {"sent", "claimed"}
    BY <1>7 DEF Leave, front, Goto
  <2>3. \A x \in Pages : list'[x] = "asked" => list[x] = "asked"
    BY <1>7 DEF Leave, front, Goto
  <2> QED
    BY <2>1, <2>2, <2>3, RoomySame DEF Coming, Asking
<1>8. ASSUME Break  PROVE  Roomy'
  <2>1. revision' = revision
    BY <1>8 DEF Break, front, out, Goto, SendAurora
  <2>2. \A x \in Call : at'[x] \in {"sent", "claimed"} => at[x] \in {"sent", "claimed"}
    BY <1>8 DEF Break, front, out, Goto, SendAurora
  <2>3. \A x \in Pages : list'[x] = "asked" => list[x] = "asked"
    BY <1>8 DEF Break, front, out, Goto, SendAurora
  <2> QED
    BY <2>1, <2>2, <2>3, RoomySame DEF Coming, Asking
<1>9. ASSUME NEW c \in Call, Claim(c)  PROVE  Roomy'
  <2>1. revision' = revision
    BY <1>9 DEF Claim, out, front, Goto
  <2>2. \A x \in Call : at'[x] \in {"sent", "claimed"} => at[x] \in {"sent", "claimed"}
    BY <1>9 DEF Claim, out, front, Goto
  <2>3. \A x \in Pages : list'[x] = "asked" => list[x] = "asked"
    BY <1>9 DEF Claim, out, front, Goto
  <2> QED
    BY <2>1, <2>2, <2>3, RoomySame DEF Coming, Asking
<1>10. ASSUME NEW c \in Call, AttachCall(c)  PROVE  Roomy'
  <2>1. revision' = revision + 1 /\ list' = list /\ Goto(c, "attached") /\ at[c] = "sent"
    BY <1>10 DEF AttachCall, Attach, NewConsumer, front
  <2>2. c \in Coming /\ Coming' \subseteq Coming \ {c} /\ Asking' = Asking
    BY <2>1 DEF Coming, Asking, Goto
  <2> QED
    BY <2>1, <2>2, RoomyCall
<1>11. ASSUME NEW c \in Call, Bind(c)  PROVE  Roomy'
  <2>1. list' = list /\ Goto(c, "check") /\ at[c] = "claimed"
    BY <1>11 DEF Bind, front
  <2>2. c \in Coming /\ Coming' \subseteq Coming \ {c} /\ Asking' = Asking
    BY <2>1 DEF Coming, Asking, Goto
  <2>3. revision' \in {revision, revision + 1}
    BY <1>11 DEF Bind, NewConsumer
  <2> QED
    BY <2>2, <2>3, RoomyCall, RoomySame
<1>12. ASSUME NEW c \in Call, FoundInMailbox(c)  PROVE  Roomy'
  <2>1. list' = list
    BY <1>12 DEF FoundInMailbox, front
  <2>2. \A x \in Call : at'[x] \in {"sent", "claimed"} => at[x] \in {"sent", "claimed"}
    BY <1>12 DEF FoundInMailbox, Goto
  <2>3. \E e \in Event : Close(e)
    BY <1>12, CommitFacts DEF FoundInMailbox, Last
  <2> QED
    BY <2>1, <2>2, <2>3, RoomyClose
<1>13. ASSUME NEW c \in Call, LeaveSilently(c)  PROVE  Roomy'
  <2>1. revision' = revision
    BY <1>13 DEF LeaveSilently, out, front, Goto
  <2>2. \A x \in Call : at'[x] \in {"sent", "claimed"} => at[x] \in {"sent", "claimed"}
    BY <1>13 DEF LeaveSilently, out, front, Goto
  <2>3. \A x \in Pages : list'[x] = "asked" => list[x] = "asked"
    BY <1>13 DEF LeaveSilently, out, front, Goto
  <2> QED
    BY <2>1, <2>2, <2>3, RoomySame DEF Coming, Asking
<1>14. ASSUME NEW c \in Call, Resume(c)  PROVE  Roomy'
  <2>1. revision' = revision
    BY <1>14 DEF Resume, out, front, Goto
  <2>2. \A x \in Call : at'[x] \in {"sent", "claimed"} => at[x] \in {"sent", "claimed"}
    BY <1>14 DEF Resume, out, front, Goto
  <2>3. \A x \in Pages : list'[x] = "asked" => list[x] = "asked"
    BY <1>14 DEF Resume, out, front, Goto
  <2> QED
    BY <2>1, <2>2, <2>3, RoomySame DEF Coming, Asking
<1>15. ASSUME NEW c \in Call, Answer(c)  PROVE  Roomy'
  <2>1. revision' = revision
    BY <1>15 DEF Answer, out, Goto
  <2>2. \A x \in Call : at'[x] \in {"sent", "claimed"} => at[x] \in {"sent", "claimed"}
    BY <1>15 DEF Answer, out, Goto
  <2>3. \A x \in Pages : list'[x] = "asked" => list[x] = "asked"
    BY <1>15 DEF Answer, out, Goto
  <2> QED
    BY <2>1, <2>2, <2>3, RoomySame DEF Coming, Asking
<1>16. ASSUME Reload  PROVE  Roomy'
  <2>1. revision' = revision
    BY <1>16 DEF Reload, out, attempt
  <2>2. \A x \in Call : at'[x] \in {"sent", "claimed"} => at[x] \in {"sent", "claimed"}
    BY <1>16 DEF Reload, out, attempt
  <2>3. \A x \in Pages : list'[x] = "asked" => list[x] = "asked"
    BY <1>16 DEF Reload, out, attempt
  <2> QED
    BY <2>1, <2>2, <2>3, RoomySame DEF Coming, Asking
<1>17. ASSUME Check  PROVE  Roomy'
  <2>1. Room /\ at' = at /\ revision' = revision /\ list' = [list EXCEPT ![page] = "asked"]
    BY <1>17 DEF Check, attempt, out
  <2>2. Asking' \subseteq Asking \cup {page} /\ Coming' = Coming
    BY <2>1 DEF Coming, Asking
  <2> QED
    BY <2>1, <2>2, RoomyAdd
<1>18. ASSUME CheckAnswered  PROVE  Roomy'
  <2>1. revision' = revision /\ list' = [list EXCEPT ![page] = "no"]
    BY <1>18 DEF CheckAnswered, out
  <2>2. Asking' \subseteq Asking
    BY <2>1 DEF Asking
  <2>3. CASE at' = at
    <3>1. Coming' = Coming
      BY <2>3 DEF Coming
    <3> QED
      BY <2>1, <2>2, <3>1, RoomySame
  <2>4. ASSUME Room, NEW c \in Call, Goto(c, "sent")  PROVE Roomy'
    <3>1. Coming' \subseteq Coming \cup {c}
      BY <2>4 DEF Coming, Goto
    <3> QED
      BY <2>1, <2>2, <2>4, <3>1, RoomyAdd
  <2> QED
    BY <1>18, <2>3, <2>4 DEF CheckAnswered
<1>19. ASSUME NEW p \in Pages, ListAttaches(p)  PROVE  Roomy'
  <2>1. at' = at /\ list' = [list EXCEPT ![p] = "attached"] /\ list[p] = "asked"
    BY <1>19 DEF ListAttaches, attempt
  <2>2. p \in Asking /\ Asking' \subseteq Asking \ {p} /\ Coming' = Coming
    BY <2>1 DEF Coming, Asking
  <2>3. revision' \in {revision, revision + 1}
    BY <1>19 DEF ListAttaches, Attach, NewConsumer, out
  <2> QED
    BY <2>2, <2>3, RoomyList, RoomySame
<1>20. ASSUME NEW p \in Pages, ListReads(p)  PROVE  Roomy'
  <2>1. revision' = revision
    BY <1>20 DEF ListReads, out, attempt
  <2>2. \A x \in Call : at'[x] \in {"sent", "claimed"} => at[x] \in {"sent", "claimed"}
    BY <1>20 DEF ListReads, out, attempt
  <2>3. \A x \in Pages : list'[x] = "asked" => list[x] = "asked"
    BY <1>20 DEF ListReads, out, attempt
  <2> QED
    BY <2>1, <2>2, <2>3, RoomySame DEF Coming, Asking
<1>21. ASSUME NEW r \in Revision, Receive(r)  PROVE  Roomy'
  <2>1. revision' = revision
    BY <1>21 DEF Receive, out, attempt
  <2>2. \A x \in Call : at'[x] \in {"sent", "claimed"} => at[x] \in {"sent", "claimed"}
    BY <1>21 DEF Receive, out, attempt
  <2>3. \A x \in Pages : list'[x] = "asked" => list[x] = "asked"
    BY <1>21 DEF Receive, out, attempt
  <2> QED
    BY <2>1, <2>2, <2>3, RoomySame DEF Coming, Asking
<1>22. CASE UNCHANGED vars
  <2>1. UNCHANGED <<revision, at, list>>
    BY <1>22 DEF vars, attempt, out, front
  <2>2. Coming' = Coming /\ Asking' = Asking
    BY <2>1 DEF Coming, Asking
  <2> QED
    BY <2>1, <2>2, RoomySame
<1> QED
  BY <1>1, <1>2, <1>3, <1>4, <1>5, <1>6, <1>7, <1>8, <1>9, <1>10, <1>11, <1>12, <1>13,
     <1>14, <1>15, <1>16, <1>17, <1>18, <1>19, <1>20, <1>21, <1>22
  DEF Next, Holding, CallStep, Listing

-----------------------------------------------------------------------------
(* The steps, as far as the channels and what the page shows are concerned. *)

\* Nothing of it changes.
Still == UNCHANGED <<pipe, dest, page, view, chan, snap, pushed>> /\ (Streaming' => Streaming)

\* The consumer is another, which begins with a snapshot, or there is none.
Replaced ==
  /\ UNCHANGED <<pipe, page, view>>
  /\ \A r \in Revision : dest'[r] # dest[r] => pipe[r] = <<>>
  /\ ~Streaming' \/ snap' \/ chan' = 0

\* The holder sends text, a delta only in the stream.
Sends(n, f) ==
  /\ SendAurora(n, f) /\ UNCHANGED <<page, view, pending>> /\ pending
  /\ Streaming \/ f \/ snap
  /\ Streaming' => Streaming \/ f

\* The holder sends its last event.
Ends(e) == Last(e) /\ UNCHANGED <<page, view>> /\ pending /\ ~Streaming'

Reloads ==
  /\ pipe' = [r \in Revision |-> <<>>] /\ page' = page + 1
  /\ view' = [rev |-> 0, text |-> 0, ended |-> FALSE] /\ UNCHANGED <<dest, chan>>

Receives(r) ==
  /\ Receive(r) /\ UNCHANGED <<dest, page, chan, snap, pushed, lease, at, pending>>

\* The reply arrives as the result of a call.
Replies ==
  /\ UNCHANGED <<pipe, dest, page>> /\ ~pending'
  /\ view' = [view EXCEPT !.text = src] /\ ~Streaming'
  /\ \A r \in Revision : dest[r] = page => pipe[r] = <<>>

Moves ==
  \/ Still \/ Replaced \/ Reloads \/ Replies
  \/ \E f \in BOOLEAN, n \in full .. src : Sends(n, f)
  \/ \E e \in Event : Ends(e)
  \/ \E r \in Revision : Receives(r)

\* The channel of a revision that was not given out is empty.
LEMMA FreshConsumer ==
  ASSUME Types, Consumers, revision + 1 \in Revision, NEW p, NewConsumer(p)
  PROVE  \A r \in Revision : dest'[r] # dest[r] => pipe[r] = <<>>
  BY OutputAssumption DEF Types, TypeOK, Consumers, NewConsumer, Revision

\* Every step is one of these.
LEMMA StepMoves ==
  ASSUME IInv, [Next]_vars
  PROVE  Moves
<1> Types /\ Consumers /\ Roomy /\ Roles /\ Over
  BY DEF IInv
<1> /\ at \in [Holder -> Location] /\ lease \in Holder \cup {None} /\ Call \subseteq Holder
    /\ pipe \in [Revision -> Seq(Event)] /\ dest \in [Revision -> Pages] /\ chan \in 0 .. revision
    /\ revision \in Revision /\ from \in [Holder -> Pages] /\ after \in [Holder -> 0 .. MaxRev]
  BY DEF Types, TypeOK, Holder
<1>1. ASSUME Upstream  PROVE  Moves
  <2>1. UNCHANGED <<pipe, dest, page, view, chan, snap, pushed, lease, at>>
    BY <1>1 DEF Upstream, attempt, buffer, out, wires, front
  <2> QED
    BY <2>1 DEF Moves, Still, Streaming
<1>2. ASSUME Window  PROVE  Moves
  <2>1. UNCHANGED <<page, view, pending, lease, at>> /\ lease # None
    BY <1>2 DEF Window, attempt, front
  <2>2. at[lease] \in {"stream", "snapshot"}
    BY <1>2 DEF Window
  <2>3. pending
    BY <2>1, <2>2 DEF Roles
  <2>4. full \in full .. src
    BY DEF Types, TypeOK
  <2>5. PICK n \in full .. src : SendAurora(n, FALSE) /\ (at[lease] = "stream" \/ snap)
    BY <1>2, <2>4 DEF Window
  <2>6. Streaming \/ snap
    BY <2>1, <2>5 DEF Streaming
  <2>7. Streaming' => Streaming
    BY <2>1 DEF Streaming
  <2>8. Sends(n, FALSE)
    BY <2>1, <2>3, <2>5, <2>6, <2>7 DEF Sends
  <2> QED
    BY <2>8 DEF Moves
<1>3. ASSUME SnapshotEnd  PROVE  Moves
  <2>1. UNCHANGED <<page, view, pending, lease>> /\ lease # None /\ at[lease] = "snapshot"
    BY <1>3 DEF SnapshotEnd, front
  <2>2. pending
    BY <2>1 DEF Roles
  <2>3. src \in full .. src
    BY DEF Types, TypeOK
  <2>4. SendAurora(src, TRUE)
    BY <1>3 DEF SnapshotEnd
  <2>5. Sends(src, TRUE)
    BY <2>1, <2>2, <2>4 DEF Sends
  <2> QED
    BY <2>3, <2>5 DEF Moves
<1>4. ASSUME Terminal  PROVE  Moves
  <2>1. /\ UNCHANGED <<page, view, pending, lease>> /\ lease # None /\ at[lease] = "stream"
        /\ Goto(lease, "commit")
    BY <1>4 DEF Terminal, front
  <2>2. pending /\ Streaming
    BY <2>1 DEF Roles, Streaming
  <2>3. src \in full .. src
    BY DEF Types, TypeOK
  <2>4. SendAurora(src, FALSE)
    BY <1>4 DEF Terminal
  <2>5. Sends(src, FALSE)
    BY <2>1, <2>2, <2>4 DEF Sends
  <2> QED
    BY <2>3, <2>5 DEF Moves
<1>5. ASSUME Finish  PROVE  Moves
  <2>1. /\ UNCHANGED <<page, view, lease>> /\ lease # None /\ at[lease] = "commit"
        /\ Goto(lease, "told")
    BY <1>5 DEF Finish, front
  <2>2. pending /\ ~Streaming'
    BY <2>1 DEF Roles, Streaming, Goto
  <2>3. \E e \in Event : Last(e)
    BY <1>5, CommitFacts DEF Finish
  <2> QED
    BY <2>1, <2>2, <2>3 DEF Moves, Ends
<1>6. ASSUME TellBroken  PROVE  Moves
  <2>1. /\ UNCHANGED <<page, view, lease, pushed>> /\ lease # None /\ at[lease] = "broken"
        /\ Goto(lease, "told")
    BY <1>6, TellFacts DEF front, buffer
  <2>2. pending /\ ~Streaming'
    BY <2>1 DEF Roles, Streaming, Goto
  <2>3. CASE UNCHANGED <<out, wires>>
    BY <2>1, <2>2, <2>3 DEF Moves, Still, out, wires
  <2>4. ASSUME NEW e \in Event, Last(e)  PROVE Moves
    BY <2>1, <2>2, <2>4 DEF Moves, Ends
  <2> QED
    BY <1>6, <2>3, <2>4, TellFacts
<1>7. ASSUME Leave  PROVE  Moves
  <2>1. UNCHANGED <<pipe, dest, page, view>> /\ chan' = 0
    BY <1>7 DEF Leave, wires, front
  <2> QED
    BY <2>1 DEF Moves, Replaced
<1>8. ASSUME Break  PROVE  Moves
  <2>1. UNCHANGED <<page, view, pending, lease>> /\ lease # None /\ Goto(lease, "broken")
    BY <1>8 DEF Break, front
  <2>2. ~Streaming'
    BY <2>1 DEF Streaming, Goto
  <2>3. ASSUME at[lease] = "stream", NEW n \in full .. src, SendAurora(n, FALSE)  PROVE Moves
    <3>1. pending /\ Streaming
      BY <2>1, <2>3 DEF Roles, Streaming
    <3>2. Sends(n, FALSE)
      BY <2>1, <2>2, <2>3, <3>1 DEF Sends
    <3> QED
      BY <3>2 DEF Moves
  <2>4. CASE UNCHANGED <<buffer, out, wires>>
    BY <2>1, <2>2, <2>4 DEF Moves, Still, buffer, out, wires
  <2> QED
    BY <1>8, <2>3, <2>4 DEF Break
<1>9. ASSUME NEW c \in Call, Claim(c)  PROVE  Moves
  <2>1. UNCHANGED <<pipe, dest, page, view, chan, snap, pushed>> /\ lease' = c /\ Goto(c, "claimed")
    BY <1>9 DEF Claim, attempt, buffer, out, wires, front
  <2> QED
    BY <2>1 DEF Moves, Still, Streaming, Goto
<1>10. ASSUME NEW c \in Call, AttachCall(c)  PROVE  Moves
  <2>1. revision + 1 \in Revision
    BY <1>10, RevisionLeft DEF AttachCall, Coming
  <2>2. UNCHANGED <<pipe, page, view>> /\ NewConsumer(from[c]) /\ snap' = TRUE
    BY <1>10 DEF AttachCall, Attach, front
  <2> QED
    BY <2>1, <2>2, FreshConsumer DEF Moves, Replaced
<1>11. ASSUME NEW c \in Call, Bind(c)  PROVE  Moves
  <2>1. UNCHANGED <<pipe, page, view, lease>> /\ at[c] = "claimed" /\ Goto(c, "check")
    BY <1>11 DEF Bind, front
  <2>2. c = lease
    BY <2>1 DEF Roles, Waiting
  <2>3. ~Streaming'
    BY <2>1, <2>2 DEF Streaming, Goto
  <2>4. \A r \in Revision : dest'[r] # dest[r] => pipe[r] = <<>>
    <3>1. CASE chan = 0
      <4>1. revision + 1 \in Revision
        BY <1>11, RevisionLeft DEF Bind, Coming
      <4>2. NewConsumer(from[c])
        BY <1>11, <3>1 DEF Bind
      <4> QED
        BY <4>1, <4>2, FreshConsumer
    <3>2. CASE chan # 0
      BY <1>11, <3>2 DEF Bind
    <3> QED
      BY <3>1, <3>2
  <2> QED
    BY <2>1, <2>3, <2>4 DEF Moves, Replaced
<1>12. ASSUME NEW c \in Call, FoundInMailbox(c)  PROVE  Moves
  <2>1. UNCHANGED <<page, view, lease>> /\ at[c] = "check" /\ Goto(c, "told") /\ pending
    BY <1>12 DEF FoundInMailbox, front
  <2>2. c = lease
    BY <2>1 DEF Roles, Waiting
  <2>3. ~Streaming'
    BY <2>1, <2>2 DEF Streaming, Goto
  <2>4. \E e \in Event : Last(e)
    BY <1>12, CommitFacts DEF FoundInMailbox
  <2> QED
    BY <2>1, <2>3, <2>4 DEF Moves, Ends
<1>13. ASSUME NEW c \in Call, LeaveSilently(c)  PROVE  Moves
  <2>1. UNCHANGED <<pipe, dest, page, view, chan, snap, pushed, lease>> /\ Goto(c, "told")
    BY <1>13 DEF LeaveSilently, buffer, out, wires, front
  <2> QED
    BY <2>1 DEF Moves, Still, Streaming, Goto
<1>14. ASSUME NEW c \in Call, Resume(c)  PROVE  Moves
  <2>1. UNCHANGED <<pipe, dest, page, view, chan, snap, pushed, lease>> /\ Goto(c, "snapshot")
    BY <1>14 DEF Resume, buffer, out, wires, front
  <2> QED
    BY <2>1 DEF Moves, Still, Streaming, Goto
<1>15. ASSUME NEW c \in Call, Answer(c)  PROVE  Moves
  <2>1. UNCHANGED <<pipe, dest, page, chan, snap, pushed, lease, pending>> /\ Goto(c, "free")
    BY <1>15 DEF Answer, buffer, out, wires
  <2>2. Streaming' => Streaming
    BY <2>1 DEF Streaming, Goto
  <2>3. CASE view' = view
    BY <2>1, <2>2, <2>3 DEF Moves, Still
  <2>4. CASE view' # view
    <3>1. at[c] = "done" /\ from[c] = page /\ view' = [view EXCEPT !.text = src]
      BY <1>15, <2>4 DEF Answer
    <3>2. \A r \in 1 .. after[c] : dest[r] = page => pipe[r] = <<>>
      BY <1>15, <3>1 DEF Answer
    <3>3. ~pending /\ \A r \in Revision : r > after[c] => pipe[r] = <<>>
      BY <3>1 DEF Over
    <3>4. \A r \in Revision : dest[r] = page => pipe[r] = <<>>
      BY <3>2, <3>3, OutputAssumption DEF Revision
    <3>5. ~Streaming'
      BY <2>1, <2>2, <3>3 DEF Roles, Streaming
    <3> QED
      BY <2>1, <3>1, <3>3, <3>4, <3>5 DEF Moves, Replies
  <2> QED
    BY <2>3, <2>4
<1>16. ASSUME Reload  PROVE  Moves
  BY <1>16 DEF Reload, Moves, Reloads, out
<1>17. ASSUME Check  PROVE  Moves
  <2>1. UNCHANGED <<pipe, dest, page, view, chan, snap, pushed, lease, at>>
    BY <1>17 DEF Check, attempt, buffer, out, wires, front
  <2> QED
    BY <2>1 DEF Moves, Still, Streaming
<1>18. ASSUME CheckAnswered  PROVE  Moves
  <2>1. UNCHANGED <<pipe, dest, page, view, chan, snap, pushed, lease>>
    BY <1>18 DEF CheckAnswered, buffer, out, wires
  <2>2. \A h \in Holder : at'[h] \in {at[h], "sent"}
    BY <1>18 DEF CheckAnswered, Goto
  <2> QED
    BY <2>1, <2>2 DEF Moves, Still, Streaming
<1>19. ASSUME NEW p \in Pages, ListAttaches(p)  PROVE  Moves
  <2>1. UNCHANGED <<pipe, page, view, lease, at, pushed>>
    BY <1>19 DEF ListAttaches, attempt, buffer
  <2>2. CASE lease # None /\ ~closed
    <3>1. revision + 1 \in Revision
      BY <1>19, RevisionLeft DEF ListAttaches, Asking
    <3>2. NewConsumer(p) /\ snap' = TRUE
      BY <1>19, <2>2 DEF ListAttaches, Attach
    <3> QED
      BY <2>1, <3>1, <3>2, FreshConsumer DEF Moves, Replaced
  <2>3. CASE ~(lease # None /\ ~closed)
    <3>1. UNCHANGED <<out, dest>>
      BY <1>19, <2>3 DEF ListAttaches
    <3> QED
      BY <2>1, <3>1 DEF Moves, Still, Streaming, out
  <2> QED
    BY <2>2, <2>3
<1>20. ASSUME NEW p \in Pages, ListReads(p)  PROVE  Moves
  <2>1. UNCHANGED <<pipe, dest, page, view, chan, snap, pushed, lease, at>>
    BY <1>20 DEF ListReads, attempt, buffer, out, wires, front
  <2> QED
    BY <2>1 DEF Moves, Still, Streaming
<1>21. ASSUME NEW r \in Revision, Receive(r)  PROVE  Moves
  <2>1. UNCHANGED <<dest, page, chan, snap, pushed, lease, at, pending>>
    BY <1>21 DEF Receive, attempt, buffer, out
  <2> QED
    BY <1>21, <2>1 DEF Moves, Receives
<1>22. CASE UNCHANGED vars
  <2>1. UNCHANGED <<pipe, dest, page, view, chan, snap, pushed, lease, at>>
    BY <1>22 DEF vars, attempt, buffer, out, wires, front
  <2> QED
    BY <2>1 DEF Moves, Still, Streaming
<1> QED
  BY <1>1, <1>2, <1>3, <1>4, <1>5, <1>6, <1>7, <1>8, <1>9, <1>10, <1>11, <1>12, <1>13,
     <1>14, <1>15, <1>16, <1>17, <1>18, <1>19, <1>20, <1>21, <1>22
  DEF Next, Holding, CallStep, Listing

\* A put appends to the channel of the consumer.
LEMMA PutAt ==
  ASSUME Types, NEW e \in Event, Put(e)
  PROVE  /\ \A r \in Revision : r # chan => pipe'[r] = pipe[r]
         /\ pipe[chan] \in Seq(Event) /\ pipe'[chan] \in Seq(Event)
         /\ Len(pipe'[chan]) = Len(pipe[chan]) + 1
         /\ pipe'[chan][Len(pipe[chan]) + 1] = e
         /\ \A i \in 1 .. Len(pipe[chan]) : pipe'[chan][i] = pipe[chan][i]
<1>1. /\ chan \in Revision /\ pipe \in [Revision -> Seq(Event)]
      /\ pipe' = [pipe EXCEPT ![chan] = Append(@, e)]
  BY DEF Put, Types, TypeOK
<1>2. pipe'[chan] = Append(pipe[chan], e) /\ pipe[chan] \in Seq(Event)
  BY <1>1
<1> QED
  BY <1>1, <1>2, AppendProperties

\* A receipt takes the head of the channel.
LEMMA ReceiveAt ==
  ASSUME Types, NEW r \in Revision, Receive(r)
  PROVE  /\ \A s \in Revision : s # r => pipe'[s] = pipe[s]
         /\ pipe[r] \in Seq(Event) /\ pipe'[r] \in Seq(Event) /\ pipe[r] # <<>>
         /\ Len(pipe'[r]) = Len(pipe[r]) - 1
         /\ \A i \in 1 .. Len(pipe'[r]) : pipe'[r][i] = pipe[r][i + 1]
<1>1. pipe \in [Revision -> Seq(Event)] /\ pipe[r] # <<>> /\ pipe' = [pipe EXCEPT ![r] = Tail(@)]
  BY DEF Receive, Types, TypeOK
<1>2. pipe'[r] = Tail(pipe[r]) /\ pipe[r] \in Seq(Event)
  BY <1>1
<1> QED
  BY <1>1, <1>2, HeadTailProperties

\* A reply is never taken back; who is done has been told everything before.
DoneStep ==
  /\ pending' => pending
  /\ \A h \in Holder : at'[h] = "done" =>
       \/ at[h] = "done" /\ after'[h] = after[h]
       \/ ~pending' /\ after'[h] = revision' /\ pipe' = pipe

\* DoneStep holds of every step.
LEMMA DoneSteps ==
  ASSUME IInv, [Next]_vars
  PROVE  DoneStep
<1> /\ at \in [Holder -> Location] /\ lease \in Holder \cup {None} /\ Call \subseteq Holder
    /\ after \in [Holder -> 0 .. MaxRev]
  BY DEF IInv, Types, TypeOK, Holder
<1>1. ASSUME Upstream  PROVE  DoneStep
  <2>1. pending' = pending
    BY <1>1 DEF Upstream
  <2>2. \A h \in Holder : at'[h] = "done" => at[h] = "done" /\ after'[h] = after[h]
    BY <1>1 DEF Upstream, Goto, attempt
  <2> QED
    BY <2>1, <2>2 DEF DoneStep
<1>2. ASSUME Window  PROVE  DoneStep
  <2>1. pending' = pending
    BY <1>2 DEF Window
  <2>2. \A h \in Holder : at'[h] = "done" => at[h] = "done" /\ after'[h] = after[h]
    BY <1>2 DEF Window, Goto, attempt
  <2> QED
    BY <2>1, <2>2 DEF DoneStep
<1>3. ASSUME SnapshotEnd  PROVE  DoneStep
  <2>1. pending' = pending
    BY <1>3 DEF SnapshotEnd
  <2>2. \A h \in Holder : at'[h] = "done" => at[h] = "done" /\ after'[h] = after[h]
    BY <1>3 DEF SnapshotEnd, Goto, attempt
  <2> QED
    BY <2>1, <2>2 DEF DoneStep
<1>4. ASSUME Terminal  PROVE  DoneStep
  <2>1. pending' = pending
    BY <1>4 DEF Terminal
  <2>2. \A h \in Holder : at'[h] = "done" => at[h] = "done" /\ after'[h] = after[h]
    BY <1>4 DEF Terminal, Goto, attempt
  <2> QED
    BY <2>1, <2>2 DEF DoneStep
<1>5. ASSUME Finish  PROVE  DoneStep
  <2>1. pending' => pending
    BY <1>5, CommitFacts DEF Finish, IInv
  <2>2. \A h \in Holder : at'[h] = "done" => at[h] = "done" /\ after'[h] = after[h]
    BY <1>5 DEF Finish, Goto, attempt
  <2> QED
    BY <2>1, <2>2 DEF DoneStep
<1>6. ASSUME TellBroken  PROVE  DoneStep
  <2>1. pending' => pending
    BY <1>6, TellFacts DEF IInv
  <2>2. \A h \in Holder : at'[h] = "done" => at[h] = "done" /\ after'[h] = after[h]
    BY <1>6 DEF TellBroken, Goto, attempt
  <2> QED
    BY <2>1, <2>2 DEF DoneStep
<1>7. ASSUME Leave  PROVE  DoneStep
  <2>1. pending' = pending /\ revision' = revision /\ pipe' = pipe
    BY <1>7 DEF Leave, wires
  <2>2. at' = [at EXCEPT ![lease] = IF lease = Sender THEN "free" ELSE IF pending THEN "failed" ELSE "done"]
    BY <1>7 DEF Leave, Goto
  <2>3. after' = [after EXCEPT ![lease] = revision]
    BY <1>7 DEF Leave
  <2>4. ASSUME NEW h \in Holder, at'[h] = "done"
        PROVE  (at[h] = "done" /\ after'[h] = after[h]) \/ (~pending /\ after'[h] = revision)
    <3>1. CASE h # lease
      <4>1. at'[h] = at[h]
        BY <1>7, <3>1 DEF Leave, Goto
      <4>2. after'[h] = after[h]
        BY <2>3, <3>1
      <4>3. at[h] = "done"
        BY <2>4, <4>1
      <4> QED
        BY <4>2, <4>3
    <3>2. CASE h = lease
      <4>1. ASSUME pending  PROVE FALSE
        BY <2>2, <2>4, <3>2, <4>1
      <4>2. after'[h] = revision
        BY <2>3, <3>2
      <4> QED
        BY <4>1, <4>2
    <3> QED
      BY <3>1, <3>2
  <2> QED
    BY <2>1, <2>4 DEF DoneStep
<1>8. ASSUME Break  PROVE  DoneStep
  <2>1. pending' = pending
    BY <1>8 DEF Break
  <2>2. \A h \in Holder : at'[h] = "done" => at[h] = "done" /\ after'[h] = after[h]
    BY <1>8 DEF Break, Goto, attempt
  <2> QED
    BY <2>1, <2>2 DEF DoneStep
<1>9. ASSUME NEW c \in Call, Claim(c)  PROVE  DoneStep
  <2>1. pending' = pending
    BY <1>9 DEF Claim
  <2>2. \A h \in Holder : at'[h] = "done" => at[h] = "done" /\ after'[h] = after[h]
    BY <1>9 DEF Claim, Goto, attempt
  <2> QED
    BY <2>1, <2>2 DEF DoneStep
<1>10. ASSUME NEW c \in Call, AttachCall(c)  PROVE  DoneStep
  <2>1. pending' = pending
    BY <1>10 DEF AttachCall
  <2>2. \A h \in Holder : at'[h] = "done" => at[h] = "done" /\ after'[h] = after[h]
    BY <1>10 DEF AttachCall, Goto, attempt
  <2> QED
    BY <2>1, <2>2 DEF DoneStep
<1>11. ASSUME NEW c \in Call, Bind(c)  PROVE  DoneStep
  <2>1. pending' = pending
    BY <1>11 DEF Bind
  <2>2. \A h \in Holder : at'[h] = "done" => at[h] = "done" /\ after'[h] = after[h]
    BY <1>11 DEF Bind, Goto, attempt
  <2> QED
    BY <2>1, <2>2 DEF DoneStep
<1>12. ASSUME NEW c \in Call, FoundInMailbox(c)  PROVE  DoneStep
  <2>1. pending' => pending
    BY <1>12, CommitFacts DEF FoundInMailbox, IInv
  <2>2. \A h \in Holder : at'[h] = "done" => at[h] = "done" /\ after'[h] = after[h]
    BY <1>12 DEF FoundInMailbox, Goto, attempt
  <2> QED
    BY <2>1, <2>2 DEF DoneStep
<1>13. ASSUME NEW c \in Call, LeaveSilently(c)  PROVE  DoneStep
  <2>1. pending' = pending
    BY <1>13 DEF LeaveSilently
  <2>2. \A h \in Holder : at'[h] = "done" => at[h] = "done" /\ after'[h] = after[h]
    BY <1>13 DEF LeaveSilently, Goto, attempt
  <2> QED
    BY <2>1, <2>2 DEF DoneStep
<1>14. ASSUME NEW c \in Call, Resume(c)  PROVE  DoneStep
  <2>1. pending' = pending
    BY <1>14 DEF Resume
  <2>2. \A h \in Holder : at'[h] = "done" => at[h] = "done" /\ after'[h] = after[h]
    BY <1>14 DEF Resume, Goto, attempt
  <2> QED
    BY <2>1, <2>2 DEF DoneStep
<1>15. ASSUME NEW c \in Call, Answer(c)  PROVE  DoneStep
  <2>1. pending' = pending
    BY <1>15 DEF Answer
  <2>2. \A h \in Holder : at'[h] = "done" => at[h] = "done" /\ after'[h] = after[h]
    BY <1>15 DEF Answer, Goto, attempt
  <2> QED
    BY <2>1, <2>2 DEF DoneStep
<1>16. ASSUME Reload  PROVE  DoneStep
  <2>1. pending' = pending
    BY <1>16 DEF Reload
  <2>2. \A h \in Holder : at'[h] = "done" => at[h] = "done" /\ after'[h] = after[h]
    BY <1>16 DEF Reload, Goto, attempt
  <2> QED
    BY <2>1, <2>2 DEF DoneStep
<1>17. ASSUME Check  PROVE  DoneStep
  <2>1. pending' = pending
    BY <1>17 DEF Check
  <2>2. \A h \in Holder : at'[h] = "done" => at[h] = "done" /\ after'[h] = after[h]
    BY <1>17 DEF Check, Goto, attempt
  <2> QED
    BY <2>1, <2>2 DEF DoneStep
<1>18. ASSUME CheckAnswered  PROVE  DoneStep
  <2>1. pending' = pending
    BY <1>18 DEF CheckAnswered
  <2>2. \A h \in Holder : at'[h] = "done" => at[h] = "done" /\ after'[h] = after[h]
    BY <1>18 DEF CheckAnswered, Goto, attempt
  <2> QED
    BY <2>1, <2>2 DEF DoneStep
<1>19. ASSUME NEW p \in Pages, ListAttaches(p)  PROVE  DoneStep
  <2>1. pending' = pending
    BY <1>19 DEF ListAttaches
  <2>2. \A h \in Holder : at'[h] = "done" => at[h] = "done" /\ after'[h] = after[h]
    BY <1>19 DEF ListAttaches, Goto, attempt
  <2> QED
    BY <2>1, <2>2 DEF DoneStep
<1>20. ASSUME NEW p \in Pages, ListReads(p)  PROVE  DoneStep
  <2>1. pending' = pending
    BY <1>20 DEF ListReads
  <2>2. \A h \in Holder : at'[h] = "done" => at[h] = "done" /\ after'[h] = after[h]
    BY <1>20 DEF ListReads, Goto, attempt
  <2> QED
    BY <2>1, <2>2 DEF DoneStep
<1>21. ASSUME NEW r \in Revision, Receive(r)  PROVE  DoneStep
  <2>1. pending' = pending
    BY <1>21 DEF Receive
  <2>2. \A h \in Holder : at'[h] = "done" => at[h] = "done" /\ after'[h] = after[h]
    BY <1>21 DEF Receive, Goto, attempt
  <2> QED
    BY <2>1, <2>2 DEF DoneStep
<1>22. CASE UNCHANGED vars
  <2>1. UNCHANGED <<pending, at, after>>
    BY <1>22 DEF vars, attempt
  <2> QED
    BY <2>1 DEF DoneStep
<1> QED
  BY <1>1, <1>2, <1>3, <1>4, <1>5, <1>6, <1>7, <1>8, <1>9, <1>10, <1>11, <1>12, <1>13,
     <1>14, <1>15, <1>16, <1>17, <1>18, <1>19, <1>20, <1>21, <1>22
  DEF Next, Holding, CallStep, Listing

\* Over: an end is sent and taken with the reply in its row.
LEMMA OverKept ==
  ASSUME IInv, [Next]_vars
  PROVE  Over'
<1> Types /\ Over /\ Consumers
  BY DEF IInv
<1>1. DoneStep
  BY DoneSteps
<1>2. Moves
  BY StepMoves
<1>3. view'.ended => ~pending'
  <2>1. ASSUME view' = view  PROVE view'.ended => ~pending'
    BY <1>1, <2>1 DEF Over, DoneStep
  <2>2. CASE Still \/ Replaced \/ Reloads \/ Replies
    BY <1>1, <2>1, <2>2 DEF Still, Replaced, Reloads, Replies
  <2>3. CASE \/ \E f \in BOOLEAN, n \in full .. src : Sends(n, f)
            \/ \E e \in Event : Ends(e)
    BY <2>1, <2>3 DEF Sends, Ends
  <2>4. ASSUME NEW r \in Revision, Receives(r)  PROVE view'.ended => ~pending'
    <3>1. Receive(r) /\ pipe[r] \in Seq(Event) /\ pipe[r] # <<>>
      BY <2>4, ReceiveAt DEF Receives
    <3>2. Head(pipe[r]) = pipe[r][1] /\ 1 \in 1 .. Len(pipe[r])
      BY <3>1, HeadTailProperties
    <3>3. CASE Apply(Head(pipe[r]), r)
      <4>1. view'.ended => Head(pipe[r]).type = "end"
        BY <3>3 DEF Apply
      <4> QED
        BY <1>1, <3>2, <4>1 DEF Over, DoneStep
    <3> QED
      BY <2>1, <3>1, <3>3 DEF Receive
  <2> QED
    BY <1>2, <2>2, <2>3, <2>4 DEF Moves
<1>4. \A r \in Revision : \A i \in 1 .. Len(pipe'[r]) : pipe'[r][i].type = "end" => ~pending'
  <2> SUFFICES ASSUME NEW r \in Revision, NEW i \in 1 .. Len(pipe'[r]),
                      pipe'[r][i].type = "end", pending'
               PROVE  FALSE
    OBVIOUS
  <2>1. pending /\ pipe[r] \in Seq(Event)
    BY <1>1 DEF DoneStep, Types, TypeOK
  <2>2. ASSUME pipe'[r] = pipe[r]  PROVE FALSE
    BY <2>1, <2>2 DEF Over
  <2>3. CASE Still \/ Replaced \/ Replies
    BY <2>2, <2>3 DEF Still, Replaced, Replies
  <2>4. CASE Reloads
    BY <2>4 DEF Reloads
  <2>5. ASSUME NEW f \in BOOLEAN, NEW n \in full .. src, Sends(n, f)  PROVE FALSE
    <3>1. Lost \/ Nothing \/ \E e \in Event : Put(e) /\ e.type \in {"snapshot", "delta"}
      BY <2>5, SendFacts DEF Sends
    <3>2. ASSUME NEW e \in Event, Put(e), e.type \in {"snapshot", "delta"}  PROVE FALSE
      BY <2>1, <2>2, <3>2, PutAt DEF Over
    <3> QED
      BY <2>2, <3>1, <3>2 DEF Lost, Nothing
  <2>6. ASSUME NEW e \in Event, Ends(e)  PROVE FALSE
    <3>1. (Lost \/ Put(e) \/ PutAnew(e)) /\ e.type # "end"
      BY <2>6, CloseFacts DEF Ends, Last
    <3>2. CASE Put(e)
      BY <2>1, <2>2, <3>1, <3>2, PutAt DEF Over
    <3>3. CASE PutAnew(e)
      <4>1. pipe'[r] = pipe[r] \/ (Len(pipe'[r]) = 1 /\ pipe'[r][1] = e)
        BY <3>3, AnewAt
      <4> QED
        BY <2>2, <3>1, <4>1
    <3> QED
      BY <2>2, <3>1, <3>2, <3>3 DEF Lost
  <2>7. ASSUME NEW s \in Revision, Receives(s)  PROVE FALSE
    <3>1. Receive(s)
      BY <2>7 DEF Receives
    <3>2. CASE r = s
      <4>1. i + 1 \in 1 .. Len(pipe[r]) /\ pipe'[r][i] = pipe[r][i + 1]
        BY <3>1, <3>2, ReceiveAt
      <4> QED
        BY <2>1, <4>1 DEF Over
    <3> QED
      BY <2>2, <3>1, <3>2, ReceiveAt
  <2> QED
    BY <1>2, <2>3, <2>4, <2>5, <2>6, <2>7 DEF Moves
<1>5. ASSUME NEW h \in Holder, at'[h] = "done"
      PROVE  ~pending' /\ \A r \in Revision : r > after'[h] => pipe'[r] = <<>>
  <2>1. CASE ~pending' /\ after'[h] = revision' /\ pipe' = pipe
    <3>1. Consumers'
      BY ConsumersKept
    <3> QED
      BY <2>1, <3>1 DEF Consumers
  <2>2. CASE at[h] = "done" /\ after'[h] = after[h]
    <3>1. ~pending /\ ~pending' /\ \A r \in Revision : r > after[h] => pipe[r] = <<>>
      BY <1>1, <2>2 DEF Over, DoneStep
    <3>2. \A r \in Revision : pipe[r] = <<>> => pipe'[r] = <<>>
      <4>1. CASE Still \/ Replaced \/ Reloads \/ Replies
        BY <4>1 DEF Still, Replaced, Reloads, Replies
      <4>2. ASSUME NEW s \in Revision, Receives(s)
            PROVE  \A r \in Revision : pipe[r] = <<>> => pipe'[r] = <<>>
        BY <4>2, ReceiveAt DEF Receives
      <4> QED
        BY <1>2, <3>1, <4>1, <4>2 DEF Moves, Sends, Ends
    <3> QED
      BY <2>2, <3>1, <3>2
  <2> QED
    BY <1>1, <1>5, <2>1, <2>2 DEF DoneStep
<1> QED
  BY <1>3, <1>4, <1>5 DEF Over


-----------------------------------------------------------------------------
(* The channels.                                                           *)

\* Text that is put continues what the consumer was given.
LEMMA DeltaFits ==
  ASSUME IInv, NEW f \in BOOLEAN, NEW n \in full .. src, Sends(n, f)
  PROVE  /\ full' = n /\ UNCHANGED <<closed, revision, dest, page, view>>
         /\ \/ Lost
            \/ ~f /\ Nothing /\ Streaming
            \/ \E e \in Event :
                 /\ Put(e) /\ IsText(e) /\ e.len = pushed'
                 /\ e.type = "delta" =>
                      IF pipe[chan] = <<>>
                        THEN e.base = view.text /\ (view.rev = chan \/ chan = 1)
                        ELSE /\ IsText(pipe[chan][Len(pipe[chan])])
                             /\ e.base = pipe[chan][Len(pipe[chan])].len
<1> Types /\ Given
  BY DEF IInv
<1>1. SendAurora(n, f) /\ UNCHANGED <<page, view>> /\ (Streaming \/ f \/ snap)
  BY DEF Sends
<1>2. /\ full' = n /\ UNCHANGED <<closed, revision, dest>>
      /\ \/ Lost
         \/ ~f /\ ~snap /\ Nothing
         \/ /\ pushed' = n
            /\ \E e \in Event :
                 /\ Put(e) /\ e.len = n
                 /\ e.type = "snapshot" \/ (e.type = "delta" /\ ~f /\ ~snap /\ e.base = pushed)
  BY <1>1, SendFacts
<1>3. ASSUME NEW e \in Event, Put(e), e.type = "delta", ~f, ~snap, e.base = pushed
      PROVE  IF pipe[chan] = <<>>
               THEN e.base = view.text /\ (view.rev = chan \/ chan = 1)
               ELSE /\ IsText(pipe[chan][Len(pipe[chan])])
                    /\ e.base = pipe[chan][Len(pipe[chan])].len
  <2>1. Streaming
    BY <1>1, <1>3
  <2>2. chan # 0 /\ dest[chan] = page
    BY <1>3 DEF Put, Revision
  <2> QED
    BY <1>3, <2>1, <2>2 DEF Given
<1>4. ASSUME NEW e \in Event, Put(e), e.len = n, pushed' = n,
             e.type = "snapshot" \/ (e.type = "delta" /\ ~f /\ ~snap /\ e.base = pushed)
      PROVE  /\ Put(e) /\ IsText(e) /\ e.len = pushed'
             /\ e.type = "delta" =>
                  IF pipe[chan] = <<>>
                    THEN e.base = view.text /\ (view.rev = chan \/ chan = 1)
                    ELSE /\ IsText(pipe[chan][Len(pipe[chan])])
                         /\ e.base = pipe[chan][Len(pipe[chan])].len
  <2>1. IsText(e)
    BY <1>4 DEF IsText
  <2>2. CASE e.type = "snapshot"
    BY <1>4, <2>1, <2>2
  <2>3. CASE e.type = "delta" /\ ~f /\ ~snap /\ e.base = pushed
    <3>1. IF pipe[chan] = <<>>
            THEN e.base = view.text /\ (view.rev = chan \/ chan = 1)
            ELSE /\ IsText(pipe[chan][Len(pipe[chan])])
                 /\ e.base = pipe[chan][Len(pipe[chan])].len
      BY <1>3, <1>4, <2>3
    <3> QED
      BY <1>4, <2>1, <3>1
  <2> QED
    BY <1>4, <2>2, <2>3
<1>5. CASE ~f /\ ~snap /\ Nothing
  BY <1>1, <1>2, <1>5
<1> QED
  BY <1>1, <1>2, <1>4, <1>5

\* Chain: a delta is only put behind the text it continues.
LEMMA ChainKept ==
  ASSUME IInv, [Next]_vars
  PROVE  Chain'
<1> Types /\ Chain
  BY DEF IInv
<1>1. Moves
  BY StepMoves
<1>2. ASSUME pipe' = pipe  PROVE Chain'
  BY <1>2 DEF Chain, Linked
<1>3. CASE Still \/ Replaced \/ Replies
  BY <1>2, <1>3 DEF Still, Replaced, Replies
<1>4. CASE Reloads
  BY <1>4 DEF Reloads, Chain, Linked
<1>5. ASSUME NEW e \in Event, Put(e),
             e.type = "delta" /\ pipe[chan] # <<>> =>
               /\ IsText(pipe[chan][Len(pipe[chan])])
               /\ e.base = pipe[chan][Len(pipe[chan])].len
      PROVE  Chain'
  <2> SUFFICES ASSUME NEW r \in Revision, NEW i \in 1 .. Len(pipe'[r]),
                      i > 1, pipe'[r][i].type = "delta"
               PROVE  IsText(pipe'[r][i - 1]) /\ pipe'[r][i].base = pipe'[r][i - 1].len
    BY DEF Chain, Linked
  <2>1. pipe[r] \in Seq(Event) /\ Linked(pipe[r])
    BY DEF Types, TypeOK, Chain
  <2>2. CASE r # chan
    BY <1>5, <2>1, <2>2, PutAt DEF Linked
  <2>3. CASE r = chan /\ i <= Len(pipe[r])
    <3>1. pipe'[r][i] = pipe[r][i] /\ pipe'[r][i - 1] = pipe[r][i - 1] /\ i \in 1 .. Len(pipe[r])
      BY <1>5, <2>1, <2>3, PutAt
    <3> QED
      BY <2>1, <3>1 DEF Linked
  <2>4. CASE r = chan /\ i > Len(pipe[r])
    <3>1. /\ i = Len(pipe[chan]) + 1 /\ pipe'[r][i] = e
          /\ pipe'[r][i - 1] = pipe[chan][Len(pipe[chan])]
      BY <1>5, <2>1, <2>4, PutAt
    <3>2. pipe[chan] # <<>>
      BY <2>1, <2>4, <3>1
    <3> QED
      BY <1>5, <3>1, <3>2
  <2> QED
    BY <2>1, <2>2, <2>3, <2>4
<1>6. ASSUME NEW f \in BOOLEAN, NEW n \in full .. src, Sends(n, f)  PROVE Chain'
  <2>1. \/ Lost \/ Nothing
        \/ \E e \in Event :
             /\ Put(e)
             /\ e.type = "delta" /\ pipe[chan] # <<>> =>
                  /\ IsText(pipe[chan][Len(pipe[chan])])
                  /\ e.base = pipe[chan][Len(pipe[chan])].len
    BY <1>6, DeltaFits
  <2> QED
    BY <1>2, <1>5, <2>1 DEF Lost, Nothing
<1>7. ASSUME NEW e \in Event, Ends(e)  PROVE Chain'
  <2>1. (Lost \/ Put(e) \/ PutAnew(e)) /\ e.type # "delta"
    BY <1>7, CloseFacts DEF Ends, Last, IsText
  <2>2. CASE PutAnew(e)
    <3>1. \A r \in Revision : pipe'[r] = pipe[r] \/ Len(pipe'[r]) = 1
      BY <2>2, AnewAt DEF IInv
    <3>2. \A r \in Revision : Linked(pipe'[r])
      BY <3>1 DEF Chain, Linked
    <3> QED
      BY <3>2 DEF Chain
  <2> QED
    BY <1>2, <1>5, <2>1, <2>2 DEF Lost
<1>8. ASSUME NEW s \in Revision, Receives(s)  PROVE Chain'
  <2> SUFFICES ASSUME NEW r \in Revision, NEW i \in 1 .. Len(pipe'[r]),
                      i > 1, pipe'[r][i].type = "delta"
               PROVE  IsText(pipe'[r][i - 1]) /\ pipe'[r][i].base = pipe'[r][i - 1].len
    BY DEF Chain, Linked
  <2>1. pipe[r] \in Seq(Event) /\ Linked(pipe[r]) /\ Receive(s)
    BY <1>8 DEF Types, TypeOK, Chain, Receives
  <2>2. CASE r # s
    BY <2>1, <2>2, ReceiveAt DEF Linked
  <2>3. CASE r = s
    <3>1. /\ pipe'[r][i] = pipe[r][i + 1] /\ pipe'[r][i - 1] = pipe[r][i]
          /\ i + 1 \in 1 .. Len(pipe[r]) /\ i + 1 > 1 /\ (i + 1) - 1 = i
      <4>1. /\ Len(pipe'[r]) = Len(pipe[r]) - 1 /\ Len(pipe[r]) \in Nat
            /\ \A j \in 1 .. Len(pipe'[r]) : pipe'[r][j] = pipe[r][j + 1]
        BY <2>1, <2>3, ReceiveAt
      <4>2. i - 1 \in 1 .. Len(pipe'[r]) /\ (i - 1) + 1 = i /\ (i + 1) - 1 = i
        BY <4>1
      <4>3. i + 1 \in 1 .. Len(pipe[r]) /\ i + 1 > 1
        BY <4>1
      <4>4. pipe'[r][i - 1] = pipe[r][(i - 1) + 1]
        BY <4>1, <4>2
      <4>5. pipe'[r][i] = pipe[r][i + 1]
        BY <4>1
      <4> QED
        BY <4>2, <4>3, <4>4, <4>5
    <3> QED
      BY <2>1, <3>1 DEF Linked
  <2> QED
    BY <2>2, <2>3
<1> QED
  BY <1>1, <1>3, <1>4, <1>6, <1>7, <1>8 DEF Moves

\* What the page takes: it shows the text of the event it took.
LEMMA Taken ==
  ASSUME IInv, NEW r \in Revision, Receives(r), Accepts(r)
  PROVE  /\ view'.rev = r
         /\ IsText(pipe[r][1]) => view'.text = pipe[r][1].len /\ ~view'.ended
<1> Types /\ Heads
  BY DEF IInv
<1>1. Receive(r) /\ pipe[r] \in Seq(Event) /\ pipe[r] # <<>> /\ dest[r] = page
  BY ReceiveAt DEF Receives, Receive
<1>2. Head(pipe[r]) = pipe[r][1] /\ pipe[r][1] \in Event
  BY <1>1, HeadTailProperties
<1>3. Apply(pipe[r][1], r)
  BY <1>1, <1>2 DEF Receive
<1>4. view'.rev = r
  BY <1>3 DEF Apply
<1>5. ASSUME IsText(pipe[r][1])  PROVE view'.text = pipe[r][1].len
  <2>1. CASE pipe[r][1].type = "snapshot"
    BY <1>3, <2>1 DEF Apply
  <2>2. CASE pipe[r][1].type = "delta"
    <3>1. pipe[r][1].base = view.text
      BY <1>1, <2>2 DEF Heads, HeadOK
    <3>2. pipe[r][1].len \in Nat /\ view.text \in Nat
      BY <1>2, OutputAssumption DEF Event, Types, TypeOK
    <3>3. view'.text = view.text + (pipe[r][1].len - pipe[r][1].base)
      BY <1>3, <2>2 DEF Apply
    <3> QED
      BY <3>1, <3>2, <3>3
  <2> QED
    BY <1>5, <2>1, <2>2 DEF IsText
<1>6. IsText(pipe[r][1]) => ~view'.ended
  BY <1>3 DEF Apply, IsText
<1> QED
  BY <1>4, <1>5, <1>6

\* The channel of the consumer is the last with anything in it.
LEMMA LastConsumer ==
  ASSUME IInv
  PROVE  /\ \A r \in Revision : pipe[r] # <<>> /\ chan # 0 => r <= chan
         /\ chan # 0 => chan \in Revision /\ view.rev <= chan
  BY OutputAssumption DEF IInv, Types, TypeOK, Consumers, Revision

\* Heads: between the old head and the new one the page took what links them.
LEMMA HeadsKept ==
  ASSUME IInv, [Next]_vars
  PROVE  Heads'
<1> Types /\ Chain /\ Heads
  BY DEF IInv
<1>1. Moves
  BY StepMoves
<1> SUFFICES ASSUME NEW r \in Revision,
                    pipe'[r] # <<>>, dest'[r] = page', ~view'.ended, r >= view'.rev,
                    pipe'[r][1].type = "delta"
             PROVE  pipe'[r][1].base = view'.text /\ (view'.rev = r \/ r = 1)
  BY DEF Heads, HeadOK, Accepts
<1>2. ASSUME view' = view, page' = page, dest'[r] = dest[r], pipe[r] # <<>>, pipe'[r][1] = pipe[r][1]
      PROVE  pipe'[r][1].base = view'.text /\ (view'.rev = r \/ r = 1)
  BY <1>2 DEF Heads, HeadOK, Accepts
<1>3. CASE Still
  BY <1>2, <1>3 DEF Still
<1>4. CASE Replaced
  BY <1>2, <1>4 DEF Replaced
<1>5. CASE Reloads \/ Replies
  BY <1>5 DEF Reloads, Replies
<1>6. ASSUME NEW f \in BOOLEAN, NEW n \in full .. src, Sends(n, f)
      PROVE  pipe'[r][1].base = view'.text /\ (view'.rev = r \/ r = 1)
  <2>1. UNCHANGED <<dest, page, view>>
    BY <1>6, DeltaFits
  <2>2. CASE pipe' = pipe
    BY <1>2, <2>1, <2>2
  <2>3. ASSUME NEW e \in Event, Put(e),
               e.type = "delta" /\ pipe[chan] = <<>> => e.base = view.text /\ (view.rev = chan \/ chan = 1)
        PROVE  pipe'[r][1].base = view'.text /\ (view'.rev = r \/ r = 1)
    <3>1. CASE r # chan
      BY <1>2, <2>1, <2>3, <3>1, PutAt
    <3>2. CASE r = chan /\ pipe[r] # <<>>
      <4>1. pipe'[r][1] = pipe[r][1]
        BY <2>3, <3>2, PutAt
      <4> QED
        BY <1>2, <2>1, <3>2, <4>1
    <3>3. CASE r = chan /\ pipe[r] = <<>>
      <4>1. pipe'[r][1] = e
        BY <2>3, <3>3, PutAt
      <4> QED
        BY <2>1, <2>3, <3>3, <4>1
    <3> QED
      BY <3>1, <3>2, <3>3
  <2>4. \/ Lost \/ Nothing
        \/ \E e \in Event :
             /\ Put(e)
             /\ e.type = "delta" /\ pipe[chan] = <<>> => e.base = view.text /\ (view.rev = chan \/ chan = 1)
    BY <1>6, DeltaFits
  <2> QED
    BY <2>2, <2>3, <2>4 DEF Lost, Nothing
<1>7. ASSUME NEW e \in Event, Ends(e)
      PROVE  pipe'[r][1].base = view'.text /\ (view'.rev = r \/ r = 1)
  <2>1. UNCHANGED <<page, view>> /\ e.type # "delta"
    BY <1>7 DEF Ends, Last, IsText
  <2>2. \/ UNCHANGED dest /\ Lost
        \/ UNCHANGED dest /\ Put(e)
        \/ PutAnew(e)
    BY <1>7, CloseFacts DEF Ends, Last
  <2>3. CASE UNCHANGED dest /\ Lost
    BY <1>2, <2>1, <2>3 DEF Lost
  <2>4. CASE UNCHANGED dest /\ Put(e)
    <3>1. CASE r # chan
      BY <1>2, <2>1, <2>4, <3>1, PutAt
    <3>2. CASE r = chan
      <4>1. pipe[r] # <<>>
        BY <2>1, <2>4, <3>2, PutAt
      <4>2. pipe'[r][1] = pipe[r][1]
        BY <2>4, <3>2, <4>1, PutAt
      <4> QED
        BY <1>2, <2>1, <2>4, <4>1, <4>2
    <3> QED
      BY <3>1, <3>2
  <2>5. CASE PutAnew(e)
    <3>1. \/ pipe'[r] = pipe[r] /\ (dest'[r] = dest[r] \/ pipe[r] = <<>>)
          \/ pipe'[r][1] = e
      BY <2>5, AnewAt DEF IInv
    <3> QED
      BY <1>2, <2>1, <3>1
  <2> QED
    BY <2>2, <2>3, <2>4, <2>5
<1>8. ASSUME NEW s \in Revision, Receives(s)
      PROVE  pipe'[r][1].base = view'.text /\ (view'.rev = r \/ r = 1)
  <2>1. Receive(s) /\ UNCHANGED <<dest, page>>
    BY <1>8 DEF Receives
  <2>2. view.rev \in Nat
    BY OutputAssumption DEF Types, TypeOK
  <2>3. CASE r # s
    <3>1. pipe'[r] = pipe[r]
      BY <2>1, <2>3, ReceiveAt
    <3>2. CASE Accepts(s)
      <4>1. view'.rev = s
        BY <1>8, <3>2, Taken
      <4>2. r > s /\ s >= view.rev /\ ~view.ended
        BY <2>3, <3>2, <4>1 DEF Accepts, Revision
      <4>3. Accepts(r)
        BY <2>2, <4>2 DEF Accepts, Revision
      <4>4. view.rev = r \/ r = 1
        BY <2>1, <3>1, <4>3 DEF Heads, HeadOK
      <4> QED
        BY <2>2, <4>2, <4>4 DEF Revision
    <3>3. CASE ~Accepts(s)
      BY <1>2, <2>1, <3>1, <3>3 DEF Receive
    <3> QED
      BY <3>2, <3>3
  <2>4. CASE r = s
    <3>1. pipe[r] \in Seq(Event) /\ Len(pipe[r]) > 1 /\ pipe'[r][1] = pipe[r][2]
      BY <2>1, <2>4, ReceiveAt
    <3>2. IsText(pipe[r][1]) /\ pipe[r][2].base = pipe[r][1].len
      <4>1. Linked(pipe[r])
        BY DEF Chain
      <4>2. 2 \in 1 .. Len(pipe[r]) /\ 2 > 1 /\ 2 - 1 = 1
        BY <3>1
      <4> QED
        BY <3>1, <4>1, <4>2 DEF Linked
    <3>3. Accepts(r)
      <4>1. ASSUME ~Accepts(r)  PROVE FALSE
        <5>1. view' = view
          BY <2>1, <2>4, <4>1 DEF Receive
        <5> QED
          BY <4>1, <5>1 DEF Accepts
      <4> QED
        BY <4>1
    <3> QED
      BY <1>8, <2>4, <3>1, <3>2, <3>3, Taken
  <2> QED
    BY <2>3, <2>4
<1> QED
  BY <1>1, <1>3, <1>4, <1>5, <1>6, <1>7, <1>8 DEF Moves

\* Given: what was put last is what the page will show.
LEMMA GivenKept ==
  ASSUME IInv, [Next]_vars
  PROVE  Given'
<1> Types /\ Chain /\ Heads /\ Given /\ Roles /\ Over /\ Consumers
  BY DEF IInv
<1> /\ pipe \in [Revision -> Seq(Event)] /\ dest \in [Revision -> Pages] /\ page \in Pages
    /\ view \in [rev : 0 .. MaxRev, text : 0 .. MaxLen, ended : BOOLEAN]
  BY DEF Types, TypeOK
<1>1. Moves
  BY StepMoves
<1> SUFFICES ASSUME Streaming', ~snap', chan' # 0, dest'[chan'] = page'
             PROVE  Given'
  BY DEF Given
<1>2. CASE Still
  BY <1>2 DEF Still, Given
<1>3. CASE Replaced \/ Replies
  BY <1>3 DEF Replaced, Replies
<1>4. CASE Reloads
  <2>1. chan \in Revision /\ dest[chan] = page + 1
    BY <1>4, LastConsumer DEF Reloads
  <2> QED
    BY <2>1, OutputAssumption DEF Consumers, Pages
<1>5. ASSUME NEW f \in BOOLEAN, NEW n \in full .. src, Sends(n, f)  PROVE Given'
  <2>1. UNCHANGED <<dest, page, view>>
    BY <1>5, DeltaFits
  <2>2. CASE Lost
    BY <2>1, <2>2 DEF Lost
  <2>3. CASE Nothing /\ Streaming
    BY <2>1, <2>3 DEF Nothing, Given
  <2>4. ASSUME NEW e \in Event, Put(e), IsText(e), e.len = pushed'  PROVE Given'
    <3>1. /\ chan' = chan /\ Len(pipe'[chan]) = Len(pipe[chan]) + 1
          /\ pipe'[chan][Len(pipe'[chan])] = e
          /\ pipe'[chan] # <<>>
      BY <2>4, PutAt DEF Put
    <3> QED
      BY <2>4, <3>1 DEF Given
  <2> QED
    BY <1>5, <2>2, <2>3, <2>4, DeltaFits
<1>6. ASSUME NEW e \in Event, Ends(e)  PROVE Given'
  BY <1>6 DEF Ends
<1>7. ASSUME NEW s \in Revision, Receives(s)  PROVE Given'
  <2>1. Receive(s) /\ UNCHANGED <<dest, page, chan, snap, pushed, lease, at, pending>>
    BY <1>7 DEF Receives
  <2>2. Streaming /\ ~snap /\ chan # 0 /\ dest[chan] = page
    BY <2>1 DEF Streaming
  <2>3. chan \in Revision /\ view.rev <= chan /\ \A r \in Revision : pipe[r] # <<>> => r <= chan
    BY <2>2, LastConsumer
  <2>4. ~view.ended
    BY <2>2 DEF Roles, Streaming, Over
  <2>5. CASE s = chan
    <3>1. /\ pipe[chan] \in Seq(Event) /\ pipe[chan] # <<>> /\ pipe'[chan] \in Seq(Event)
          /\ Len(pipe'[chan]) = Len(pipe[chan]) - 1
          /\ \A i \in 1 .. Len(pipe'[chan]) : pipe'[chan][i] = pipe[chan][i + 1]
      BY <2>1, <2>5, ReceiveAt
    <3>2. IsText(pipe[chan][Len(pipe[chan])]) /\ pipe[chan][Len(pipe[chan])].len = pushed
      BY <2>2, <3>1 DEF Given
    <3>3. Accepts(chan)
      BY <2>3, <2>4 DEF Accepts, Revision
    <3>4. CASE pipe'[chan] = <<>>
      <4>1. Len(pipe[chan]) = 1
        BY <3>1, <3>4
      <4>2. view'.rev = chan /\ view'.text = pushed
        BY <1>7, <2>5, <3>2, <3>3, <4>1, Taken
      <4> QED
        BY <2>1, <3>4, <4>2 DEF Given
    <3>5. CASE pipe'[chan] # <<>>
      <4>1. pipe'[chan][Len(pipe'[chan])] = pipe[chan][Len(pipe[chan])]
        <5>1. Len(pipe'[chan]) \in 1 .. Len(pipe'[chan]) /\ Len(pipe'[chan]) + 1 = Len(pipe[chan])
          BY <3>1, <3>5
        <5> QED
          BY <3>1, <5>1
      <4> QED
        BY <2>1, <3>2, <3>5, <4>1 DEF Given
    <3> QED
      BY <3>4, <3>5
  <2>6. CASE s # chan
    <3>1. pipe'[chan] = pipe[chan] /\ pipe[s] # <<>>
      BY <2>1, <2>3, <2>6, ReceiveAt
    <3>2. s < chan
      BY <2>3, <2>6, <3>1 DEF Revision
    <3>3. CASE pipe[chan] = <<>>
      <4>1. view.text = pushed /\ (view.rev = chan \/ chan = 1)
        BY <2>2, <3>3 DEF Given
      <4>2. ~Accepts(s)
        BY <3>2, <4>1 DEF Accepts, Revision
      <4>3. view' = view
        BY <2>1, <4>2 DEF Receive
      <4> QED
        BY <2>1, <3>1, <3>3, <4>1, <4>3 DEF Given
    <3>4. CASE pipe[chan] # <<>>
      BY <2>1, <2>2, <3>1, <3>4 DEF Given
    <3> QED
      BY <3>3, <3>4
  <2> QED
    BY <2>5, <2>6
<1> QED
  BY <1>1, <1>2, <1>3, <1>4, <1>5, <1>6, <1>7 DEF Moves

-----------------------------------------------------------------------------
\* The invariant holds at the start.
LEMMA InitInv == Init => IInv
<1> SUFFICES ASSUME Init  PROVE IInv
  OBVIOUS
<1> USE OutputAssumption DEF Init
<1>1. Types
  <2>1. /\ pipe \in [Revision -> Seq(Event)] /\ dest \in [Revision -> Pages]
        /\ list \in [Pages -> {"no", "asked", "attached", "pending"}]
    BY DEF Revision, Pages
  <2>2. /\ at \in [Holder -> Location] /\ from \in [Holder -> Pages]
        /\ after \in [Holder -> 0 .. MaxRev]
    BY DEF Location, Holder, Pages
  <2>3. /\ view \in [rev : 0 .. MaxRev, text : 0 .. MaxLen, ended : BOOLEAN] /\ page \in Pages
        /\ gate \in Holder \cup {None}
    BY DEF Pages
  <2>4. lease \in Holder \cup {None} /\ revision \in Revision /\ chan \in 0 .. revision
    BY DEF Holder, Revision
  <2>5. /\ src \in 0 .. MaxLen /\ full \in 0 .. MaxLen /\ pushed \in 0 .. full
        /\ faults \in 0 .. MaxFaults /\ full <= src
    OBVIOUS
  <2> QED
    BY <2>1, <2>2, <2>3, <2>4, <2>5 DEF Types, TypeOK
<1>2. Roles
  BY DEF Roles, Working, Waiting, Holder
<1>3. Consumers
  BY DEF Consumers, Revision, Pages, Holder
<1>4. Roomy
  <2>1. Coming = {} /\ Asking = {}
    BY DEF Coming, Asking, Holder
  <2> QED
    BY <2>1, FS_EmptySet DEF Roomy
<1>5. Over
  BY DEF Over, Holder
<1>6. Chain /\ Heads
  BY DEF Chain, Linked, Heads, HeadOK
<1>7. Given
  BY DEF Given, Revision
<1> QED
  BY <1>1, <1>2, <1>3, <1>4, <1>5, <1>6, <1>7 DEF IInv

\* The inductive invariant: the consumer, its channel and the page that shows
\* what comes out of it agree on the text, whoever attaches and whatever fails.
THEOREM Invariance == Spec => []IInv
<1>1. Init => IInv
  BY InitInv
<1>2. IInv /\ [Next]_vars => IInv'
  BY TypesKept, RolesKept, ConsumersKept, RoomyKept, OverKept, ChainKept, HeadsKept, GivenKept
  DEF IInv
<1> QED
  BY <1>1, <1>2, PTL DEF Spec

\* Every variable keeps its type; the revisions never run out of their bound,
\* for every call under way has one reserved.
THEOREM TypeCorrect == Spec => []TypeOK
<1>1. IInv => TypeOK
  BY DEF IInv, Types
<1> QED
  BY <1>1, Invariance, PTL

\* A delta the page takes continues exactly the text it shows, however often
\* the consumer is replaced (attach) and the page reloaded.
THEOREM NoGapEver == Spec => []NoGap
<1>1. ASSUME IInv  PROVE NoGap
  <2> SUFFICES ASSUME NEW r \in Revision, pipe[r] # <<>>, dest[r] = page, Accepts(r),
                      Head(pipe[r]).type = "delta"
               PROVE  Head(pipe[r]).base = view.text
    BY DEF NoGap
  <2>1. pipe[r] \in Seq(Event)
    BY <1>1 DEF IInv, Types, TypeOK
  <2>2. Head(pipe[r]) = pipe[r][1]
    BY <2>1, HeadTailProperties
  <2> QED
    BY <1>1, <2>2 DEF IInv, Heads, HeadOK
<1> QED
  BY <1>1, Invariance, PTL

\* A page that is the consumer and has nothing under way shows all that was
\* delivered: what send_aurora skipped as unchanged was unchanged for it.
THEOREM AlwaysCaughtUp == Spec => []CaughtUp
<1>1. IInv => CaughtUp
  BY DEF IInv, Given, CaughtUp, Streaming
<1> QED
  BY <1>1, Invariance, PTL
=============================================================================
