-------------------------- MODULE SyncMessages_proofs --------------------------
(***************************************************************************)
(* Proofs about SyncMessages, for every list of batches, whatever the      *)
(* desktop decides: a completed session is aligned, the hashes are         *)
(* repaired however the attempt ends, the completion frame goes out when   *)
(* everything is done, and a push follows the pulls of its batch.          *)
(***************************************************************************)
EXTENDS SyncMessages, SequenceTheorems, FiniteSetTheorems, TLAPS

Pcs == {"idle", "classify", "delete", "pull", "push", "complete", "next", "finish"}

\* What is in a channel, and that it is in it once.
Box(s) == {s[i] : i \in 1 .. Len(s)}
Once(s, c) == \A i, j \in 1 .. Len(s) : s[i].cmd = c /\ s[j].cmd = c => i = j

RxOK(s) ==
  /\ s \in Seq(Command)
  /\ \A m \in Box(s) : m.cmd = "SendDiff" => m.batch \in DOMAIN Batches

LoopTypes ==
  /\ RxOK(rx)
  /\ wire \subseteq DOMAIN Batches /\ todo \in Seq(DOMAIN Batches)
  /\ changed \in {{}, Topics} /\ expected \subseteq changed
  /\ todo # <<>> => changed # {}
  /\ inflight \in BOOLEAN

HandlerTypes ==
  /\ handler \in [pc : Pcs, keys : SUBSET Topics, ops : {handler.ops}, left : SUBSET Topics]
  /\ handler.left \subseteq handler.keys
  /\ handler.pc \notin {"idle", "classify"} => handler.keys \subseteq changed

StoreTypes ==
  /\ completed \subseteq changed /\ modified \subseteq changed /\ failed \subseteq changed
  /\ queued \subseteq Topics /\ stale \subseteq Topics /\ gone \subseteq Topics
  /\ lost \subseteq Topics /\ pushed \subseteq Topics
  /\ writeError \in BOOLEAN /\ tx \in Topics \cup {None}

EndTypes ==
  /\ finalized \in BOOLEAN /\ awaiting \in BOOLEAN /\ announced \in BOOLEAN
  /\ watchdog \in {"off", "armed"}
  /\ outcome \in {"none", "completed", "fatal", "restart", "lost", "cancelled", "unrepaired"}
  /\ stage \in {"loop", "join", "drain", "repair", "over"}
  /\ stray \in 0 .. MaxStray /\ overlap \in BOOLEAN

Types == LoopTypes /\ HandlerTypes /\ StoreTypes /\ EndTypes

In(c) == \E m \in Box(rx) : m.cmd = c
Diffs == {m \in Box(rx) : m.cmd = "SendDiff"}

\* A batch is in flight until its handler has told the loop that it finished;
\* a handler that failed or was cancelled leaves it in flight for good.
Flight ==
  /\ handler.pc # "idle" => inflight
  /\ stage \notin {"loop", "join"} => handler.pc = "idle"
  /\ In("BatchFinished") => inflight /\ handler.pc = "idle"
  /\ Once(rx, "BatchFinished")

Dead == inflight /\ handler.pc = "idle" /\ ~In("BatchFinished")

\* Writes belong to topics whose hashes are to be repaired.
Owned ==
  /\ stale \cup queued \subseteq modified
  /\ tx # None => tx \in modified
  /\ handler.pc \notin {"idle", "classify"} => handler.keys \subseteq modified

\* Who may have a write under way.
Writing ==
  /\ queued # {} => handler.pc = "pull" \/ Dead
  /\ tx # None => (handler.pc = "delete" /\ tx \in handler.left) \/ Dead

\* What of a batch is committed by the time it is pushed.
Merged ==
  ~finalized =>
    /\ handler.pc = "delete" => Asks("delete") \ handler.left \subseteq stale
    /\ handler.pc \in {"pull", "push"} => Asks("delete") \subseteq stale
    /\ handler.pc = "pull" => writeError \/ Asks("pull") \ handler.left \subseteq queued \cup stale
    /\ handler.pc = "push" => Asks("pull") \subseteq stale

Ending ==
  /\ awaiting => announced
  /\ announced => finalized
  /\ outcome = "completed" => announced
  /\ stage = "loop" => outcome = "none"
  /\ stage \in {"drain", "repair"} => outcome # "completed"
  /\ stage = "repair" => queued = {}
  /\ stage = "over" /\ outcome \notin {"unrepaired", "completed"} =>
       stale = {} /\ queued = {} /\ tx = None
  /\ In("Finalize") => completed = changed

\* Between its request and its answer nothing else is under way.
Asked(b) ==
  /\ expected = Batches[b] /\ expected \cap completed = {} /\ changed # {}
  /\ handler.pc \in {"idle", "finish"}

Opening ==
  In("StartMessages") =>
    /\ Len(rx) = 1 /\ wire = {} /\ todo = <<>> /\ completed = {} /\ handler.pc = "idle"
    /\ ~announced

Requests ==
  /\ \A m \in Diffs : Asked(m.batch) /\ wire = {}
  /\ Once(rx, "SendDiff")
  /\ \A b \in wire : Asked(b) /\ wire = {b}

\* What the handler works on was asked for, and is not complete yet.
Working ==
  /\ inflight => changed # {}
  /\ handler.pc \in {"classify", "delete", "pull", "push", "complete"} => handler.keys = expected
  /\ handler.pc = "classify" => handler.keys # {} /\ handler.keys \cap completed = {}
  /\ handler.pc \in {"delete", "pull", "push", "complete"} =>
       Active # {} /\ Active \cap completed = {}

\* The batches still to come have nothing in common with those before them.
Coming ==
  \A i \in 1 .. Len(todo) :
    /\ Batches[todo[i]] \cap (completed \cup expected) = {}
    /\ \A j \in 1 .. Len(todo) : todo[i] = todo[j] => i = j

Thread == Opening /\ Requests /\ Working /\ Coming

\* What was lost or failed is not forgotten.
Losses ==
  /\ failed # {} => Dead /\ completed # changed
  /\ lost # {} => \/ writeError
                  \/ Dead /\ completed # changed
                  \/ finalized /\ ~announced
                  \/ stage \in {"repair", "over"}
  /\ announced =>
       /\ completed = changed /\ failed = {} /\ queued = {} /\ stale = {} /\ lost = {}
       /\ tx = None

Honest == stray = 0 => Thread /\ Losses

IInv == Types /\ Flight /\ Owned /\ Writing /\ Merged /\ Ending /\ Honest

-----------------------------------------------------------------------------
(* The command channel, the handler's record and the batches.              *)

\* A command is added at the end of the channel.
LEMMA BoxAppend ==
  ASSUME NEW s \in Seq(Command), NEW m \in Command, NEW c
  PROVE  /\ Append(s, m) \in Seq(Command) /\ Len(Append(s, m)) = Len(s) + 1
         /\ Box(Append(s, m)) = Box(s) \cup {m}
         /\ Once(s, c) /\ (m.cmd = c => \A x \in Box(s) : x.cmd # c) => Once(Append(s, m), c)
<1> DEFINE t == Append(s, m)
<1>1. /\ t \in Seq(Command) /\ Len(t) = Len(s) + 1 /\ Len(s) \in Nat
      /\ \A i \in 1 .. Len(s) : t[i] = s[i]
      /\ t[Len(s) + 1] = m
  BY AppendProperties
<1>2. \A i \in 1 .. Len(t) : i \in 1 .. Len(s) \/ i = Len(s) + 1
  BY <1>1
<1>3. Box(t) = Box(s) \cup {m}
  <2>1. Box(t) \subseteq Box(s) \cup {m}
    BY <1>1, <1>2 DEF Box
  <2>2. Box(s) \subseteq Box(t)
    BY <1>1 DEF Box
  <2>3. m \in Box(t)
    BY <1>1 DEF Box
  <2> QED
    BY <2>1, <2>2, <2>3
<1>4. ASSUME Once(s, c), m.cmd = c => \A x \in Box(s) : x.cmd # c  PROVE Once(t, c)
  <2> SUFFICES ASSUME NEW i \in 1 .. Len(t), NEW j \in 1 .. Len(t), t[i].cmd = c, t[j].cmd = c
               PROVE  i = j
    BY DEF Once
  <2>1. CASE i \in 1 .. Len(s) /\ j \in 1 .. Len(s)
    BY <1>1, <1>4, <2>1 DEF Once
  <2>2. CASE i \in 1 .. Len(s) /\ j = Len(s) + 1
    BY <1>1, <1>4, <2>2 DEF Box
  <2>3. CASE j \in 1 .. Len(s) /\ i = Len(s) + 1
    BY <1>1, <1>4, <2>3 DEF Box
  <2> QED
    BY <1>2, <2>1, <2>2, <2>3
<1> QED
  BY <1>1, <1>3, <1>4

\* The first command leaves the channel.
LEMMA BoxTail ==
  ASSUME NEW s \in Seq(Command), s # <<>>, NEW c
  PROVE  /\ Tail(s) \in Seq(Command) /\ Len(Tail(s)) = Len(s) - 1
         /\ Box(s) = Box(Tail(s)) \cup {Head(s)}
         /\ Head(s) \in Command
         /\ Once(s, c) => Once(Tail(s), c)
         /\ Once(s, c) /\ Head(s).cmd = c => \A x \in Box(Tail(s)) : x.cmd # c
<1> DEFINE t == Tail(s)
<1>1. /\ t \in Seq(Command) /\ Len(t) = Len(s) - 1 /\ Len(s) \in Nat /\ Len(s) >= 1
      /\ \A i \in 1 .. Len(t) : t[i] = s[i + 1]
      /\ Head(s) = s[1] /\ s[1] \in Command
  BY HeadTailProperties
<1> HIDE DEF t
<1>2. \A i \in 1 .. Len(t) : i + 1 \in 1 .. Len(s) /\ i + 1 # 1
  BY <1>1
<1>3. \A i \in 1 .. Len(s) : i = 1 \/ (i - 1 \in 1 .. Len(t) /\ (i - 1) + 1 = i)
  BY <1>1
<1>4. Box(s) = Box(t) \cup {Head(s)}
  <2>1. Box(t) \subseteq Box(s)
    BY <1>1, <1>2 DEF Box
  <2>2. Head(s) \in Box(s)
    BY <1>1 DEF Box
  <2>3. Box(s) \subseteq Box(t) \cup {Head(s)}
    <3> SUFFICES ASSUME NEW i \in 1 .. Len(s)  PROVE s[i] \in Box(t) \cup {Head(s)}
      BY DEF Box
    <3>1. CASE i = 1
      BY <1>1, <3>1
    <3>2. CASE i # 1
      <4>1. s[i] = t[i - 1] /\ i - 1 \in 1 .. Len(t)
        BY <1>1, <1>3, <3>2
      <4> QED
        BY <4>1 DEF Box
    <3> QED
      BY <3>1, <3>2
  <2> QED
    BY <2>1, <2>2, <2>3
<1>5. ASSUME Once(s, c)  PROVE Once(t, c)
  <2> SUFFICES ASSUME NEW i \in 1 .. Len(t), NEW j \in 1 .. Len(t), t[i].cmd = c, t[j].cmd = c
               PROVE  i = j
    BY DEF Once
  <2>1. i + 1 = j + 1
    BY <1>1, <1>2, <1>5 DEF Once
  <2> QED
    BY <2>1
<1>6. ASSUME Once(s, c), Head(s).cmd = c, NEW x \in Box(t), x.cmd = c  PROVE FALSE
  <2>1. PICK i \in 1 .. Len(t) : x = t[i]
    BY DEF Box
  <2>2. s[i + 1].cmd = c /\ s[1].cmd = c /\ 1 \in 1 .. Len(s) /\ i + 1 \in 1 .. Len(s) /\ i + 1 # 1
    BY <1>1, <1>2, <1>6, <2>1
  <2> QED
    BY <1>6, <2>2 DEF Once
<1> QED
  BY <1>1, <1>4, <1>5, <1>6 DEF t

\* Commands are commands.
LEMMA CmdTyped ==
  /\ \A c \in {"StartMessages", "Finalize", "BatchFinished", "FailFatal", "FailRestart"} :
       Cmd(c) \in Command /\ Cmd(c).cmd = c
  /\ \A b \in Nat : [cmd |-> "SendDiff", batch |-> b] \in Command
  BY DEF Cmd, Command

\* What each batch and the topics are to each other.
LEMMA BatchFacts ==
  /\ DOMAIN Batches = 1 .. Len(Batches) /\ Len(Batches) \in Nat
  /\ \A b \in DOMAIN Batches : Batches[b] \subseteq Topics /\ Batches[b] # {} /\ b \in Nat
  /\ \A i, j \in DOMAIN Batches : i # j => Batches[i] \cap Batches[j] = {}
  /\ Topics # {} => 1 \in DOMAIN Batches
<1>1. Batches \in Seq((SUBSET Topics) \ {{}})
  BY BatchesAssumption
<1>2. DOMAIN Batches = 1 .. Len(Batches) /\ Len(Batches) \in Nat
  BY <1>1
<1>3. \A b \in DOMAIN Batches : Batches[b] \subseteq Topics /\ Batches[b] # {} /\ b \in Nat
  <2>1. ASSUME NEW b \in DOMAIN Batches  PROVE Batches[b] \in (SUBSET Topics) \ {{}}
    BY <1>1, <1>2
  <2>2. \A b \in DOMAIN Batches : b \in Nat
    BY <1>2
  <2>3. ASSUME NEW b \in DOMAIN Batches  PROVE Batches[b] \subseteq Topics /\ Batches[b] # {}
    <3>1. Batches[b] \in SUBSET Topics /\ Batches[b] \notin {{}}
      BY <2>1
    <3> QED
      BY <3>1
  <2> QED
    BY <2>2, <2>3
<1>4. ASSUME Topics # {}  PROVE 1 \in DOMAIN Batches
  <2>1. PICK b \in DOMAIN Batches : TRUE
    BY <1>4 DEF Topics, Range
  <2> QED
    BY <1>2, <2>1
<1> QED
  BY <1>2, <1>3, <1>4, BatchesAssumption

\* The handler goes on, with its batch, or is gone.
LEMMA GotoFacts ==
  ASSUME Types, NEW p \in Pcs, NEW l \in SUBSET Topics, Goto(p, l)
  PROVE  /\ handler'.pc = p /\ handler'.left = l
         /\ handler'.keys = handler.keys /\ handler'.ops = handler.ops
         /\ handler' \in
              [pc : Pcs, keys : SUBSET Topics, ops : {handler'.ops}, left : SUBSET Topics]
         /\ Active' = Active /\ \A op : Asks(op)' = Asks(op)
<1>1. handler \in [pc : Pcs, keys : SUBSET Topics, ops : {handler.ops}, left : SUBSET Topics]
  BY DEF Types, HandlerTypes
<1>2. handler' = [handler EXCEPT !.pc = p, !.left = l]
  BY DEF Goto
<1>3. /\ handler'.pc = p /\ handler'.left = l
      /\ handler'.keys = handler.keys /\ handler'.ops = handler.ops
      /\ handler' \in [pc : Pcs, keys : SUBSET Topics, ops : {handler'.ops}, left : SUBSET Topics]
  BY <1>1, <1>2
<1>4. Active' = Active
  BY <1>3 DEF Active
<1>5. ASSUME NEW op  PROVE Asks(op)' = Asks(op)
  BY <1>3 DEF Asks
<1> QED
  BY <1>3, <1>4, <1>5

\* A handler that is gone works on nothing.
LEMMA IdleFacts ==
  ASSUME handler' = Idle
  PROVE  /\ handler'.pc = "idle" /\ handler'.left = {} /\ handler'.keys = {}
         /\ handler' \in
              [pc : Pcs, keys : SUBSET Topics, ops : {handler'.ops}, left : SUBSET Topics]
  BY DEF Idle, Pcs

-----------------------------------------------------------------------------
(* What the shared parts of the actions do.                                *)

\* The loop takes a command.
LEMMA Taken ==
  ASSUME Types, NEW c, Receive(c), rx' = Tail(rx)
  PROVE  /\ RxOK(rx') /\ Len(rx') = Len(rx) - 1 /\ Len(rx) \in Nat
         /\ Box(rx') \subseteq Box(rx) /\ Diffs' \subseteq Diffs
         /\ Head(rx) \in Box(rx) /\ Head(rx) \in Command /\ Head(rx).cmd = c
         /\ In(c) /\ \A k : In(k)' => In(k)
         /\ \A k : Once(rx, k) => Once(rx', k)
         /\ Once(rx, c) => ~In(c)'
         /\ Len(rx) = 1 => Box(rx') = {}
<1>1. rx \in Seq(Command) /\ rx # <<>> /\ Head(rx).cmd = c
  BY DEF Types, LoopTypes, RxOK, Receive
<1>2. /\ rx' \in Seq(Command) /\ Len(rx') = Len(rx) - 1
      /\ Box(rx) = Box(rx') \cup {Head(rx)} /\ Head(rx) \in Command
  BY <1>1, BoxTail
<1>3. \A k : Once(rx, k) => Once(rx', k)
  BY <1>1, BoxTail
<1>4. Once(rx, c) => \A x \in Box(rx') : x.cmd # c
  BY <1>1, BoxTail
<1>5. RxOK(rx')
  BY <1>2 DEF Types, LoopTypes, RxOK
<1>6. Len(rx) \in Nat
  BY <1>1
<1>7. In(c) /\ (\A k : In(k)' => In(k)) /\ Diffs' \subseteq Diffs
  BY <1>1, <1>2 DEF In, Diffs
<1>8. Once(rx, c) => ~In(c)'
  BY <1>4 DEF In
<1>9. Len(rx) = 1 => Box(rx') = {}
  BY <1>2 DEF Box
<1> QED
  BY <1>1, <1>2, <1>3, <1>5, <1>6, <1>7, <1>8, <1>9

\* A command that is not a request is queued.
LEMMA CmdAppend ==
  ASSUME Types, NEW c \in {"Finalize", "BatchFinished", "FailFatal", "FailRestart"},
         rx' = Append(rx, Cmd(c))
  PROVE  /\ RxOK(rx') /\ Diffs' = Diffs
         /\ \A k : In(k)' <=> In(k) \/ k = c
         /\ \A k : Once(rx, k) /\ (k = c => ~In(k)) => Once(rx', k)
<1>1. Cmd(c) \in Command /\ Cmd(c).cmd = c /\ c # "SendDiff"
  BY CmdTyped
<1>2. rx \in Seq(Command)
  BY DEF Types, LoopTypes, RxOK
<1>3. rx' \in Seq(Command) /\ Box(rx') = Box(rx) \cup {Cmd(c)}
  BY <1>1, <1>2, BoxAppend
<1>4. RxOK(rx')
  BY <1>1, <1>3 DEF Types, LoopTypes, RxOK
<1>5. Diffs' = Diffs /\ \A k : In(k)' <=> In(k) \/ k = c
  BY <1>1, <1>3 DEF Diffs, In
<1>6. ASSUME NEW k, Once(rx, k), k = c => ~In(k)  PROVE Once(rx', k)
  <2>1. Cmd(c).cmd = k => \A x \in Box(rx) : x.cmd # k
    BY <1>1, <1>6 DEF In
  <2> QED
    BY <1>1, <1>2, <1>6, <2>1, BoxAppend
<1> QED
  BY <1>4, <1>5, <1>6

\* The next request is queued.
LEMMA DiffAppend ==
  ASSUME Types, NEW b \in DOMAIN Batches,
         rx' = Append(rx, [cmd |-> "SendDiff", batch |-> b])
  PROVE  /\ RxOK(rx') /\ Diffs' = Diffs \cup {[cmd |-> "SendDiff", batch |-> b]}
         /\ \A k : In(k)' <=> In(k) \/ k = "SendDiff"
         /\ \A k : Once(rx, k) /\ (k = "SendDiff" => Diffs = {}) => Once(rx', k)
<1> DEFINE m == [cmd |-> "SendDiff", batch |-> b]
<1>1. m \in Command /\ m.cmd = "SendDiff" /\ m.batch \in DOMAIN Batches
  BY CmdTyped, BatchFacts
<1>2. rx \in Seq(Command)
  BY DEF Types, LoopTypes, RxOK
<1>3. rx' \in Seq(Command) /\ Box(rx') = Box(rx) \cup {m}
  BY <1>1, <1>2, BoxAppend
<1>4. ASSUME NEW k, Once(rx, k), k = "SendDiff" => Diffs = {}  PROVE Once(rx', k)
  <2>1. m.cmd = k => \A x \in Box(rx) : x.cmd # k
    BY <1>4 DEF Diffs
  <2> QED
    BY <1>1, <1>2, <1>4, <2>1, BoxAppend
<1> HIDE DEF m
<1>5. RxOK(rx')
  BY <1>1, <1>3 DEF Types, LoopTypes, RxOK
<1>6. Diffs' = Diffs \cup {m} /\ \A k : In(k)' <=> In(k) \/ k = "SendDiff"
  BY <1>1, <1>3 DEF Diffs, In
<1> QED
  BY <1>4, <1>5, <1>6 DEF m

\* A handler that fails says so and is gone.
LEMMA FailsFacts ==
  ASSUME Types, NEW T \in SUBSET changed, NEW C \in SUBSET {"FailFatal", "FailRestart"},
         HandlerFails(T, C)
  PROVE  /\ failed' = failed \cup T /\ failed' \subseteq changed
         /\ handler' = Idle /\ handler'.pc = "idle"
         /\ RxOK(rx') /\ Diffs' = Diffs
         /\ \A k : k \notin {"FailFatal", "FailRestart"} =>
              (In(k)' <=> In(k)) /\ (Once(rx, k) => Once(rx', k))
<1>1. PICK c \in C : rx' = Append(rx, Cmd(c))
  BY DEF HandlerFails
<1>2. c \in {"FailFatal", "FailRestart"}
  OBVIOUS
<1>3. RxOK(rx') /\ Diffs' = Diffs /\ \A k : In(k)' <=> In(k) \/ k = c
  BY <1>1, <1>2, CmdAppend
<1>4. \A k : k \notin {"FailFatal", "FailRestart"} => (Once(rx, k) => Once(rx', k))
  BY <1>1, <1>2, CmdAppend
<1>5. failed' = failed \cup T /\ failed' \subseteq changed /\ handler' = Idle
  BY DEF HandlerFails, Types, StoreTypes
<1> QED
  BY <1>2, <1>3, <1>4, <1>5, IdleFacts

\* The last topic that is completed asks for the end.
LEMMA MarkFacts ==
  ASSUME Types, NEW T \in SUBSET changed, MarkCompleted(T)
  PROVE  /\ completed' = completed \cup T /\ completed' \subseteq changed
         /\ RxOK(rx') /\ Diffs' = Diffs
         /\ In("Finalize")' => In("Finalize") \/ completed' = changed
         /\ \A k : k # "Finalize" => (In(k)' <=> In(k)) /\ (Once(rx, k) => Once(rx', k))
<1>1. completed' = completed \cup T /\ completed' \subseteq changed
  BY DEF MarkCompleted, Types, StoreTypes
<1>2. CASE rx' = rx
  BY <1>1, <1>2 DEF Types, LoopTypes, Diffs, In
<1>3. CASE rx' = Append(rx, Cmd("Finalize")) /\ completed' = changed
  <2>1. RxOK(rx') /\ Diffs' = Diffs /\ \A k : In(k)' <=> In(k) \/ k = "Finalize"
    BY <1>3, CmdAppend
  <2>2. \A k : k # "Finalize" => (Once(rx, k) => Once(rx', k))
    BY <1>3, CmdAppend
  <2> QED
    BY <1>1, <1>3, <2>1, <2>2
<1> QED
  BY <1>2, <1>3 DEF MarkCompleted, Announce

\* A decision that cannot be followed leaves what was noted before it, and a
\* failed topic that no completion covers.
LEMMA RejectFacts ==
  ASSUME Types, RejectDecision
  PROVE  /\ RxOK(rx') /\ Diffs' = Diffs
         /\ In("Finalize")' => In("Finalize") \/ completed' = changed
         /\ \A k : k \notin {"Finalize", "FailFatal", "FailRestart"} =>
              (In(k)' <=> In(k)) /\ (Once(rx, k) => Once(rx', k))
         /\ handler.pc = "classify" /\ stage \in {"loop", "join"}
         /\ handler.keys = expected /\ handler' = Idle /\ handler'.pc = "idle"
         /\ modified \subseteq modified' /\ modified' \subseteq changed
         /\ completed \subseteq completed' /\ completed' \subseteq completed \cup expected
         /\ completed' \subseteq changed /\ failed' \subseteq changed
         /\ \E t \in expected : (t \in completed' => t \in completed)
<1>1. /\ handler.pc = "classify" /\ stage \in {"loop", "join"} /\ handler.keys = expected
      /\ handler' = Idle /\ handler'.pc = "idle"
  BY IdleFacts DEF RejectDecision, At
<1>2. PICK t \in handler.keys, seen \in SUBSET handler.keys :
        /\ t \notin seen
        /\ modified' = modified \cup seen
        /\ completed' = completed \cup (seen \ Active)
        /\ failed' = failed \cup {t}
        /\ \E c \in {"FailFatal", "FailRestart"} :
             rx' = Append(Announce(seen \ Active), Cmd(c))
  BY DEF RejectDecision
<1>3. /\ modified \subseteq modified' /\ modified' \subseteq changed
      /\ completed \subseteq completed' /\ completed' \subseteq completed \cup expected
      /\ completed' \subseteq changed /\ failed' \subseteq changed
  BY <1>1, <1>2 DEF Types, LoopTypes, StoreTypes
<1>4. t \in expected /\ (t \in completed' => t \in completed)
  BY <1>1, <1>2
<1> DEFINE s == Announce(seen \ Active)
<1>5. /\ RxOK(s) /\ {m \in Box(s) : m.cmd = "SendDiff"} = Diffs
      /\ \A k : (\E m \in Box(s) : m.cmd = k) =>
           In(k) \/ (k = "Finalize" /\ completed' = changed)
      /\ \A k : In(k) => \E m \in Box(s) : m.cmd = k
      /\ \A k : k # "Finalize" => (Once(rx, k) => Once(s, k))
  <2>1. CASE s = rx
    BY <2>1 DEF Types, LoopTypes, Diffs, In
  <2>2. CASE s = Append(rx, Cmd("Finalize")) /\ completed' = changed
    <3>1. Cmd("Finalize") \in Command /\ Cmd("Finalize").cmd = "Finalize"
      BY CmdTyped
    <3>2. rx \in Seq(Command)
      BY DEF Types, LoopTypes, RxOK
    <3>3. s \in Seq(Command) /\ Box(s) = Box(rx) \cup {Cmd("Finalize")}
      BY <2>2, <3>1, <3>2, BoxAppend
    <3>4. ASSUME NEW k, k # "Finalize", Once(rx, k)  PROVE Once(s, k)
      <4>1. Cmd("Finalize").cmd # k
        BY <3>1, <3>4
      <4>2. Once(Append(rx, Cmd("Finalize")), k)
        BY <3>1, <3>2, <3>4, <4>1, BoxAppend
      <4> QED
        BY <2>2, <4>2
    <3>5. RxOK(s)
      BY <3>1, <3>3 DEF Types, LoopTypes, RxOK
    <3> QED
      BY <2>2, <3>1, <3>3, <3>4, <3>5 DEF Diffs, In
  <2> QED
    BY <1>2, <2>1, <2>2 DEF Announce
<1>6. PICK c \in {"FailFatal", "FailRestart"} : rx' = Append(s, Cmd(c))
  BY <1>2
<1> HIDE DEF s
<1>7. Cmd(c) \in Command /\ Cmd(c).cmd = c /\ s \in Seq(Command)
  BY <1>5, CmdTyped DEF RxOK
<1>8. rx' \in Seq(Command) /\ Box(rx') = Box(s) \cup {Cmd(c)}
  BY <1>6, <1>7, BoxAppend
<1>9. RxOK(rx')
  BY <1>5, <1>7, <1>8 DEF RxOK
<1>10. Diffs' = Diffs
  BY <1>5, <1>7, <1>8 DEF Diffs
<1>11. In("Finalize")' => In("Finalize") \/ completed' = changed
  BY <1>5, <1>7, <1>8 DEF In
<1>12. ASSUME NEW k, k \notin {"Finalize", "FailFatal", "FailRestart"}
       PROVE  (In(k)' <=> In(k)) /\ (Once(rx, k) => Once(rx', k))
  <2>1. In(k)' <=> In(k)
    BY <1>5, <1>7, <1>8, <1>12 DEF In
  <2>2. Once(s, k) => Once(rx', k)
    BY <1>6, <1>7, <1>12, BoxAppend
  <2> QED
    BY <1>5, <1>12, <2>1, <2>2
<1> QED
  BY <1>1, <1>3, <1>4, <1>9, <1>10, <1>11, <1>12

-----------------------------------------------------------------------------
(* The types.                                                              *)

\* The loop.
LEMMA LoopTyped ==
  ASSUME IInv, [Next]_vars
  PROVE  LoopTypes'
<1>1. ASSUME StartMessages  PROVE LoopTypes'
  <2>1. rx \in Seq(Command) /\ rx # <<>> /\ Types
    BY <1>1 DEF StartMessages, Receive, IInv, Types, LoopTypes, RxOK
  <2>2. /\ Tail(rx) \in Seq(Command) /\ Box(rx) = Box(Tail(rx)) \cup {Head(rx)}
    BY <2>1, BoxTail
  <2>3. \A m \in Box(Tail(rx)) : m.cmd = "SendDiff" => m.batch \in DOMAIN Batches
    BY <2>1, <2>2 DEF Types, LoopTypes, RxOK
  <2>4. ASSUME NEW c \in {"Finalize", "FailFatal"}, rx' = Append(Tail(rx), Cmd(c))  PROVE RxOK(rx')
    <3>1. Cmd(c) \in Command /\ Cmd(c).cmd = c
      BY CmdTyped
    <3>2. rx' \in Seq(Command) /\ Box(rx') = Box(Tail(rx)) \cup {Cmd(c)}
      BY <2>2, <2>4, <3>1, BoxAppend
    <3> QED
      BY <2>3, <3>1, <3>2 DEF RxOK
  <2>5. RxOK(rx')
    <3>1. CASE rx' = Tail(rx)
      BY <2>2, <2>3, <3>1 DEF RxOK
    <3> QED
      BY <1>1, <2>4, <3>1 DEF StartMessages
  <2>6. CASE UNCHANGED <<wire, todo, expected>>
    BY <1>1, <2>1, <2>5, <2>6 DEF StartMessages, Types, LoopTypes
  <2>7. CASE /\ changed # {} /\ todo' = [i \in 1 .. Len(Batches) - 1 |-> i + 1]
             /\ expected' = Batches[1] /\ wire' = {1}
    <3>1. changed' = changed /\ inflight' = inflight
      BY <1>1 DEF StartMessages
    <3>2. changed = Topics
      BY <2>1, <2>7 DEF Types, LoopTypes
    <3>3. 1 \in DOMAIN Batches
      BY <2>7, <3>2, BatchFacts
    <3>4. expected' \subseteq changed' /\ wire' \subseteq DOMAIN Batches
      BY <2>7, <3>1, <3>2, <3>3, BatchFacts
    <3>5. Len(Batches) - 1 \in Nat /\ \A i \in 1 .. Len(Batches) - 1 : i + 1 \in DOMAIN Batches
      BY <3>3, BatchFacts
    <3>6. todo' \in Seq(DOMAIN Batches)
      BY <2>7, <3>5
    <3> QED
      BY <2>1, <2>5, <2>7, <3>1, <3>2, <3>4, <3>6 DEF Types, LoopTypes
  <2> QED
    BY <1>1, <2>6, <2>7 DEF StartMessages
<1>2. ASSUME SendMessageDiff  PROVE LoopTypes'
  <2>1. Types /\ Receive("SendDiff") /\ rx' = Tail(rx)
    BY <1>2 DEF SendMessageDiff, IInv
  <2>2. RxOK(rx') /\ Head(rx) \in Box(rx) /\ Head(rx).cmd = "SendDiff"
    BY <2>1, Taken
  <2>3. Head(rx).batch \in DOMAIN Batches
    BY <2>1, <2>2 DEF Types, LoopTypes, RxOK
  <2> QED
    BY <1>2, <2>1, <2>2, <2>3 DEF SendMessageDiff, Types, LoopTypes
<1>3. ASSUME Phase3BatchFinished  PROVE LoopTypes'
  <2>1. Types /\ Receive("BatchFinished") /\ rx' = Tail(rx)
    BY <1>3 DEF Phase3BatchFinished, IInv
  <2>2. RxOK(rx')
    BY <2>1, Taken
  <2> QED
    BY <1>3, <2>1, <2>2 DEF Phase3BatchFinished, Types, LoopTypes
<1>4. ASSUME FailAttempt  PROVE LoopTypes'
  <2>1. Types /\ rx' = Tail(rx) /\ (Receive("FailFatal") \/ Receive("FailRestart"))
    BY <1>4 DEF FailAttempt, IInv
  <2>2. RxOK(rx')
    BY <2>1, Taken
  <2> QED
    BY <1>4, <2>1, <2>2 DEF FailAttempt, Types, LoopTypes
<1>5. ASSUME Finalize  PROVE LoopTypes'
  <2>1. Types /\ Receive("Finalize") /\ rx' = Tail(rx)
    BY <1>5 DEF Finalize, IInv
  <2>2. RxOK(rx')
    BY <2>1, Taken
  <2> QED
    BY <1>5, <2>1, <2>2 DEF Finalize, Types, LoopTypes
<1>6. ASSUME Classify  PROVE LoopTypes'
  <2>1. Types
    BY DEF IInv
  <2>2. CASE handler.keys = expected
    <3>1. handler.keys \ Active \in SUBSET changed /\ MarkCompleted(handler.keys \ Active)
      BY <1>6, <2>1, <2>2 DEF Classify, Types, LoopTypes
    <3>2. RxOK(rx')
      BY <2>1, <3>1, MarkFacts
    <3> QED
      BY <1>6, <2>1, <3>2 DEF Classify, Types, LoopTypes
  <2>3. CASE handler.keys # expected
    <3>1. HandlerFails({}, {"FailFatal"})
      BY <1>6, <2>3 DEF Classify
    <3>2. RxOK(rx')
      BY <2>1, <3>1, FailsFacts
    <3> QED
      BY <1>6, <2>1, <3>2 DEF Classify, Types, LoopTypes
  <2> QED
    BY <2>2, <2>3
<1>6a. ASSUME RejectDecision  PROVE LoopTypes'
  <2>1. Types /\ RxOK(rx')
    BY <1>6a, RejectFacts DEF IInv
  <2> QED
    BY <1>6a, <2>1 DEF RejectDecision, Types, LoopTypes
<1>7. ASSUME DeleteFails  PROVE LoopTypes'
  <2>1. Types /\ {tx} \subseteq changed /\ HandlerFails({tx}, {"FailFatal"})
    BY <1>7 DEF DeleteFails, IInv, Owned, Types, StoreTypes
  <2>2. RxOK(rx')
    BY <2>1, FailsFacts
  <2> QED
    BY <1>7, <2>1, <2>2 DEF DeleteFails, Types, LoopTypes
<1>8. ASSUME PullFails  PROVE LoopTypes'
  <2>1. PICK t \in Asks("pull") : HandlerFails({t}, {"FailFatal", "FailRestart"})
    BY <1>8 DEF PullFails
  <2>2. Types /\ {t} \subseteq changed
    BY <1>8 DEF PullFails, At, Asks, IInv, Types, HandlerTypes
  <2>3. RxOK(rx')
    BY <2>1, <2>2, FailsFacts
  <2> QED
    BY <1>8, <2>2, <2>3 DEF PullFails, Types, LoopTypes
<1>9. ASSUME PullDrain  PROVE LoopTypes'
  <2>1. Types
    BY DEF IInv
  <2>2. CASE rx' = rx
    BY <1>9, <2>1, <2>2 DEF PullDrain, Types, LoopTypes
  <2>3. CASE HandlerFails(Asks("pull"), {"FailFatal"})
    <3>1. Asks("pull") \in SUBSET changed
      BY <1>9, <2>1 DEF PullDrain, At, Asks, Types, HandlerTypes
    <3>2. RxOK(rx')
      BY <2>1, <2>3, <3>1, FailsFacts
    <3> QED
      BY <1>9, <2>1, <3>2 DEF PullDrain, Types, LoopTypes
  <2> QED
    BY <1>9, <2>2, <2>3 DEF PullDrain
<1>10. ASSUME PushFails  PROVE LoopTypes'
  <2>1. PICK t \in Asks("push") : HandlerFails({t}, {"FailFatal", "FailRestart"})
    BY <1>10 DEF PushFails
  <2>2. Types /\ {t} \subseteq changed
    BY <1>10 DEF PushFails, At, Asks, IInv, Types, HandlerTypes
  <2>3. RxOK(rx')
    BY <2>1, <2>2, FailsFacts
  <2> QED
    BY <1>10, <2>2, <2>3 DEF PushFails, Types, LoopTypes
<1>11. ASSUME CompleteBatch  PROVE LoopTypes'
  <2>1. Types /\ Active \in SUBSET changed /\ MarkCompleted(Active)
    BY <1>11 DEF CompleteBatch, At, Active, IInv, Types, HandlerTypes
  <2>2. RxOK(rx')
    BY <2>1, MarkFacts
  <2> QED
    BY <1>11, <2>1, <2>2 DEF CompleteBatch, Types, LoopTypes
<1>12. ASSUME NextBatch  PROVE LoopTypes'
  <2>1. Types
    BY DEF IInv
  <2>2. CASE todo = <<>>
    BY <1>12, <2>1, <2>2 DEF NextBatch, Types, LoopTypes
  <2>3. CASE todo # <<>>
    <3>1. /\ rx' = Append(rx, [cmd |-> "SendDiff", batch |-> Head(todo)])
          /\ expected' = Batches[Head(todo)] /\ todo' = Tail(todo)
          /\ UNCHANGED <<wire, inflight, changed>>
      BY <1>12, <2>3 DEF NextBatch
    <3>2. changed = Topics /\ todo \in Seq(DOMAIN Batches)
      BY <2>1, <2>3 DEF Types, LoopTypes
    <3>3. Head(todo) \in DOMAIN Batches /\ Tail(todo) \in Seq(DOMAIN Batches)
      BY <2>3, <3>2
    <3>4. RxOK(rx')
      BY <2>1, <3>1, <3>3, DiffAppend
    <3>5. expected' \subseteq changed'
      BY <3>1, <3>2, <3>3, BatchFacts
    <3> QED
      BY <2>1, <2>3, <3>1, <3>3, <3>4, <3>5 DEF Types, LoopTypes
  <2> QED
    BY <2>2, <2>3
<1>13. ASSUME FinishBatch  PROVE LoopTypes'
  <2>1. Types /\ rx' = Append(rx, Cmd("BatchFinished"))
    BY <1>13 DEF FinishBatch, IInv
  <2>2. RxOK(rx')
    BY <2>1, CmdAppend
  <2> QED
    BY <1>13, <2>1, <2>2 DEF FinishBatch, Types, LoopTypes
<1>14. ASSUME BatchResult  PROVE LoopTypes'
  BY <1>14 DEF BatchResult, HandleDiffResult, tracker, store, final, ending, IInv, Types,
     LoopTypes
<1>15. ASSUME StrayResult  PROVE LoopTypes'
  BY <1>15 DEF StrayResult, HandleDiffResult, tracker, store, final, ending, IInv, Types,
     LoopTypes
<1>16. ASSUME FinalAckDeadline  PROVE LoopTypes'
  <2>1. Types
    BY DEF IInv
  <2>2. CASE rx' = rx
    BY <1>16, <2>1, <2>2 DEF FinalAckDeadline, Types, LoopTypes
  <2>3. CASE rx' = Append(rx, Cmd("FailFatal"))
    <3>1. RxOK(rx')
      BY <2>1, <2>3, CmdAppend
    <3> QED
      BY <1>16, <2>1, <3>1 DEF FinalAckDeadline, Types, LoopTypes
  <2> QED
    BY <1>16, <2>2, <2>3 DEF FinalAckDeadline
<1>17. ASSUME BeginDelete \/ DeletesDone \/ PullTopic \/ PushTopics \/ CommitWrite \/ CommitDelete
   \/ JoinTasks \/ DrainWrites \/ ReconcileAfterInterruption \/ PhaseAck \/ ConnectionEnds \/
   LocalTopicDelete \/ UNCHANGED vars  PROVE UNCHANGED <<rx, wire, todo, expected, inflight,
   changed>>
  BY <1>17 DEF BeginDelete, DeletesDone, PullTopic, PushTopics, CommitWrite, CommitDelete,
     JoinTasks, DrainWrites, ReconcileAfterInterruption, PhaseAck, ConnectionEnds,
     LocalTopicDelete, vars, tracker, store, final, ending
<1>18. ASSUME UNCHANGED <<rx, wire, todo, expected, inflight, changed>>  PROVE LoopTypes'
  BY <1>18 DEF IInv, Types, LoopTypes
<1> QED
  BY <1>1, <1>2, <1>3, <1>4, <1>5, <1>6, <1>6a, <1>7, <1>8, <1>9, <1>10, <1>11, <1>12, <1>13, <1>14,
     <1>15, <1>16, <1>17, <1>18 DEF Next, Loop, Handler, Storage, Teardown, Desktop, Over

\* Where a handler that goes on may be.
LEMMA PcNames ==
  \A p \in {"delete", "pull", "push", "complete", "next", "finish"} : p \in Pcs
  BY DEF Pcs

\* The handler stays what it is when it goes on, and when it starts.
LEMMA GotoTyped ==
  ASSUME Types, NEW p \in Pcs, NEW l \in SUBSET handler.keys, handler.keys \subseteq changed,
         Goto(p, l), changed' = changed
  PROVE  HandlerTypes'
<1>1. l \in SUBSET Topics
  BY DEF Types, HandlerTypes
<1> QED
  BY <1>1, GotoFacts DEF HandlerTypes

\* An answer starts the handler on one of the batches.
LEMMA DiffTyped ==
  ASSUME Types, NEW b \in DOMAIN Batches, NEW ops, HandleDiffResult(Batches[b], ops),
         changed' = changed
  PROVE  HandlerTypes'
<1>1. Batches[b] \in SUBSET Topics
  BY BatchFacts
<1>2. CASE handler' = handler
  BY <1>2 DEF Types, HandlerTypes
<1>3. CASE handler' = [pc |-> "classify", keys |-> Batches[b], ops |-> ops, left |-> Batches[b]]
  <2>1. handler' \in [pc : Pcs, keys : SUBSET Topics, ops : {handler'.ops}, left : SUBSET Topics]
    BY <1>1, <1>3 DEF Pcs
  <2>2. handler'.left \subseteq handler'.keys /\ handler'.pc = "classify"
    BY <1>3
  <2> QED
    BY <2>1, <2>2 DEF HandlerTypes
<1> QED
  BY <1>2, <1>3 DEF HandleDiffResult

\* The handler.
LEMMA HandlerTyped ==
  ASSUME IInv, [Next]_vars
  PROVE  HandlerTypes'
<1>1. ASSUME Classify  PROVE HandlerTypes'
  <2>1. Types /\ changed' = changed
    BY <1>1 DEF Classify, IInv
  <2>2. CASE handler.keys = expected
    <3>1. /\ {} \in SUBSET handler.keys
          /\ Asks("delete") \in SUBSET handler.keys
          /\ handler.keys \subseteq changed
      BY <2>1, <2>2 DEF Asks, Types, LoopTypes
    <3> QED
      BY <1>1, <2>1, <2>2, <3>1, GotoTyped, PcNames DEF Classify
  <2>3. CASE handler.keys # expected
    <3>1. handler' = Idle
      BY <1>1, <2>3 DEF Classify, HandlerFails
    <3> QED
      BY <3>1, IdleFacts DEF HandlerTypes
  <2> QED
    BY <2>2, <2>3
<1>1a. ASSUME RejectDecision  PROVE HandlerTypes'
  <2>1. handler' = Idle
    BY <1>1a DEF RejectDecision
  <2> QED
    BY <2>1, IdleFacts DEF HandlerTypes
<1>2. ASSUME DeleteFails  PROVE HandlerTypes'
  <2>1. handler' = Idle
    BY <1>2 DEF DeleteFails, HandlerFails
  <2> QED
    BY <2>1, IdleFacts DEF HandlerTypes
<1>3. ASSUME DeletesDone  PROVE HandlerTypes'
  <2>1. Types /\ changed' = changed
    BY <1>3 DEF DeletesDone, IInv
  <2>2. /\ {} \in SUBSET handler.keys
        /\ Asks("pull") \in SUBSET handler.keys
        /\ handler.keys \subseteq changed
    BY <1>3, <2>1 DEF DeletesDone, At, Asks, Types, HandlerTypes
  <2> QED
    BY <1>3, <2>1, <2>2, GotoTyped, PcNames DEF DeletesDone
<1>4. ASSUME PullTopic  PROVE HandlerTypes'
  <2>1. PICK t \in handler.left : Goto("pull", handler.left \ {t})
    BY <1>4 DEF PullTopic
  <2>2. /\ Types
        /\ changed' = changed
        /\ handler.left \ {t} \in SUBSET handler.keys
        /\ handler.keys \subseteq changed
    BY <1>4 DEF PullTopic, At, IInv, Types, HandlerTypes
  <2> QED
    BY <2>1, <2>2, GotoTyped, PcNames
<1>5. ASSUME PullFails  PROVE HandlerTypes'
  <2>1. handler' = Idle
    BY <1>5 DEF PullFails, HandlerFails
  <2> QED
    BY <2>1, IdleFacts DEF HandlerTypes
<1>6. ASSUME PullDrain  PROVE HandlerTypes'
  <2>1. Types /\ changed' = changed
    BY <1>6 DEF PullDrain, IInv
  <2>2. CASE Goto("push", {})
    <3>1. {} \in SUBSET handler.keys /\ handler.keys \subseteq changed
      BY <1>6, <2>1 DEF PullDrain, At, Types, HandlerTypes
    <3> QED
      BY <2>1, <2>2, <3>1, GotoTyped, PcNames
  <2>3. CASE handler' = Idle
    BY <2>3, IdleFacts DEF HandlerTypes
  <2> QED
    BY <1>6, <2>2, <2>3 DEF PullDrain, HandlerFails
<1>7. ASSUME PushTopics  PROVE HandlerTypes'
  <2>1. Types /\ Goto("complete", {}) /\ changed' = changed
    BY <1>7 DEF PushTopics, IInv
  <2>2. {} \in SUBSET handler.keys /\ handler.keys \subseteq changed
    BY <1>7, <2>1 DEF PushTopics, At, Asks, Types, HandlerTypes
  <2> QED
    BY <2>1, <2>2, GotoTyped, PcNames
<1>8. ASSUME PushFails  PROVE HandlerTypes'
  <2>1. handler' = Idle
    BY <1>8 DEF PushFails, HandlerFails
  <2> QED
    BY <2>1, IdleFacts DEF HandlerTypes
<1>9. ASSUME CompleteBatch  PROVE HandlerTypes'
  <2>1. Types /\ Goto("next", {}) /\ changed' = changed
    BY <1>9 DEF CompleteBatch, IInv
  <2>2. {} \in SUBSET handler.keys /\ handler.keys \subseteq changed
    BY <1>9, <2>1 DEF CompleteBatch, At, Asks, Types, HandlerTypes
  <2> QED
    BY <2>1, <2>2, GotoTyped, PcNames
<1>10. ASSUME NextBatch  PROVE HandlerTypes'
  <2>1. Types /\ Goto("finish", {}) /\ changed' = changed
    BY <1>10 DEF NextBatch, IInv
  <2>2. {} \in SUBSET handler.keys /\ handler.keys \subseteq changed
    BY <1>10, <2>1 DEF NextBatch, At, Asks, Types, HandlerTypes
  <2> QED
    BY <2>1, <2>2, GotoTyped, PcNames
<1>11. ASSUME FinishBatch  PROVE HandlerTypes'
  <2>1. handler' = Idle
    BY <1>11 DEF FinishBatch
  <2> QED
    BY <2>1, IdleFacts DEF HandlerTypes
<1>12. ASSUME CommitDelete  PROVE HandlerTypes'
  <2>1. Types /\ changed' = changed
    BY <1>12 DEF CommitDelete, IInv
  <2>2. CASE At("delete")
    <3>1. handler.left \ {tx} \in SUBSET handler.keys /\ handler.keys \subseteq changed
      BY <2>1, <2>2 DEF At, Types, HandlerTypes
    <3> QED
      BY <1>12, <2>1, <2>2, <3>1, GotoTyped, PcNames DEF CommitDelete
  <2> QED
    BY <1>12, <2>1, <2>2 DEF CommitDelete, Types, HandlerTypes
<1>13. ASSUME JoinTasks  PROVE HandlerTypes'
  <2>1. handler' = Idle
    BY <1>13 DEF JoinTasks
  <2> QED
    BY <2>1, IdleFacts DEF HandlerTypes
<1>14. ASSUME BatchResult  PROVE HandlerTypes'
  <2>1. Types /\ changed' = changed
    BY <1>14 DEF BatchResult, IInv
  <2>2. PICK b \in DOMAIN Batches : \E ops : HandleDiffResult(Batches[b], ops)
    BY <1>14, <2>1 DEF BatchResult, Types, LoopTypes
  <2> QED
    BY <2>1, <2>2, DiffTyped
<1>15. ASSUME StrayResult  PROVE HandlerTypes'
  <2>1. Types /\ changed' = changed
    BY <1>15 DEF StrayResult, IInv
  <2>2. PICK b \in DOMAIN Batches : \E ops : HandleDiffResult(Batches[b], ops)
    BY <1>15, <2>1 DEF StrayResult, Types, LoopTypes
  <2> QED
    BY <2>1, <2>2, DiffTyped
<1>16. ASSUME StartMessages \/ SendMessageDiff \/ Phase3BatchFinished \/ FailAttempt \/ Finalize
   \/ BeginDelete \/ CommitWrite \/ DrainWrites \/ ReconcileAfterInterruption \/ PhaseAck \/
   FinalAckDeadline \/ ConnectionEnds \/ LocalTopicDelete \/ UNCHANGED vars  PROVE UNCHANGED
   <<handler, changed>>
  BY <1>16 DEF StartMessages, SendMessageDiff, Phase3BatchFinished, FailAttempt, Finalize,
     BeginDelete, CommitWrite, DrainWrites, ReconcileAfterInterruption, PhaseAck,
     FinalAckDeadline, ConnectionEnds, LocalTopicDelete, vars, tracker, store, final, ending
<1>17. ASSUME UNCHANGED <<handler, changed>>  PROVE HandlerTypes'
  BY <1>17 DEF IInv, Types, HandlerTypes
<1> QED
  BY <1>1, <1>1a, <1>2, <1>3, <1>4, <1>5, <1>6, <1>7, <1>8, <1>9, <1>10, <1>11, <1>12, <1>13, <1>14,
     <1>15, <1>16, <1>17 DEF Next, Loop, Handler, Storage, Teardown, Desktop, Over

\* The store and the tracker.
LEMMA StoreTyped ==
  ASSUME IInv, [Next]_vars
  PROVE  StoreTypes'
<1>1. ASSUME Finalize  PROVE StoreTypes'
  BY <1>1 DEF Finalize, Flush, Repair, RepairFails, tracker, IInv, Types, StoreTypes
<1>2. ASSUME Classify  PROVE StoreTypes'
  BY <1>2 DEF Classify, HandlerFails, MarkCompleted, Announce, Active, LoopTypes, store, final,
     ending, IInv, Types, StoreTypes
<1>2a. ASSUME RejectDecision  PROVE StoreTypes'
  <2>1. completed' \subseteq changed /\ modified' \subseteq changed /\ failed' \subseteq changed
    BY <1>2a, RejectFacts DEF IInv
  <2> QED
    BY <1>2a, <2>1 DEF RejectDecision, store, IInv, Types, StoreTypes
<1>3. ASSUME BeginDelete  PROVE StoreTypes'
  BY <1>3 DEF BeginDelete, At, HandlerTypes, tracker, final, ending, IInv, Types, StoreTypes
<1>4. ASSUME DeleteFails  PROVE StoreTypes'
  BY <1>4 DEF DeleteFails, HandlerFails, Owned, final, ending, IInv, Types, StoreTypes
<1>5. ASSUME PullTopic  PROVE StoreTypes'
  BY <1>5 DEF PullTopic, At, HandlerTypes, tracker, final, ending, IInv, Types, StoreTypes
<1>6. ASSUME PullFails  PROVE StoreTypes'
  BY <1>6 DEF PullFails, HandlerFails, At, Asks, HandlerTypes, store, final, ending, IInv, Types,
     StoreTypes
<1>7. ASSUME PullDrain  PROVE StoreTypes'
  BY <1>7 DEF PullDrain, HandlerFails, Flush, At, Asks, HandlerTypes, final, ending, IInv, Types,
     StoreTypes
<1>8. ASSUME PushTopics  PROVE StoreTypes'
  BY <1>8 DEF PushTopics, At, Asks, HandlerTypes, tracker, store, final, ending, IInv, Types,
     StoreTypes
<1>9. ASSUME PushFails  PROVE StoreTypes'
  BY <1>9 DEF PushFails, HandlerFails, At, Asks, HandlerTypes, store, final, ending, IInv, Types,
     StoreTypes
<1>10. ASSUME CompleteBatch  PROVE StoreTypes'
  BY <1>10 DEF CompleteBatch, MarkCompleted, At, Active, HandlerTypes, store, final, ending, IInv,
     Types, StoreTypes
<1>11. ASSUME CommitWrite  PROVE StoreTypes'
  BY <1>11 DEF CommitWrite, tracker, final, ending, IInv, Types, StoreTypes
<1>12. ASSUME CommitDelete  PROVE StoreTypes'
  BY <1>12 DEF CommitDelete, tracker, final, ending, IInv, Types, StoreTypes
<1>13. ASSUME DrainWrites  PROVE StoreTypes'
  BY <1>13 DEF DrainWrites, Flush, tracker, final, IInv, Types, StoreTypes
<1>14. ASSUME ReconcileAfterInterruption  PROVE StoreTypes'
  BY <1>14 DEF ReconcileAfterInterruption, Repair, RepairFails, tracker, final, IInv, Types,
     StoreTypes
<1>15. ASSUME PhaseAck  PROVE StoreTypes'
  BY <1>15 DEF PhaseAck, Flush, tracker, IInv, Types, StoreTypes
<1>16. ASSUME LocalTopicDelete  PROVE StoreTypes'
  BY <1>16 DEF LocalTopicDelete, LoopTypes, tracker, final, ending, IInv, Types, StoreTypes
<1>17. ASSUME StartMessages \/ SendMessageDiff \/ Phase3BatchFinished \/ FailAttempt \/
   DeletesDone \/ NextBatch \/ FinishBatch \/ JoinTasks \/ BatchResult \/ StrayResult \/
   FinalAckDeadline \/ ConnectionEnds \/ UNCHANGED vars  PROVE UNCHANGED <<changed, completed,
   modified, failed, queued, writeError, tx, stale, gone, lost, pushed>>
  BY <1>17 DEF StartMessages, SendMessageDiff, Phase3BatchFinished, FailAttempt, DeletesDone,
     NextBatch, FinishBatch, JoinTasks, BatchResult, StrayResult, FinalAckDeadline,
     ConnectionEnds, vars, tracker, store, final, ending
<1>18. ASSUME UNCHANGED <<changed, completed, modified, failed, queued, writeError, tx, stale,
   gone, lost, pushed>>  PROVE StoreTypes'
  BY <1>18 DEF IInv, Types, StoreTypes
<1> QED
  BY <1>1, <1>2, <1>2a, <1>3, <1>4, <1>5, <1>6, <1>7, <1>8, <1>9, <1>10, <1>11, <1>12, <1>13, <1>14,
     <1>15, <1>16, <1>17, <1>18 DEF Next, Loop, Handler, Storage, Teardown, Desktop, Over

\* The end of the attempt.
LEMMA EndTyped ==
  ASSUME IInv, [Next]_vars
  PROVE  EndTypes'
<1>1. ASSUME FailAttempt  PROVE EndTypes'
  BY <1>1 DEF FailAttempt, Leave, tracker, store, final, IInv, Types, EndTypes
<1>2. ASSUME Finalize  PROVE EndTypes'
  BY <1>2 DEF Finalize, Leave, tracker, IInv, Types, EndTypes
<1>3. ASSUME JoinTasks  PROVE EndTypes'
  BY <1>3 DEF JoinTasks, tracker, store, final, IInv, Types, EndTypes
<1>4. ASSUME DrainWrites  PROVE EndTypes'
  BY <1>4 DEF DrainWrites, tracker, final, IInv, Types, EndTypes
<1>5. ASSUME ReconcileAfterInterruption  PROVE EndTypes'
  BY <1>5 DEF ReconcileAfterInterruption, tracker, final, IInv, Types, EndTypes
<1>6. ASSUME BatchResult  PROVE EndTypes'
  BY <1>6 DEF BatchResult, HandleDiffResult, Leave, tracker, store, final, ending, IInv, Types,
     EndTypes
<1>7. ASSUME PhaseAck  PROVE EndTypes'
  BY <1>7 DEF PhaseAck, Leave, tracker, IInv, Types, EndTypes
<1>8. ASSUME StrayResult  PROVE EndTypes'
  <2>1. stray' \in 0 .. MaxStray
    BY <1>8, BatchesAssumption DEF StrayResult, IInv, Types, EndTypes
  <2>2. UNCHANGED <<outcome, stage, overlap>> \/ (Leave("fatal") /\ overlap' = TRUE)
    BY <1>8 DEF StrayResult, HandleDiffResult, ending
  <2>3. UNCHANGED <<finalized, awaiting, announced, watchdog>>
    BY <1>8 DEF StrayResult, final
  <2> QED
    BY <2>1, <2>2, <2>3 DEF IInv, Types, EndTypes, Leave
<1>9. ASSUME FinalAckDeadline  PROVE EndTypes'
  BY <1>9 DEF FinalAckDeadline, tracker, store, ending, IInv, Types, EndTypes
<1>10. ASSUME ConnectionEnds  PROVE EndTypes'
  BY <1>10 DEF ConnectionEnds, Leave, tracker, store, final, IInv, Types, EndTypes
<1>11. ASSUME StartMessages \/ SendMessageDiff \/ Phase3BatchFinished \/ Classify \/
   RejectDecision \/ BeginDelete \/ DeleteFails \/ DeletesDone \/ PullTopic \/ PullFails \/
   PullDrain \/ PushTopics \/ PushFails \/ CompleteBatch \/ NextBatch \/ FinishBatch \/
   CommitWrite \/ CommitDelete \/ LocalTopicDelete \/ UNCHANGED vars  PROVE UNCHANGED <<finalized,
   awaiting, watchdog, announced, stray, outcome, stage, overlap>>
  BY <1>11 DEF StartMessages, SendMessageDiff, Phase3BatchFinished, Classify, RejectDecision,
     BeginDelete, DeleteFails, DeletesDone, PullTopic, PullFails, PullDrain, PushTopics, PushFails,
     CompleteBatch, NextBatch, FinishBatch, CommitWrite, CommitDelete, LocalTopicDelete, vars,
     tracker, store, final, ending
<1>12. ASSUME UNCHANGED <<finalized, awaiting, watchdog, announced, stray, outcome, stage,
   overlap>>  PROVE EndTypes'
  BY <1>12 DEF IInv, Types, EndTypes
<1> QED
  BY <1>1, <1>2, <1>3, <1>4, <1>5, <1>6, <1>7, <1>8, <1>9, <1>10, <1>11, <1>12 DEF Next, Loop,
     Handler, Storage, Teardown, Desktop, Over

\* Every step keeps the types.
LEMMA TypesKept ==
  ASSUME IInv, [Next]_vars
  PROVE  Types'
  BY LoopTyped, HandlerTyped, StoreTyped, EndTyped DEF Types

-----------------------------------------------------------------------------
(* What each step does to the channel and to the handler.                  *)

\* A step that queues no request and no word of a finished batch.
Quiet ==
  /\ Diffs' = Diffs
  /\ \A k \in {"StartMessages", "BatchFinished", "SendDiff"} :
       (In(k)' <=> In(k)) /\ (Once(rx, k) => Once(rx', k))

\* A step that takes a command.
Fewer ==
  /\ Diffs' \subseteq Diffs
  /\ \A k \in {"StartMessages", "BatchFinished", "SendDiff", "Finalize"} :
       (In(k)' => In(k)) /\ (Once(rx, k) => Once(rx', k))

\* A channel that stays as it is says nothing new.
LEMMA StillQuiet ==
  ASSUME rx' = rx
  PROVE  Quiet
  BY DEF Quiet, Diffs, In

\* A failure says nothing of a request or of a finished batch.
LEMMA FailsQuiet ==
  ASSUME Types, NEW T \in SUBSET changed, NEW C \in SUBSET {"FailFatal", "FailRestart"},
         HandlerFails(T, C)
  PROVE  /\ Quiet /\ (In("Finalize")' <=> In("Finalize"))
         /\ failed' = failed \cup T /\ handler' = Idle /\ handler'.pc = "idle"
  BY FailsFacts DEF Quiet

\* Nor does a completed topic.
LEMMA MarkQuiet ==
  ASSUME Types, NEW T \in SUBSET changed, MarkCompleted(T)
  PROVE  /\ Quiet /\ (In("Finalize")' => In("Finalize") \/ completed' = changed)
         /\ completed' = completed \cup T
  BY MarkFacts DEF Quiet

\* A handler that fails in its work fails for one of the topics of its batch.
LEMMA Fails ==
  ASSUME IInv, DeleteFails \/ PullFails \/ PushFails
  PROVE  /\ Quiet /\ (In("Finalize")' <=> In("Finalize"))
         /\ handler' = Idle /\ handler'.pc = "idle"
         /\ \E t \in changed : failed' = failed \cup {t}
         /\ stage \in {"loop", "join"} /\ handler.pc \in {"delete", "pull", "push"}
<1>1. Types
  BY DEF IInv
<1>2. ASSUME NEW t \in changed, NEW C \in SUBSET {"FailFatal", "FailRestart"}, HandlerFails({t}, C)
      PROVE  /\ Quiet /\ (In("Finalize")' <=> In("Finalize"))
             /\ handler' = Idle /\ handler'.pc = "idle" /\ failed' = failed \cup {t}
  <2>1. {t} \in SUBSET changed
    BY <1>2
  <2> QED
    BY <1>1, <1>2, <2>1, FailsQuiet
<1>3. stage \in {"loop", "join"} /\ handler.pc \in {"delete", "pull", "push"}
  BY DEF DeleteFails, PullFails, PushFails, At
<1>4. \A op : Asks(op) \subseteq changed
  BY <1>1, <1>3 DEF Asks, Types, HandlerTypes
<1>5. CASE DeleteFails
  <2>1. tx \in changed /\ HandlerFails({tx}, {"FailFatal"})
    BY <1>1, <1>5 DEF DeleteFails, IInv, Owned, Types, StoreTypes
  <2> QED
    BY <1>2, <1>3, <2>1
<1>6. CASE PullFails
  <2>1. PICK t \in Asks("pull") : HandlerFails({t}, {"FailFatal", "FailRestart"})
    BY <1>6 DEF PullFails
  <2> QED
    BY <1>2, <1>3, <1>4, <2>1
<1>7. CASE PushFails
  <2>1. PICK t \in Asks("push") : HandlerFails({t}, {"FailFatal", "FailRestart"})
    BY <1>7 DEF PushFails
  <2> QED
    BY <1>2, <1>3, <1>4, <2>1
<1> QED
  BY <1>5, <1>6, <1>7

\* The answer is sorted out, or refused.
LEMMA Sorts ==
  ASSUME IInv, Classify
  PROVE  /\ Quiet /\ handler.pc = "classify" /\ stage \in {"loop", "join"}
         /\ In("Finalize")' => In("Finalize") \/ completed' = changed
         /\ \/ /\ handler.keys = expected /\ modified' = modified \cup expected
               /\ completed' = completed \cup (handler.keys \ Active) /\ failed' = failed
               /\ handler'.keys = handler.keys /\ handler'.ops = handler.ops
               /\ Active' = Active /\ \A op : Asks(op)' = Asks(op)
               /\ \/ Active = {} /\ handler'.pc = "next"
                  \/ Active # {} /\ handler'.pc = "delete" /\ handler'.left = Asks("delete")
            \/ /\ handler.keys # expected /\ handler' = Idle /\ handler'.pc = "idle"
               /\ UNCHANGED <<completed, modified, failed>>
<1>1. Types
  BY DEF IInv
<1>2. handler.pc = "classify" /\ stage \in {"loop", "join"}
  BY DEF Classify, At
<1>3. CASE handler.keys = expected
  <2>1. /\ modified' = modified \cup expected /\ failed' = failed
        /\ MarkCompleted(handler.keys \ Active)
    BY <1>3 DEF Classify
  <2>2. handler.keys \ Active \in SUBSET changed
    BY <1>1, <1>3 DEF Types, LoopTypes
  <2>3. /\ Quiet /\ (In("Finalize")' => In("Finalize") \/ completed' = changed)
        /\ completed' = completed \cup (handler.keys \ Active)
    BY <1>1, <2>1, <2>2, MarkQuiet
  <2>4. Asks("delete") \in SUBSET Topics /\ {} \in SUBSET Topics
    BY <1>1 DEF Asks, Types, HandlerTypes
  <2>5. CASE Active = {} /\ Goto("next", {})
    <3>1. /\ handler'.keys = handler.keys /\ handler'.ops = handler.ops /\ handler'.pc = "next"
          /\ Active' = Active /\ \A op : Asks(op)' = Asks(op)
      BY <1>1, <2>4, <2>5, GotoFacts, PcNames
    <3> QED
      BY <1>2, <1>3, <2>1, <2>3, <2>5, <3>1
  <2>6. CASE Active # {} /\ Goto("delete", Asks("delete"))
    <3>1. /\ handler'.keys = handler.keys /\ handler'.ops = handler.ops
          /\ handler'.pc = "delete" /\ handler'.left = Asks("delete")
          /\ Active' = Active /\ \A op : Asks(op)' = Asks(op)
      BY <1>1, <2>4, <2>6, GotoFacts, PcNames
    <3> QED
      BY <1>2, <1>3, <2>1, <2>3, <2>6, <3>1
  <2> QED
    BY <1>3, <2>5, <2>6 DEF Classify
<1>4. CASE handler.keys # expected
  <2>1. HandlerFails({}, {"FailFatal"}) /\ UNCHANGED <<completed, modified>>
    BY <1>4 DEF Classify
  <2>2. /\ Quiet /\ (In("Finalize")' <=> In("Finalize"))
        /\ failed' = failed \cup {} /\ handler' = Idle /\ handler'.pc = "idle"
    BY <1>1, <2>1, FailsQuiet
  <2> QED
    BY <1>2, <1>4, <2>1, <2>2
<1> QED
  BY <1>3, <1>4

\* Or one of its decisions cannot be followed.
LEMMA Rejects ==
  ASSUME IInv, RejectDecision
  PROVE  /\ Quiet /\ handler.pc = "classify" /\ stage \in {"loop", "join"}
         /\ In("Finalize")' => In("Finalize") \/ completed' = changed
         /\ handler.keys = expected /\ handler' = Idle /\ handler'.pc = "idle"
         /\ modified \subseteq modified'
         /\ completed \subseteq completed' /\ completed' \subseteq completed \cup expected
         /\ completed' \subseteq changed
         /\ \E t \in expected : t \in completed' => t \in completed
<1>1. Types
  BY DEF IInv
<1>2. Diffs' = Diffs /\ \A k : k \notin {"Finalize", "FailFatal", "FailRestart"} =>
         (In(k)' <=> In(k)) /\ (Once(rx, k) => Once(rx', k))
  BY <1>1, RejectFacts
<1>3. Quiet
  BY <1>2 DEF Quiet
<1> QED
  BY <1>1, <1>3, RejectFacts

\* The pulls are committed, or one of their writes failed.
LEMMA Drains ==
  ASSUME IInv, PullDrain
  PROVE  /\ Quiet /\ (In("Finalize")' <=> In("Finalize"))
         /\ handler.pc = "pull" /\ handler.left = {} /\ stage \in {"loop", "join"}
         /\ \/ /\ ~writeError /\ failed' = failed
               /\ handler'.keys = handler.keys /\ handler'.ops = handler.ops
               /\ Active' = Active /\ (\A op : Asks(op)' = Asks(op)) /\ handler'.pc = "push"
            \/ /\ writeError /\ handler' = Idle /\ handler'.pc = "idle"
               /\ failed' = failed \cup Asks("pull")
<1>1. Types
  BY DEF IInv
<1>2. handler.pc = "pull" /\ handler.left = {} /\ stage \in {"loop", "join"}
  BY DEF PullDrain, At
<1>3. CASE ~writeError /\ Goto("push", {}) /\ UNCHANGED <<failed, rx>>
  <2>1. Quiet /\ (In("Finalize")' <=> In("Finalize"))
    BY <1>3, StillQuiet DEF In
  <2>2. /\ handler'.keys = handler.keys /\ handler'.ops = handler.ops /\ handler'.pc = "push"
        /\ Active' = Active /\ \A op : Asks(op)' = Asks(op)
    BY <1>1, <1>3, GotoFacts, PcNames
  <2> QED
    BY <1>2, <1>3, <2>1, <2>2
<1>4. CASE writeError /\ HandlerFails(Asks("pull"), {"FailFatal"})
  <2>1. Asks("pull") \in SUBSET changed
    BY <1>1, <1>2 DEF Asks, Types, HandlerTypes
  <2>2. /\ Quiet /\ (In("Finalize")' <=> In("Finalize"))
        /\ failed' = failed \cup Asks("pull") /\ handler' = Idle /\ handler'.pc = "idle"
    BY <1>1, <1>4, <2>1, FailsQuiet
  <2> QED
    BY <1>2, <1>4, <2>2
<1> QED
  BY <1>3, <1>4 DEF PullDrain

\* The topics of the batch are complete.
LEMMA Completes ==
  ASSUME IInv, CompleteBatch
  PROVE  /\ Quiet /\ handler.pc = "complete" /\ stage \in {"loop", "join"}
         /\ In("Finalize")' => In("Finalize") \/ completed' = changed
         /\ completed' = completed \cup Active /\ completed' \subseteq changed
         /\ handler'.keys = handler.keys /\ handler'.ops = handler.ops /\ handler'.pc = "next"
<1>1. Types /\ handler.pc = "complete" /\ stage \in {"loop", "join"}
  BY DEF IInv, CompleteBatch, At
<1>2. Active \in SUBSET changed /\ MarkCompleted(Active) /\ Goto("next", {})
  BY <1>1 DEF CompleteBatch, Active, Types, HandlerTypes
<1>3. /\ Quiet /\ (In("Finalize")' => In("Finalize") \/ completed' = changed)
      /\ completed' = completed \cup Active
  BY <1>1, <1>2, MarkQuiet
<1>4. completed' \subseteq changed
  BY <1>1, <1>2, <1>3 DEF Types, StoreTypes
<1>5. handler'.keys = handler.keys /\ handler'.ops = handler.ops /\ handler'.pc = "next"
  BY <1>1, <1>2, GotoFacts, PcNames
<1> QED
  BY <1>1, <1>3, <1>4, <1>5

\* The watchdog gives up.
LEMMA GivesUp ==
  ASSUME IInv, FinalAckDeadline
  PROVE  Quiet /\ (In("Finalize")' <=> In("Finalize"))
<1>1. Types
  BY DEF IInv
<1>2. CASE rx' = rx
  BY <1>2, StillQuiet DEF In
<1>3. CASE rx' = Append(rx, Cmd("FailFatal"))
  BY <1>1, <1>3, CmdAppend DEF Quiet
<1> QED
  BY <1>2, <1>3 DEF FinalAckDeadline

\* The next batch is asked for.
LEMMA AsksNext ==
  ASSUME IInv, NextBatch
  PROVE  /\ handler.pc = "next" /\ handler'.pc = "finish" /\ stage \in {"loop", "join"}
         /\ handler'.keys = handler.keys
         /\ \A k : k # "SendDiff" => (In(k)' <=> In(k)) /\ (Once(rx, k) => Once(rx', k))
         /\ \/ Quiet /\ UNCHANGED <<rx, todo, expected>>
            \/ /\ todo # <<>> /\ Head(todo) \in DOMAIN Batches
               /\ expected' = Batches[Head(todo)] /\ todo' = Tail(todo)
               /\ Diffs' = Diffs \cup {[cmd |-> "SendDiff", batch |-> Head(todo)]}
               /\ Once(rx, "SendDiff") /\ Diffs = {} => Once(rx', "SendDiff")
<1>1. Types /\ handler.pc = "next" /\ stage \in {"loop", "join"} /\ Goto("finish", {})
  BY DEF IInv, NextBatch, At
<1>2. handler'.keys = handler.keys /\ handler'.pc = "finish"
  BY <1>1, GotoFacts, PcNames
<1>3. CASE UNCHANGED <<rx, todo, expected>>
  BY <1>1, <1>2, <1>3, StillQuiet DEF In
<1>4. CASE /\ todo # <<>> /\ expected' = Batches[Head(todo)] /\ todo' = Tail(todo)
           /\ rx' = Append(rx, [cmd |-> "SendDiff", batch |-> Head(todo)])
  <2>1. Head(todo) \in DOMAIN Batches
    BY <1>1, <1>4 DEF Types, LoopTypes
  <2>2. /\ Diffs' = Diffs \cup {[cmd |-> "SendDiff", batch |-> Head(todo)]}
        /\ \A k : In(k)' <=> In(k) \/ k = "SendDiff"
        /\ \A k : Once(rx, k) /\ (k = "SendDiff" => Diffs = {}) => Once(rx', k)
    BY <1>1, <1>4, <2>1, DiffAppend
  <2> QED
    BY <1>1, <1>2, <1>4, <2>1, <2>2
<1> QED
  BY <1>3, <1>4 DEF NextBatch

\* The handler is done with its batch.
LEMMA Finishes ==
  ASSUME IInv, FinishBatch
  PROVE  /\ handler.pc = "finish" /\ handler'.pc = "idle" /\ handler' = Idle
         /\ stage \in {"loop", "join"} /\ Diffs' = Diffs
         /\ \A k : In(k)' <=> In(k) \/ k = "BatchFinished"
         /\ \A k : Once(rx, k) /\ (k = "BatchFinished" => ~In(k)) => Once(rx', k)
<1>1. Types /\ rx' = Append(rx, Cmd("BatchFinished")) /\ handler' = Idle
  BY DEF IInv, FinishBatch
<1>2. /\ Diffs' = Diffs /\ (\A k : In(k)' <=> In(k) \/ k = "BatchFinished")
      /\ \A k : Once(rx, k) /\ (k = "BatchFinished" => ~In(k)) => Once(rx', k)
  BY <1>1, CmdAppend
<1> QED
  BY <1>1, <1>2, IdleFacts DEF FinishBatch, At

\* The loop takes a command and queues none.
LEMMA Takes ==
  ASSUME IInv, NEW c, Receive(c), rx' = Tail(rx)
  PROVE  /\ Fewer /\ In(c) /\ stage = "loop"
         /\ Head(rx) \in Box(rx) /\ Head(rx).cmd = c
         /\ Once(rx, c) => ~In(c)'
         /\ Len(rx) = 1 => \A k : ~In(k)'
<1>1. Types
  BY DEF IInv
<1>2. Len(rx) = 1 => Box(rx') = {}
  BY <1>1, Taken
<1>3. Len(rx) = 1 => \A k : ~In(k)'
  BY <1>2 DEF In
<1> QED
  BY <1>1, <1>3, Taken DEF Fewer, Receive

\* The comparison of the messages starts, or there is nothing to compare.
LEMMA Starts ==
  ASSUME IInv, StartMessages
  PROVE  /\ In("StartMessages") /\ stage = "loop" /\ Diffs' \subseteq Diffs
         /\ Len(rx) = 1 => ~In("StartMessages")' /\ Diffs' = {}
         /\ \A k \in {"BatchFinished", "SendDiff"} :
              (In(k)' => In(k)) /\ (Once(rx, k) => Once(rx', k))
         /\ In("Finalize")' => In("Finalize") \/ changed = {}
<1>1. Types /\ rx \in Seq(Command) /\ rx # <<>> /\ Head(rx).cmd = "StartMessages" /\ stage = "loop"
  BY DEF IInv, StartMessages, Receive, Types, LoopTypes, RxOK
<1>2. Tail(rx) \in Seq(Command) /\ Box(rx) = Box(Tail(rx)) \cup {Head(rx)}
  BY <1>1, BoxTail
<1>3. \A k : Once(rx, k) => Once(Tail(rx), k)
  BY <1>1, BoxTail
<1>4. Len(rx) = 1 => Box(Tail(rx)) = {}
  <2> DEFINE t == Tail(rx)
  <2>1. Len(t) = Len(rx) - 1
    BY <1>1, BoxTail
  <2> HIDE DEF t
  <2>2. Len(rx) = 1 => 1 .. Len(t) = {}
    BY <2>1
  <2>3. Len(rx) = 1 => Box(t) = {}
    BY <2>2 DEF Box
  <2> QED
    BY <2>3 DEF t
<1>5. In("StartMessages")
  BY <1>1, <1>2 DEF In
<1>6. CASE rx' = Tail(rx)
  <2>1. /\ Diffs' \subseteq Diffs /\ (\A k : In(k)' => In(k))
        /\ Len(rx) = 1 => ~In("StartMessages")' /\ Diffs' = {}
    BY <1>2, <1>4, <1>6 DEF In, Diffs
  <2> QED
    BY <1>1, <1>3, <1>5, <1>6, <2>1
<1>7. ASSUME NEW c \in {"Finalize", "FailFatal"}, rx' = Append(Tail(rx), Cmd(c))
      PROVE  /\ Diffs' \subseteq Diffs
             /\ Len(rx) = 1 => ~In("StartMessages")' /\ Diffs' = {}
             /\ \A k \in {"BatchFinished", "SendDiff"} :
                  (In(k)' => In(k)) /\ (Once(rx, k) => Once(rx', k))
             /\ In("Finalize")' => In("Finalize") \/ c = "Finalize"
  <2>1. Cmd(c) \in Command /\ Cmd(c).cmd = c
    BY CmdTyped
  <2>2. Box(rx') = Box(Tail(rx)) \cup {Cmd(c)}
    BY <1>2, <1>7, <2>1, BoxAppend
  <2>3. \A k \in {"BatchFinished", "SendDiff"} : Once(rx, k) => Once(rx', k)
    BY <1>2, <1>3, <1>7, <2>1, BoxAppend
  <2>4. /\ Diffs' \subseteq Diffs
        /\ Len(rx) = 1 => ~In("StartMessages")' /\ Diffs' = {}
        /\ \A k \in {"BatchFinished", "SendDiff"} : In(k)' => In(k)
        /\ In("Finalize")' => In("Finalize") \/ c = "Finalize"
    BY <1>2, <1>4, <2>1, <2>2 DEF In, Diffs
  <2> QED
    BY <2>3, <2>4
<1> QED
  BY <1>1, <1>5, <1>6, <1>7 DEF StartMessages

-----------------------------------------------------------------------------
(* The parts of the invariant that hold whatever the desktop sends.        *)

\* What is in flight.
LEMMA FlightKept ==
  ASSUME IInv, [Next]_vars
  PROVE  Flight'
<1>1. ASSUME StartMessages  PROVE Flight'
  <2>1. UNCHANGED <<inflight, handler, stage>>
    BY <1>1 DEF StartMessages, tracker, store, final, ending
  <2> QED
    BY <1>1, <2>1, Starts DEF IInv, Flight, Types, LoopTypes, EndTypes
<1>2. ASSUME SendMessageDiff  PROVE Flight'
  <2>1. Receive("SendDiff") /\ rx' = Tail(rx)
    BY <1>2 DEF SendMessageDiff
  <2>2. Fewer /\ In("SendDiff") /\ stage = "loop" /\ (Once(rx, "SendDiff") => ~In("SendDiff")')
    BY <2>1, Takes
  <2>3. UNCHANGED <<inflight, handler, stage>>
    BY <1>2 DEF SendMessageDiff, tracker, store, final, ending
  <2> QED
    BY <1>2, <2>2, <2>3 DEF SendMessageDiff, Leave, Fewer, IInv, Flight, Types, LoopTypes, EndTypes
<1>3. ASSUME Phase3BatchFinished  PROVE Flight'
  <2>1. Receive("BatchFinished") /\ rx' = Tail(rx)
    BY <1>3 DEF Phase3BatchFinished
  <2>2. /\ Fewer
        /\ In("BatchFinished")
        /\ stage = "loop"
        /\ (Once(rx, "BatchFinished") => ~In("BatchFinished")')
    BY <2>1, Takes
  <2>3. UNCHANGED <<handler, stage>>
    BY <1>3 DEF Phase3BatchFinished, tracker, store, final, ending
  <2> QED
    BY <1>3, <2>2, <2>3 DEF Phase3BatchFinished, Leave, Fewer, IInv, Flight, Types, LoopTypes,
       EndTypes
<1>4. ASSUME FailAttempt  PROVE Flight'
  <2>1. rx' = Tail(rx) /\ Leave(IF Receive("FailFatal") THEN "fatal" ELSE "restart")
    BY <1>4 DEF FailAttempt, Receive, Leave
  <2>2. Fewer /\ stage = "loop"
    BY <1>4, <2>1, Takes DEF FailAttempt
  <2>3. UNCHANGED <<inflight, handler>>
    BY <1>4 DEF FailAttempt, tracker, store, final
  <2> QED
    BY <1>4, <2>1, <2>2, <2>3 DEF Leave, Fewer, IInv, Flight, Types, LoopTypes, EndTypes
<1>5. ASSUME Finalize  PROVE Flight'
  <2>1. Receive("Finalize") /\ rx' = Tail(rx)
    BY <1>5 DEF Finalize
  <2>2. Fewer /\ In("Finalize") /\ stage = "loop" /\ (Once(rx, "Finalize") => ~In("Finalize")')
    BY <2>1, Takes
  <2>3. UNCHANGED <<inflight, handler>>
    BY <1>5 DEF Finalize, tracker
  <2> QED
    BY <1>5, <2>2, <2>3 DEF Finalize, Leave, Fewer, IInv, Flight, Types, LoopTypes, EndTypes
<1>6. ASSUME Classify  PROVE Flight'
  <2>1. UNCHANGED <<inflight, stage>>
    BY <1>6 DEF Classify, store, final, ending
  <2> QED
    BY <1>6, <2>1, Sorts DEF Quiet, IInv, Flight, Types, LoopTypes, EndTypes
<1>6a. ASSUME RejectDecision  PROVE Flight'
  <2>1. UNCHANGED <<inflight, stage>>
    BY <1>6a DEF RejectDecision, ending
  <2> QED
    BY <1>6a, <2>1, Rejects DEF Quiet, IInv, Flight, Types, LoopTypes, EndTypes
<1>7. ASSUME DeleteFails  PROVE Flight'
  <2>1. UNCHANGED <<inflight, stage>>
    BY <1>7 DEF DeleteFails, final, ending
  <2> QED
    BY <1>7, <2>1, Fails DEF Quiet, IInv, Flight, Types, LoopTypes, EndTypes
<1>8. ASSUME DeletesDone  PROVE Flight'
  BY <1>8 DEF DeletesDone, At, Goto, HandlerTypes, tracker, store, final, ending, IInv, Flight,
     In, Types, EndTypes
<1>9. ASSUME PullTopic  PROVE Flight'
  BY <1>9 DEF PullTopic, At, Goto, HandlerTypes, tracker, final, ending, IInv, Flight, In, Types,
     EndTypes
<1>10. ASSUME PullFails  PROVE Flight'
  <2>1. UNCHANGED <<inflight, stage>>
    BY <1>10 DEF PullFails, store, final, ending
  <2> QED
    BY <1>10, <2>1, Fails DEF Quiet, IInv, Flight, Types, LoopTypes, EndTypes
<1>11. ASSUME PullDrain  PROVE Flight'
  <2>1. UNCHANGED <<inflight, stage>>
    BY <1>11 DEF PullDrain, final, ending
  <2> QED
    BY <1>11, <2>1, Drains DEF Quiet, IInv, Flight, Types, LoopTypes, EndTypes
<1>12. ASSUME PushTopics  PROVE Flight'
  BY <1>12 DEF PushTopics, At, Goto, HandlerTypes, tracker, store, final, ending, IInv, Flight,
     In, Types, EndTypes
<1>13. ASSUME PushFails  PROVE Flight'
  <2>1. UNCHANGED <<inflight, stage>>
    BY <1>13 DEF PushFails, store, final, ending
  <2> QED
    BY <1>13, <2>1, Fails DEF Quiet, IInv, Flight, Types, LoopTypes, EndTypes
<1>14. ASSUME CompleteBatch  PROVE Flight'
  <2>1. UNCHANGED <<inflight, stage>>
    BY <1>14 DEF CompleteBatch, store, final, ending
  <2> QED
    BY <1>14, <2>1, Completes DEF Quiet, IInv, Flight, Types, LoopTypes, EndTypes
<1>15. ASSUME NextBatch  PROVE Flight'
  <2>1. UNCHANGED <<inflight, stage>>
    BY <1>15 DEF NextBatch, tracker, store, final, ending
  <2> QED
    BY <1>15, <2>1, AsksNext DEF Quiet, IInv, Flight, Types, LoopTypes, EndTypes
<1>16. ASSUME FinishBatch  PROVE Flight'
  <2>1. UNCHANGED <<inflight, stage>>
    BY <1>16 DEF FinishBatch, tracker, store, final, ending
  <2> QED
    BY <1>16, <2>1, Finishes DEF IInv, Flight, Types, LoopTypes, EndTypes
<1>17. ASSUME CommitDelete  PROVE Flight'
  BY <1>17 DEF CommitDelete, At, Goto, HandlerTypes, tracker, final, ending, IInv, Flight, In,
     Types, EndTypes
<1>18. ASSUME JoinTasks  PROVE Flight'
  BY <1>18, IdleFacts DEF JoinTasks, tracker, store, final, IInv, Flight, In, Types, EndTypes
<1>19. ASSUME DrainWrites  PROVE Flight'
  BY <1>19 DEF DrainWrites, tracker, final, IInv, Flight, In, Types, EndTypes
<1>20. ASSUME ReconcileAfterInterruption  PROVE Flight'
  BY <1>20 DEF ReconcileAfterInterruption, tracker, final, IInv, Flight, In, Types, EndTypes
<1>21. ASSUME BatchResult  PROVE Flight'
  BY <1>21 DEF BatchResult, HandleDiffResult, Leave, ReadFrame, In, Box, tracker, store, final,
     ending, IInv, Flight, Types, EndTypes
<1>22. ASSUME PhaseAck  PROVE Flight'
  BY <1>22 DEF PhaseAck, Leave, ReadFrame, tracker, IInv, Flight, In, Types, EndTypes
<1>23. ASSUME StrayResult  PROVE Flight'
  BY <1>23 DEF StrayResult, HandleDiffResult, Leave, ReadFrame, In, Box, tracker, store, final,
     ending, IInv, Flight, Types, EndTypes
<1>24. ASSUME FinalAckDeadline  PROVE Flight'
  <2>1. UNCHANGED <<inflight, handler, stage>>
    BY <1>24 DEF FinalAckDeadline, tracker, store, ending
  <2> QED
    BY <1>24, <2>1, GivesUp DEF Quiet, IInv, Flight, Types, LoopTypes, EndTypes
<1>25. ASSUME ConnectionEnds  PROVE Flight'
  BY <1>25 DEF ConnectionEnds, Leave, ReadFrame, tracker, store, final, IInv, Flight, In, Types,
     EndTypes
<1>26. ASSUME BeginDelete \/ CommitWrite \/ LocalTopicDelete \/ UNCHANGED vars  PROVE UNCHANGED
   <<rx, inflight, handler, stage>>
  BY <1>26 DEF BeginDelete, CommitWrite, LocalTopicDelete, vars, tracker, final, ending
<1>27. ASSUME UNCHANGED <<rx, inflight, handler, stage>>  PROVE Flight'
  BY <1>27 DEF IInv, Flight, In, Types, EndTypes
<1> QED
  BY <1>1, <1>2, <1>3, <1>4, <1>5, <1>6, <1>6a, <1>7, <1>8, <1>9, <1>10, <1>11, <1>12, <1>13, <1>14,
     <1>15, <1>16, <1>17, <1>18, <1>19, <1>20, <1>21, <1>22, <1>23, <1>24, <1>25, <1>26, <1>27 DEF
     Next, Loop, Handler, Storage, Teardown, Desktop, Over

\* Whose writes they are.
LEMMA OwnedKept ==
  ASSUME IInv, [Next]_vars
  PROVE  Owned'
<1>1. ASSUME Finalize  PROVE Owned'
  BY <1>1 DEF Finalize, Repair, RepairFails, tracker, IInv, Owned, Types, StoreTypes, HandlerTypes
<1>2. ASSUME Classify  PROVE Owned'
  <2>1. UNCHANGED <<queued, tx, stale>>
    BY <1>2 DEF Classify, store, final, ending
  <2> QED
    BY <1>2, <2>1, Sorts DEF IInv, Owned, Types, StoreTypes, HandlerTypes
<1>2a. ASSUME RejectDecision  PROVE Owned'
  <2>1. UNCHANGED <<queued, tx, stale>>
    BY <1>2a DEF RejectDecision, store
  <2> QED
    BY <1>2a, <2>1, Rejects DEF IInv, Owned
<1>3. ASSUME BeginDelete  PROVE Owned'
  BY <1>3 DEF BeginDelete, At, tracker, final, ending, IInv, Owned, Types, StoreTypes,
     HandlerTypes
<1>4. ASSUME DeleteFails  PROVE Owned'
  BY <1>4, Fails DEF DeleteFails, final, ending, IInv, Owned, Types, StoreTypes, HandlerTypes
<1>5. ASSUME DeletesDone  PROVE Owned'
  BY <1>5 DEF DeletesDone, At, Goto, tracker, store, final, ending, IInv, Owned, Types,
     StoreTypes, HandlerTypes
<1>6. ASSUME PullTopic  PROVE Owned'
  BY <1>6 DEF PullTopic, At, Goto, tracker, final, ending, IInv, Owned, Types, StoreTypes,
     HandlerTypes
<1>7. ASSUME PullFails  PROVE Owned'
  <2>1. UNCHANGED <<modified, queued, tx, stale>>
    BY <1>7 DEF PullFails, store, final, ending
  <2> QED
    BY <1>7, <2>1, Fails DEF IInv, Owned, Types, StoreTypes, HandlerTypes
<1>8. ASSUME PullDrain  PROVE Owned'
  <2>1. UNCHANGED <<modified, queued, tx, stale>>
    BY <1>8 DEF PullDrain, final, ending
  <2> QED
    BY <1>8, <2>1, Drains DEF IInv, Owned, Types, StoreTypes, HandlerTypes
<1>9. ASSUME PushTopics  PROVE Owned'
  BY <1>9 DEF PushTopics, At, Goto, tracker, store, final, ending, IInv, Owned, Types, StoreTypes,
     HandlerTypes
<1>10. ASSUME PushFails  PROVE Owned'
  <2>1. UNCHANGED <<modified, queued, tx, stale>>
    BY <1>10 DEF PushFails, store, final, ending
  <2> QED
    BY <1>10, <2>1, Fails DEF IInv, Owned, Types, StoreTypes, HandlerTypes
<1>11. ASSUME CompleteBatch  PROVE Owned'
  <2>1. UNCHANGED <<modified, queued, tx, stale>>
    BY <1>11 DEF CompleteBatch, store, final, ending
  <2> QED
    BY <1>11, <2>1, Completes DEF IInv, Owned, Types, StoreTypes, HandlerTypes
<1>12. ASSUME NextBatch  PROVE Owned'
  <2>1. UNCHANGED <<modified, queued, tx, stale>>
    BY <1>12 DEF NextBatch, tracker, store, final, ending
  <2> QED
    BY <1>12, <2>1, AsksNext DEF IInv, Owned, Types, StoreTypes, HandlerTypes
<1>13. ASSUME FinishBatch  PROVE Owned'
  <2>1. UNCHANGED <<modified, queued, tx, stale>>
    BY <1>13 DEF FinishBatch, tracker, store, final, ending
  <2> QED
    BY <1>13, <2>1, Finishes DEF IInv, Owned, Types, StoreTypes, HandlerTypes
<1>14. ASSUME CommitWrite  PROVE Owned'
  BY <1>14 DEF CommitWrite, tracker, final, ending, IInv, Owned, Types, StoreTypes, HandlerTypes
<1>15. ASSUME CommitDelete  PROVE Owned'
  BY <1>15 DEF CommitDelete, At, Goto, tracker, final, ending, IInv, Owned, Types, StoreTypes,
     HandlerTypes
<1>16. ASSUME JoinTasks  PROVE Owned'
  BY <1>16, IdleFacts DEF JoinTasks, tracker, store, final, IInv, Owned, Types, StoreTypes,
     HandlerTypes
<1>17. ASSUME ReconcileAfterInterruption  PROVE Owned'
  BY <1>17 DEF ReconcileAfterInterruption, Repair, RepairFails, tracker, final, IInv, Owned,
     Types, StoreTypes, HandlerTypes
<1>18. ASSUME BatchResult  PROVE Owned'
  BY <1>18 DEF BatchResult, HandleDiffResult, tracker, store, final, ending, IInv, Owned, Types,
     StoreTypes, HandlerTypes
<1>19. ASSUME StrayResult  PROVE Owned'
  BY <1>19 DEF StrayResult, HandleDiffResult, tracker, store, final, ending, IInv, Owned, Types,
     StoreTypes, HandlerTypes
<1>20. ASSUME StartMessages \/ SendMessageDiff \/ Phase3BatchFinished \/ FailAttempt \/
   DrainWrites \/ PhaseAck \/ FinalAckDeadline \/ ConnectionEnds \/ LocalTopicDelete \/ UNCHANGED
   vars  PROVE UNCHANGED <<handler, modified, queued, tx, stale>>
  BY <1>20 DEF StartMessages, SendMessageDiff, Phase3BatchFinished, FailAttempt, DrainWrites,
     PhaseAck, FinalAckDeadline, ConnectionEnds, LocalTopicDelete, vars, tracker, store, final,
     ending
<1>21. ASSUME UNCHANGED <<handler, modified, queued, tx, stale>>  PROVE Owned'
  BY <1>21 DEF IInv, Owned, Types, StoreTypes, HandlerTypes
<1> QED
  BY <1>1, <1>2, <1>2a, <1>3, <1>4, <1>5, <1>6, <1>7, <1>8, <1>9, <1>10, <1>11, <1>12, <1>13, <1>14,
     <1>15, <1>16, <1>17, <1>18, <1>19, <1>20, <1>21 DEF Next, Loop, Handler, Storage, Teardown,
     Desktop, Over

\* Who is writing.
LEMMA WritingKept ==
  ASSUME IInv, [Next]_vars
  PROVE  Writing'
<1>1. ASSUME StartMessages  PROVE Writing'
  <2>1. UNCHANGED <<inflight, handler, queued, tx>>
    BY <1>1 DEF StartMessages, tracker, store, final, ending
  <2> QED
    BY <1>1, <2>1, Starts DEF IInv, Writing, Dead, Flight
<1>2. ASSUME SendMessageDiff  PROVE Writing'
  <2>1. Receive("SendDiff") /\ rx' = Tail(rx)
    BY <1>2 DEF SendMessageDiff
  <2>2. Fewer /\ In("SendDiff") /\ stage = "loop" /\ (Once(rx, "SendDiff") => ~In("SendDiff")')
    BY <2>1, Takes
  <2>3. UNCHANGED <<inflight, handler, queued, tx>>
    BY <1>2 DEF SendMessageDiff, tracker, store, final, ending
  <2> QED
    BY <1>2, <2>2, <2>3 DEF SendMessageDiff, Leave, Fewer, IInv, Writing, Dead, Flight
<1>3. ASSUME Phase3BatchFinished  PROVE Writing'
  <2>1. Receive("BatchFinished") /\ rx' = Tail(rx)
    BY <1>3 DEF Phase3BatchFinished
  <2>2. /\ Fewer
        /\ In("BatchFinished")
        /\ stage = "loop"
        /\ (Once(rx, "BatchFinished") => ~In("BatchFinished")')
    BY <2>1, Takes
  <2>3. UNCHANGED <<handler, queued, tx>>
    BY <1>3 DEF Phase3BatchFinished, tracker, store, final, ending
  <2> QED
    BY <1>3, <2>2, <2>3 DEF Phase3BatchFinished, Leave, Fewer, IInv, Writing, Dead, Flight
<1>4. ASSUME FailAttempt  PROVE Writing'
  <2>1. rx' = Tail(rx) /\ Leave(IF Receive("FailFatal") THEN "fatal" ELSE "restart")
    BY <1>4 DEF FailAttempt, Receive, Leave
  <2>2. Fewer /\ stage = "loop"
    BY <1>4, <2>1, Takes DEF FailAttempt
  <2>3. UNCHANGED <<inflight, handler, queued, tx>>
    BY <1>4 DEF FailAttempt, tracker, store, final
  <2> QED
    BY <1>4, <2>1, <2>2, <2>3 DEF Leave, Fewer, IInv, Writing, Dead, Flight
<1>5. ASSUME Finalize  PROVE Writing'
  <2>1. Receive("Finalize") /\ rx' = Tail(rx)
    BY <1>5 DEF Finalize
  <2>2. Fewer /\ In("Finalize") /\ stage = "loop" /\ (Once(rx, "Finalize") => ~In("Finalize")')
    BY <2>1, Takes
  <2>3. UNCHANGED <<inflight, handler, queued, tx>>
    BY <1>5 DEF Finalize, tracker
  <2> QED
    BY <1>5, <2>2, <2>3 DEF Finalize, Leave, Fewer, IInv, Writing, Dead, Flight
<1>6. ASSUME Classify  PROVE Writing'
  <2>1. UNCHANGED <<inflight, queued, tx>>
    BY <1>6 DEF Classify, store, final, ending
  <2> QED
    BY <1>6, <2>1, Sorts DEF Quiet, IInv, Writing, Dead, Flight
<1>6a. ASSUME RejectDecision  PROVE Writing'
  <2>1. UNCHANGED <<inflight, queued, tx>>
    BY <1>6a DEF RejectDecision, store
  <2> QED
    BY <1>6a, <2>1, Rejects DEF Quiet, IInv, Writing, Dead, Flight
<1>7. ASSUME BeginDelete  PROVE Writing'
  BY <1>7 DEF BeginDelete, At, Goto, Types, HandlerTypes, In, tracker, final, ending, IInv,
     Writing, Dead, Flight
<1>8. ASSUME DeleteFails  PROVE Writing'
  BY <1>8, Fails DEF DeleteFails, Quiet, At, final, ending, IInv, Writing, Dead, Flight, In
<1>9. ASSUME DeletesDone  PROVE Writing'
  BY <1>9 DEF DeletesDone, At, Goto, Types, HandlerTypes, In, tracker, store, final, ending, IInv,
     Writing, Dead, Flight
<1>10. ASSUME PullTopic  PROVE Writing'
  BY <1>10 DEF PullTopic, At, Goto, Types, HandlerTypes, In, tracker, final, ending, IInv,
     Writing, Dead, Flight
<1>11. ASSUME PullFails  PROVE Writing'
  <2>1. UNCHANGED <<inflight, queued, tx>>
    BY <1>11 DEF PullFails, store, final, ending
  <2> QED
    BY <1>11, <2>1, Fails DEF Quiet, IInv, Writing, Dead, Flight
<1>12. ASSUME PullDrain  PROVE Writing'
  BY <1>12, Drains DEF PullDrain, Quiet, Drained, final, ending, IInv, Writing, Dead, Flight, In
<1>13. ASSUME PushTopics  PROVE Writing'
  BY <1>13 DEF PushTopics, At, Goto, Types, HandlerTypes, In, tracker, store, final, ending, IInv,
     Writing, Dead, Flight
<1>14. ASSUME PushFails  PROVE Writing'
  <2>1. UNCHANGED <<inflight, queued, tx>>
    BY <1>14 DEF PushFails, store, final, ending
  <2> QED
    BY <1>14, <2>1, Fails DEF Quiet, IInv, Writing, Dead, Flight
<1>15. ASSUME CompleteBatch  PROVE Writing'
  <2>1. UNCHANGED <<inflight, queued, tx>>
    BY <1>15 DEF CompleteBatch, store, final, ending
  <2> QED
    BY <1>15, <2>1, Completes DEF Quiet, IInv, Writing, Dead, Flight
<1>16. ASSUME NextBatch  PROVE Writing'
  <2>1. UNCHANGED <<inflight, queued, tx>>
    BY <1>16 DEF NextBatch, tracker, store, final, ending
  <2> QED
    BY <1>16, <2>1, AsksNext DEF Quiet, IInv, Writing, Dead, Flight
<1>17. ASSUME FinishBatch  PROVE Writing'
  <2>1. UNCHANGED <<inflight, queued, tx>>
    BY <1>17 DEF FinishBatch, tracker, store, final, ending
  <2> QED
    BY <1>17, <2>1, Finishes DEF IInv, Writing, Dead, Flight
<1>18. ASSUME CommitWrite  PROVE Writing'
  BY <1>18 DEF CommitWrite, In, tracker, final, ending, IInv, Writing, Dead, Flight
<1>19. ASSUME CommitDelete  PROVE Writing'
  BY <1>19 DEF CommitDelete, At, Goto, Types, HandlerTypes, In, tracker, final, ending, IInv,
     Writing, Dead, Flight
<1>20. ASSUME JoinTasks  PROVE Writing'
  BY <1>20, IdleFacts DEF JoinTasks, In, tracker, store, final, IInv, Writing, Dead, Flight
<1>21. ASSUME BatchResult  PROVE Writing'
  BY <1>21 DEF BatchResult, HandleDiffResult, ReadFrame, In, tracker, store, final, ending, IInv,
     Writing, Dead, Flight
<1>22. ASSUME StrayResult  PROVE Writing'
  BY <1>22 DEF StrayResult, HandleDiffResult, ReadFrame, In, tracker, store, final, ending, IInv,
     Writing, Dead, Flight
<1>23. ASSUME FinalAckDeadline  PROVE Writing'
  <2>1. UNCHANGED <<inflight, handler, queued, tx>>
    BY <1>23 DEF FinalAckDeadline, tracker, store, ending
  <2> QED
    BY <1>23, <2>1, GivesUp DEF Quiet, IInv, Writing, Dead, Flight
<1>24. ASSUME DrainWrites \/ ReconcileAfterInterruption \/ PhaseAck \/ ConnectionEnds \/
   LocalTopicDelete \/ UNCHANGED vars  PROVE UNCHANGED <<rx, inflight, handler, queued, tx>>
  BY <1>24 DEF DrainWrites, ReconcileAfterInterruption, PhaseAck, ConnectionEnds,
     LocalTopicDelete, vars, tracker, store, final, ending
<1>25. ASSUME UNCHANGED <<rx, inflight, handler, queued, tx>>  PROVE Writing'
  BY <1>25 DEF IInv, Writing, Dead, Flight, In
<1> QED
  BY <1>1, <1>2, <1>3, <1>4, <1>5, <1>6, <1>6a, <1>7, <1>8, <1>9, <1>10, <1>11, <1>12, <1>13, <1>14,
     <1>15, <1>16, <1>17, <1>18, <1>19, <1>20, <1>21, <1>22, <1>23, <1>24, <1>25 DEF Next, Loop,
     Handler, Storage, Teardown, Desktop, Over

\* What is merged.
LEMMA MergedKept ==
  ASSUME IInv, [Next]_vars
  PROVE  Merged'
<1>1. ASSUME Finalize  PROVE Merged'
  BY <1>1 DEF Finalize, tracker, IInv, Merged, Asks
<1>2. ASSUME Classify  PROVE Merged'
  <2>1. UNCHANGED <<finalized, queued, writeError, stale>>
    BY <1>2 DEF Classify, store, final, ending
  <2> QED
    BY <1>2, <2>1, Sorts DEF IInv, Merged, Asks
<1>2a. ASSUME RejectDecision  PROVE Merged'
  BY <1>2a, Rejects DEF RejectDecision, store, final, IInv, Merged, Asks
<1>3. ASSUME BeginDelete  PROVE Merged'
  BY <1>3 DEF BeginDelete, At, Goto, Types, HandlerTypes, tracker, final, ending, IInv, Merged,
     Asks
<1>4. ASSUME DeleteFails  PROVE Merged'
  BY <1>4, Fails DEF DeleteFails, final, ending, IInv, Merged, Asks
<1>5. ASSUME DeletesDone  PROVE Merged'
  BY <1>5 DEF DeletesDone, At, Goto, Types, HandlerTypes, tracker, store, final, ending, IInv,
     Merged, Asks
<1>6. ASSUME PullTopic  PROVE Merged'
  BY <1>6 DEF PullTopic, At, Goto, Types, HandlerTypes, tracker, final, ending, IInv, Merged, Asks
<1>7. ASSUME PullFails  PROVE Merged'
  BY <1>7, Fails DEF PullFails, store, final, ending, IInv, Merged, Asks
<1>8. ASSUME PullDrain  PROVE Merged'
  BY <1>8, Drains DEF PullDrain, Drained, final, ending, IInv, Merged, Asks
<1>9. ASSUME PushTopics  PROVE Merged'
  BY <1>9 DEF PushTopics, At, Goto, Types, HandlerTypes, tracker, store, final, ending, IInv,
     Merged, Asks
<1>10. ASSUME PushFails  PROVE Merged'
  BY <1>10, Fails DEF PushFails, store, final, ending, IInv, Merged, Asks
<1>11. ASSUME CompleteBatch  PROVE Merged'
  <2>1. UNCHANGED <<finalized, queued, writeError, stale>>
    BY <1>11 DEF CompleteBatch, store, final, ending
  <2> QED
    BY <1>11, <2>1, Completes DEF IInv, Merged, Asks
<1>12. ASSUME NextBatch  PROVE Merged'
  <2>1. UNCHANGED <<finalized, queued, writeError, stale>>
    BY <1>12 DEF NextBatch, tracker, store, final, ending
  <2> QED
    BY <1>12, <2>1, AsksNext DEF IInv, Merged, Asks
<1>13. ASSUME FinishBatch  PROVE Merged'
  <2>1. UNCHANGED <<finalized, queued, writeError, stale>>
    BY <1>13 DEF FinishBatch, tracker, store, final, ending
  <2> QED
    BY <1>13, <2>1, Finishes DEF IInv, Merged, Asks
<1>14. ASSUME CommitWrite  PROVE Merged'
  BY <1>14 DEF CommitWrite, tracker, final, ending, IInv, Merged, Asks
<1>15. ASSUME CommitDelete  PROVE Merged'
  BY <1>15 DEF CommitDelete, At, Goto, Types, HandlerTypes, tracker, final, ending, IInv, Merged,
     Asks
<1>16. ASSUME JoinTasks  PROVE Merged'
  BY <1>16, IdleFacts DEF JoinTasks, tracker, store, final, IInv, Merged, Asks
<1>17. ASSUME DrainWrites  PROVE Merged'
  BY <1>17 DEF DrainWrites, Flight, tracker, final, IInv, Merged, Asks
<1>18. ASSUME ReconcileAfterInterruption  PROVE Merged'
  BY <1>18 DEF ReconcileAfterInterruption, Flight, tracker, final, IInv, Merged, Asks
<1>19. ASSUME BatchResult  PROVE Merged'
  BY <1>19 DEF BatchResult, HandleDiffResult, tracker, store, final, ending, IInv, Merged, Asks
<1>20. ASSUME PhaseAck  PROVE Merged'
  BY <1>20 DEF PhaseAck, Ending, Types, EndTypes, tracker, IInv, Merged, Asks
<1>21. ASSUME StrayResult  PROVE Merged'
  BY <1>21 DEF StrayResult, HandleDiffResult, tracker, store, final, ending, IInv, Merged, Asks
<1>22. ASSUME StartMessages \/ SendMessageDiff \/ Phase3BatchFinished \/ FailAttempt \/
   FinalAckDeadline \/ ConnectionEnds \/ LocalTopicDelete \/ UNCHANGED vars  PROVE UNCHANGED
   <<handler, finalized, queued, writeError, stale>>
  BY <1>22 DEF StartMessages, SendMessageDiff, Phase3BatchFinished, FailAttempt, FinalAckDeadline,
     ConnectionEnds, LocalTopicDelete, vars, tracker, store, final, ending
<1>23. ASSUME UNCHANGED <<handler, finalized, queued, writeError, stale>>  PROVE Merged'
  BY <1>23 DEF IInv, Merged, Asks
<1> QED
  BY <1>1, <1>2, <1>2a, <1>3, <1>4, <1>5, <1>6, <1>7, <1>8, <1>9, <1>10, <1>11, <1>12, <1>13, <1>14,
     <1>15, <1>16, <1>17, <1>18, <1>19, <1>20, <1>21, <1>22, <1>23 DEF Next, Loop, Handler,
     Storage, Teardown, Desktop, Over

\* How it ends.
LEMMA EndingKept ==
  ASSUME IInv, [Next]_vars
  PROVE  Ending'
<1>1. ASSUME StartMessages  PROVE Ending'
  BY <1>1, Starts DEF StartMessages, Types, StoreTypes, tracker, store, final, ending, IInv,
     Ending, In
<1>2. ASSUME SendMessageDiff  PROVE Ending'
  <2>1. Receive("SendDiff") /\ rx' = Tail(rx)
    BY <1>2 DEF SendMessageDiff
  <2>2. Fewer /\ In("SendDiff") /\ stage = "loop" /\ (Once(rx, "SendDiff") => ~In("SendDiff")')
    BY <2>1, Takes
  <2>3. UNCHANGED <<changed, completed, finalized, awaiting, announced, queued, tx, stale,
     outcome, stage>>
    BY <1>2 DEF SendMessageDiff, tracker, store, final, ending
  <2> QED
    BY <1>2, <2>2, <2>3 DEF SendMessageDiff, Leave, Fewer, IInv, Ending
<1>3. ASSUME Phase3BatchFinished  PROVE Ending'
  <2>1. Receive("BatchFinished") /\ rx' = Tail(rx)
    BY <1>3 DEF Phase3BatchFinished
  <2>2. /\ Fewer
        /\ In("BatchFinished")
        /\ stage = "loop"
        /\ (Once(rx, "BatchFinished") => ~In("BatchFinished")')
    BY <2>1, Takes
  <2>3. UNCHANGED <<changed, completed, finalized, awaiting, announced, queued, tx, stale,
     outcome, stage>>
    BY <1>3 DEF Phase3BatchFinished, tracker, store, final, ending
  <2> QED
    BY <1>3, <2>2, <2>3 DEF Phase3BatchFinished, Leave, Fewer, IInv, Ending
<1>4. ASSUME FailAttempt  PROVE Ending'
  <2>1. rx' = Tail(rx) /\ Leave(IF Receive("FailFatal") THEN "fatal" ELSE "restart")
    BY <1>4 DEF FailAttempt, Receive, Leave
  <2>2. Fewer /\ stage = "loop"
    BY <1>4, <2>1, Takes DEF FailAttempt
  <2>3. UNCHANGED <<changed, completed, finalized, awaiting, announced, queued, tx, stale>>
    BY <1>4 DEF FailAttempt, tracker, store, final
  <2> QED
    BY <1>4, <2>1, <2>2, <2>3 DEF Leave, Fewer, IInv, Ending
<1>5. ASSUME Finalize  PROVE Ending'
  <2>1. Receive("Finalize") /\ rx' = Tail(rx)
    BY <1>5 DEF Finalize
  <2>2. Fewer /\ In("Finalize") /\ stage = "loop" /\ (Once(rx, "Finalize") => ~In("Finalize")')
    BY <2>1, Takes
  <2>3. UNCHANGED <<changed, completed, queued, tx>>
    BY <1>5 DEF Finalize, tracker
  <2> QED
    BY <1>5, <2>2, <2>3 DEF Finalize, Leave, Fewer, IInv, Ending
<1>6. ASSUME Classify  PROVE Ending'
  BY <1>6, Sorts DEF Classify, Types, LoopTypes, StoreTypes, store, final, ending, IInv, Ending,
     In
<1>6a. ASSUME RejectDecision  PROVE Ending'
  <2>1. UNCHANGED <<changed, finalized, awaiting, announced, queued, tx, stale, outcome, stage>>
    BY <1>6a DEF RejectDecision, store, final, ending
  <2>2. completed = changed => completed' = changed
    BY <1>6a, Rejects
  <2> QED
    BY <1>6a, <2>1, <2>2, Rejects DEF IInv, Ending
<1>7. ASSUME BeginDelete  PROVE Ending'
  BY <1>7 DEF BeginDelete, At, In, tracker, final, ending, IInv, Ending
<1>8. ASSUME DeleteFails  PROVE Ending'
  BY <1>8, Fails DEF DeleteFails, In, final, ending, IInv, Ending
<1>9. ASSUME PullTopic  PROVE Ending'
  BY <1>9 DEF PullTopic, At, In, tracker, final, ending, IInv, Ending
<1>10. ASSUME PullFails  PROVE Ending'
  <2>1. UNCHANGED <<changed, completed, finalized, awaiting, announced, queued, tx, stale,
     outcome, stage>>
    BY <1>10 DEF PullFails, store, final, ending
  <2> QED
    BY <1>10, <2>1, Fails DEF IInv, Ending
<1>11. ASSUME PullDrain  PROVE Ending'
  <2>1. UNCHANGED <<changed, completed, finalized, awaiting, announced, queued, tx, stale,
     outcome, stage>>
    BY <1>11 DEF PullDrain, final, ending
  <2> QED
    BY <1>11, <2>1, Drains DEF IInv, Ending
<1>12. ASSUME PushFails  PROVE Ending'
  <2>1. UNCHANGED <<changed, completed, finalized, awaiting, announced, queued, tx, stale,
     outcome, stage>>
    BY <1>12 DEF PushFails, store, final, ending
  <2> QED
    BY <1>12, <2>1, Fails DEF IInv, Ending
<1>13. ASSUME CompleteBatch  PROVE Ending'
  <2>1. UNCHANGED <<changed, finalized, awaiting, announced, queued, tx, stale, outcome, stage>>
    BY <1>13 DEF CompleteBatch, store, final, ending
  <2> QED
    BY <1>13, <2>1, Completes DEF Types, StoreTypes, IInv, Ending
<1>14. ASSUME NextBatch  PROVE Ending'
  <2>1. UNCHANGED <<changed, completed, finalized, awaiting, announced, queued, tx, stale,
     outcome, stage>>
    BY <1>14 DEF NextBatch, tracker, store, final, ending
  <2> QED
    BY <1>14, <2>1, AsksNext DEF IInv, Ending
<1>15. ASSUME FinishBatch  PROVE Ending'
  <2>1. UNCHANGED <<changed, completed, finalized, awaiting, announced, queued, tx, stale,
     outcome, stage>>
    BY <1>15 DEF FinishBatch, tracker, store, final, ending
  <2> QED
    BY <1>15, <2>1, Finishes DEF IInv, Ending
<1>16. ASSUME CommitWrite  PROVE Ending'
  BY <1>16 DEF CommitWrite, In, tracker, final, ending, IInv, Ending
<1>17. ASSUME CommitDelete  PROVE Ending'
  BY <1>17 DEF CommitDelete, In, tracker, final, ending, IInv, Ending
<1>18. ASSUME JoinTasks  PROVE Ending'
  BY <1>18 DEF JoinTasks, In, Types, EndTypes, tracker, store, final, IInv, Ending
<1>19. ASSUME DrainWrites  PROVE Ending'
  BY <1>19 DEF DrainWrites, In, Drained, tracker, final, IInv, Ending
<1>20. ASSUME ReconcileAfterInterruption  PROVE Ending'
  BY <1>20 DEF ReconcileAfterInterruption, In, Repair, Owned, CanRepair, Types, EndTypes, tracker,
     final, IInv, Ending
<1>21. ASSUME BatchResult  PROVE Ending'
  BY <1>21 DEF BatchResult, Leave, HandleDiffResult, ReadFrame, In, tracker, store, final, ending,
     IInv, Ending
<1>22. ASSUME PhaseAck  PROVE Ending'
  BY <1>22 DEF PhaseAck, Leave, HandleDiffResult, ReadFrame, In, tracker, IInv, Ending
<1>23. ASSUME StrayResult  PROVE Ending'
  BY <1>23 DEF StrayResult, Leave, HandleDiffResult, ReadFrame, In, tracker, store, final, ending,
     IInv, Ending
<1>24. ASSUME FinalAckDeadline  PROVE Ending'
  BY <1>24, GivesUp DEF FinalAckDeadline, tracker, store, ending, IInv, Ending, In
<1>25. ASSUME ConnectionEnds  PROVE Ending'
  BY <1>25 DEF ConnectionEnds, Leave, HandleDiffResult, ReadFrame, In, tracker, store, final,
     IInv, Ending
<1>26. ASSUME DeletesDone \/ PushTopics \/ LocalTopicDelete \/ UNCHANGED vars  PROVE UNCHANGED
   <<rx, changed, completed, finalized, awaiting, announced, queued, tx, stale, outcome, stage>>
  BY <1>26 DEF DeletesDone, PushTopics, LocalTopicDelete, vars, tracker, store, final, ending
<1>27. ASSUME UNCHANGED <<rx, changed, completed, finalized, awaiting, announced, queued, tx,
   stale, outcome, stage>>  PROVE Ending'
  BY <1>27 DEF IInv, Ending, In
<1> QED
  BY <1>1, <1>2, <1>3, <1>4, <1>5, <1>6, <1>6a, <1>7, <1>8, <1>9, <1>10, <1>11, <1>12, <1>13, <1>14,
     <1>15, <1>16, <1>17, <1>18, <1>19, <1>20, <1>21, <1>22, <1>23, <1>24, <1>25, <1>26, <1>27 DEF
     Next, Loop, Handler, Storage, Teardown, Desktop, Over

-----------------------------------------------------------------------------
(* What an honest desktop's answers keep true.                             *)

\* The start.
LEMMA OpeningKept ==
  ASSUME IInv, Thread, Losses, [Next]_vars, ~StrayResult
  PROVE  Opening'
<1>1. ASSUME StartMessages  PROVE Opening'
  <2>1. In("StartMessages")' => FALSE
    BY <1>1, Starts DEF Thread, Opening
  <2> QED
    BY <2>1 DEF Opening
<1>2. ASSUME SendMessageDiff  PROVE Opening'
  <2>1. Receive("SendDiff") /\ rx' = Tail(rx)
    BY <1>2 DEF SendMessageDiff
  <2>2. Fewer /\ In("SendDiff") /\ stage = "loop" /\ (Len(rx) = 1 => \A k : ~In(k)')
        /\ (Once(rx, "SendDiff") => ~In("SendDiff")')
    BY <2>1, Takes
  <2>3. UNCHANGED <<todo, handler, completed, announced>>
    BY <1>2 DEF SendMessageDiff, tracker, store, final, ending
  <2> QED
    BY <1>2, <2>2, <2>3 DEF SendMessageDiff, Leave, Fewer, IInv, Thread, Opening
<1>3. ASSUME Phase3BatchFinished  PROVE Opening'
  <2>1. Receive("BatchFinished") /\ rx' = Tail(rx)
    BY <1>3 DEF Phase3BatchFinished
  <2>2. Fewer /\ In("BatchFinished") /\ stage = "loop" /\ (Len(rx) = 1 => \A k : ~In(k)')
        /\ (Once(rx, "BatchFinished") => ~In("BatchFinished")')
    BY <2>1, Takes
  <2>3. UNCHANGED <<wire, todo, handler, completed, announced>>
    BY <1>3 DEF Phase3BatchFinished, tracker, store, final, ending
  <2> QED
    BY <1>3, <2>2, <2>3 DEF Phase3BatchFinished, Leave, Fewer, IInv, Thread, Opening
<1>4. ASSUME FailAttempt  PROVE Opening'
  <2>1. rx' = Tail(rx) /\ Leave(IF Receive("FailFatal") THEN "fatal" ELSE "restart")
    BY <1>4 DEF FailAttempt, Receive, Leave
  <2>2. Fewer /\ stage = "loop" /\ (Len(rx) = 1 => \A k : ~In(k)')
    BY <1>4, <2>1, Takes DEF FailAttempt
  <2>3. UNCHANGED <<wire, todo, handler, completed, announced>>
    BY <1>4 DEF FailAttempt, tracker, store, final
  <2> QED
    BY <1>4, <2>1, <2>2, <2>3 DEF Leave, Fewer, IInv, Thread, Opening
<1>5. ASSUME Finalize  PROVE Opening'
  <2>1. Receive("Finalize") /\ rx' = Tail(rx)
    BY <1>5 DEF Finalize
  <2>2. Fewer /\ In("Finalize") /\ stage = "loop" /\ (Len(rx) = 1 => \A k : ~In(k)')
        /\ (Once(rx, "Finalize") => ~In("Finalize")')
    BY <2>1, Takes
  <2>3. UNCHANGED <<wire, todo, handler, completed>>
    BY <1>5 DEF Finalize, tracker
  <2> QED
    BY <1>5, <2>2, <2>3 DEF Finalize, Leave, Fewer, IInv, Thread, Opening
<1>6. ASSUME Classify  PROVE Opening'
  <2>1. UNCHANGED <<wire, todo, announced>>
    BY <1>6 DEF Classify, store, final, ending
  <2> QED
    BY <1>6, <2>1, Sorts DEF Quiet, IInv, Thread, Opening
<1>6a. ASSUME RejectDecision  PROVE Opening'
  BY <1>6a, Rejects DEF Quiet, IInv, Thread, Opening
<1>7. ASSUME DeleteFails  PROVE Opening'
  <2>1. UNCHANGED <<wire, todo, completed, announced>>
    BY <1>7 DEF DeleteFails, final, ending
  <2> QED
    BY <1>7, <2>1, Fails DEF Quiet, IInv, Thread, Opening
<1>8. ASSUME DeletesDone  PROVE Opening'
  BY <1>8 DEF DeletesDone, At, In, tracker, store, final, ending, IInv, Thread, Opening
<1>9. ASSUME PullTopic  PROVE Opening'
  BY <1>9 DEF PullTopic, At, In, tracker, final, ending, IInv, Thread, Opening
<1>10. ASSUME PullFails  PROVE Opening'
  <2>1. UNCHANGED <<wire, todo, completed, announced>>
    BY <1>10 DEF PullFails, store, final, ending
  <2> QED
    BY <1>10, <2>1, Fails DEF Quiet, IInv, Thread, Opening
<1>11. ASSUME PullDrain  PROVE Opening'
  <2>1. UNCHANGED <<wire, todo, completed, announced>>
    BY <1>11 DEF PullDrain, final, ending
  <2> QED
    BY <1>11, <2>1, Drains DEF Quiet, IInv, Thread, Opening
<1>12. ASSUME PushTopics  PROVE Opening'
  BY <1>12 DEF PushTopics, At, In, tracker, store, final, ending, IInv, Thread, Opening
<1>13. ASSUME PushFails  PROVE Opening'
  <2>1. UNCHANGED <<wire, todo, completed, announced>>
    BY <1>13 DEF PushFails, store, final, ending
  <2> QED
    BY <1>13, <2>1, Fails DEF Quiet, IInv, Thread, Opening
<1>14. ASSUME CompleteBatch  PROVE Opening'
  <2>1. UNCHANGED <<wire, todo, announced>>
    BY <1>14 DEF CompleteBatch, store, final, ending
  <2> QED
    BY <1>14, <2>1, Completes DEF Quiet, IInv, Thread, Opening
<1>15. ASSUME NextBatch  PROVE Opening'
  <2>1. UNCHANGED <<wire, completed, announced>>
    BY <1>15 DEF NextBatch, tracker, store, final, ending
  <2> QED
    BY <1>15, <2>1, AsksNext DEF IInv, Thread, Opening
<1>16. ASSUME FinishBatch  PROVE Opening'
  <2>1. UNCHANGED <<wire, todo, completed, announced>>
    BY <1>16 DEF FinishBatch, tracker, store, final, ending
  <2> QED
    BY <1>16, <2>1, Finishes DEF IInv, Thread, Opening
<1>17. ASSUME CommitDelete  PROVE Opening'
  BY <1>17 DEF CommitDelete, At, In, tracker, final, ending, IInv, Thread, Opening
<1>18. ASSUME JoinTasks  PROVE Opening'
  BY <1>18, IdleFacts DEF JoinTasks, In, tracker, store, final, IInv, Thread, Opening
<1>19. ASSUME BatchResult  PROVE Opening'
  <2>1. rx' = <<>>
    BY <1>19 DEF BatchResult, ReadFrame
  <2>2. ~In("StartMessages")'
    BY <2>1 DEF In, Box
  <2> QED
    BY <2>2 DEF Opening
<1>20. ASSUME StrayResult  PROVE Opening'
  BY <1>20
<1>21. ASSUME FinalAckDeadline  PROVE Opening'
  BY <1>21, GivesUp DEF FinalAckDeadline, Quiet, Ending, tracker, store, ending, IInv, Thread,
     Opening, In
<1>22. ASSUME BeginDelete \/ CommitWrite \/ DrainWrites \/ ReconcileAfterInterruption \/ PhaseAck
   \/ ConnectionEnds \/ LocalTopicDelete \/ UNCHANGED vars  PROVE UNCHANGED <<rx, wire, todo,
   handler, completed, announced>>
  BY <1>22 DEF BeginDelete, CommitWrite, DrainWrites, ReconcileAfterInterruption, PhaseAck,
     ConnectionEnds, LocalTopicDelete, vars, tracker, store, final, ending
<1>23. ASSUME UNCHANGED <<rx, wire, todo, handler, completed, announced>>  PROVE Opening'
  BY <1>23 DEF IInv, Thread, Opening, In
<1> QED
  BY <1>1, <1>2, <1>3, <1>4, <1>5, <1>6, <1>6a, <1>7, <1>8, <1>9, <1>10, <1>11, <1>12, <1>13, <1>14,
     <1>15, <1>16, <1>17, <1>18, <1>19, <1>20, <1>21, <1>22, <1>23 DEF Next, Loop, Handler,
     Storage, Teardown, Desktop, Over

\* The requests.
LEMMA RequestsKept ==
  ASSUME IInv, Thread, Losses, [Next]_vars, ~StrayResult
  PROVE  Requests'
<1>1. ASSUME StartMessages  PROVE Requests'
  <2>1. Diffs' = {} /\ Once(rx', "SendDiff") /\ wire = {} /\ completed = {} /\ handler.pc = "idle"
    BY <1>1, Starts DEF Thread, Opening, Requests
  <2>2. CASE wire' = wire
    BY <2>1, <2>2 DEF Requests
  <2>3. CASE wire' = {1} /\ expected' = Batches[1] /\ changed # {}
    <3>1. Asked(1)'
      BY <1>1, <2>1, <2>3 DEF StartMessages, tracker, Asked
    <3> QED
      BY <2>1, <2>3, <3>1 DEF Requests
  <2> QED
    BY <1>1, <2>2, <2>3 DEF StartMessages
<1>2. ASSUME SendMessageDiff  PROVE Requests'
  <2>1. Receive("SendDiff") /\ rx' = Tail(rx)
    BY <1>2 DEF SendMessageDiff
  <2>2. /\ Fewer /\ Head(rx) \in Diffs /\ (Once(rx, "SendDiff") => ~In("SendDiff")')
    BY <2>1, Takes DEF Diffs
  <2>3. Diffs' = {} /\ Once(rx', "SendDiff") /\ wire = {} /\ Asked(Head(rx).batch)
    BY <2>2 DEF Diffs, In, Fewer, Thread, Requests
  <2>4. wire' = {Head(rx).batch} /\ UNCHANGED <<expected, completed, changed, handler>>
    BY <1>2, <2>3 DEF SendMessageDiff, tracker
  <2>5. PICK b : b = Head(rx).batch
    OBVIOUS
  <2>6. Asked(b)' /\ wire' = {b}
    BY <2>3, <2>4, <2>5 DEF Asked
  <2> QED
    BY <2>3, <2>6 DEF Requests
<1>3. ASSUME Phase3BatchFinished  PROVE Requests'
  <2>1. /\ Receive("BatchFinished")
        /\ rx' = Tail(rx)
        /\ UNCHANGED <<wire, expected, completed, changed, handler>>
    BY <1>3 DEF Phase3BatchFinished, tracker
  <2>2. Fewer
    BY <2>1, Takes
  <2> QED
    BY <2>1, <2>2 DEF Fewer, Thread, Requests, Asked
<1>4. ASSUME FailAttempt  PROVE Requests'
  <2>1. /\ (Receive("FailFatal") \/ Receive("FailRestart"))
        /\ rx' = Tail(rx)
        /\ UNCHANGED <<wire, expected, completed, changed, handler>>
    BY <1>4 DEF FailAttempt, tracker
  <2>2. Fewer
    BY <2>1, Takes
  <2> QED
    BY <2>1, <2>2 DEF Fewer, Thread, Requests, Asked
<1>5. ASSUME Finalize  PROVE Requests'
  <2>1. /\ Receive("Finalize")
        /\ rx' = Tail(rx)
        /\ UNCHANGED <<wire, expected, completed, changed, handler>>
    BY <1>5 DEF Finalize, tracker
  <2>2. Fewer
    BY <2>1, Takes
  <2> QED
    BY <2>1, <2>2 DEF Fewer, Thread, Requests, Asked
<1>6. ASSUME Classify  PROVE Requests'
  <2>1. Diffs = {} /\ wire = {}
    BY <1>6, Sorts DEF Thread, Requests, Asked
  <2>2. Diffs' = {} /\ wire' = {} /\ Once(rx', "SendDiff")
    BY <1>6, <2>1, Sorts DEF Classify, Quiet, Thread, Requests
  <2> QED
    BY <2>2 DEF Requests
<1>6a. ASSUME RejectDecision  PROVE Requests'
  <2>1. Diffs = {} /\ wire = {}
    BY <1>6a, Rejects DEF Thread, Requests, Asked
  <2>2. Diffs' = {} /\ wire' = {} /\ Once(rx', "SendDiff")
    BY <1>6a, <2>1, Rejects DEF RejectDecision, Quiet, Thread, Requests
  <2> QED
    BY <2>2 DEF Requests
<1>7. ASSUME DeleteFails  PROVE Requests'
  <2>1. Diffs = {} /\ wire = {}
    BY <1>7, Fails DEF Thread, Requests, Asked
  <2>2. Diffs' = {} /\ wire' = {} /\ Once(rx', "SendDiff")
    BY <1>7, <2>1, Fails DEF DeleteFails, Quiet, Thread, Requests
  <2> QED
    BY <2>2 DEF Requests
<1>8. ASSUME DeletesDone  PROVE Requests'
  <2>1. Diffs = {} /\ wire = {}
    BY <1>8 DEF DeletesDone, At, Thread, Requests, Asked
  <2> QED
    BY <1>8, <2>1 DEF DeletesDone, Diffs, Thread, Requests
<1>9. ASSUME PullTopic  PROVE Requests'
  <2>1. Diffs = {} /\ wire = {}
    BY <1>9 DEF PullTopic, At, Thread, Requests, Asked
  <2> QED
    BY <1>9, <2>1 DEF PullTopic, Diffs, Thread, Requests
<1>10. ASSUME PullFails  PROVE Requests'
  <2>1. Diffs = {} /\ wire = {}
    BY <1>10, Fails DEF Thread, Requests, Asked
  <2>2. Diffs' = {} /\ wire' = {} /\ Once(rx', "SendDiff")
    BY <1>10, <2>1, Fails DEF PullFails, Quiet, Thread, Requests
  <2> QED
    BY <2>2 DEF Requests
<1>11. ASSUME PullDrain  PROVE Requests'
  <2>1. Diffs = {} /\ wire = {}
    BY <1>11, Drains DEF Thread, Requests, Asked
  <2>2. Diffs' = {} /\ wire' = {} /\ Once(rx', "SendDiff")
    BY <1>11, <2>1, Drains DEF PullDrain, Quiet, Thread, Requests
  <2> QED
    BY <2>2 DEF Requests
<1>12. ASSUME PushTopics  PROVE Requests'
  <2>1. Diffs = {} /\ wire = {}
    BY <1>12 DEF PushTopics, At, Thread, Requests, Asked
  <2> QED
    BY <1>12, <2>1 DEF PushTopics, Diffs, Thread, Requests
<1>13. ASSUME PushFails  PROVE Requests'
  <2>1. Diffs = {} /\ wire = {}
    BY <1>13, Fails DEF Thread, Requests, Asked
  <2>2. Diffs' = {} /\ wire' = {} /\ Once(rx', "SendDiff")
    BY <1>13, <2>1, Fails DEF PushFails, Quiet, Thread, Requests
  <2> QED
    BY <2>2 DEF Requests
<1>14. ASSUME CompleteBatch  PROVE Requests'
  <2>1. Diffs = {} /\ wire = {}
    BY <1>14, Completes DEF Thread, Requests, Asked
  <2>2. Diffs' = {} /\ wire' = {} /\ Once(rx', "SendDiff")
    BY <1>14, <2>1, Completes DEF CompleteBatch, Quiet, Thread, Requests
  <2> QED
    BY <2>2 DEF Requests
<1>15. ASSUME NextBatch  PROVE Requests'
  <2>1. Diffs = {} /\ wire = {} /\ wire' = {} /\ completed' = completed /\ changed' = changed
    BY <1>15, AsksNext DEF NextBatch, tracker, Thread, Requests, Asked
  <2>2. CASE Quiet /\ UNCHANGED <<rx, todo, expected>>
    BY <2>1, <2>2 DEF Quiet, Thread, Requests
  <2>3. CASE ~(Quiet /\ UNCHANGED <<rx, todo, expected>>)
    <3>1. /\ todo # <<>> /\ Head(todo) \in DOMAIN Batches /\ handler'.pc = "finish"
          /\ expected' = Batches[Head(todo)]
          /\ Diffs' = {[cmd |-> "SendDiff", batch |-> Head(todo)]}
          /\ Once(rx', "SendDiff")
      BY <1>15, <2>1, <2>3, AsksNext DEF Thread, Requests
    <3>2. 1 \in 1 .. Len(todo) /\ Head(todo) = todo[1] /\ changed # {}
      BY <3>1 DEF IInv, Types, LoopTypes
    <3>3. Batches[Head(todo)] \cap completed = {}
      BY <3>2 DEF Thread, Coming
    <3>4. PICK b \in DOMAIN Batches : b = Head(todo)
      BY <3>1
    <3>5. Asked(b)'
      BY <2>1, <3>1, <3>2, <3>3, <3>4 DEF Asked
    <3>6. \A m \in Diffs' : m.batch = b
      BY <3>1, <3>4
    <3> QED
      BY <2>1, <3>1, <3>5, <3>6 DEF Requests
  <2> QED
    BY <2>2, <2>3
<1>16. ASSUME FinishBatch  PROVE Requests'
  <2>1. /\ Diffs' = Diffs /\ Once(rx', "SendDiff") /\ handler'.pc = "idle"
        /\ UNCHANGED <<wire, expected, completed, changed>>
    BY <1>16, Finishes DEF FinishBatch, tracker, Thread, Requests
  <2>2. \A b : Asked(b) => Asked(b)'
    BY <2>1 DEF Asked
  <2> QED
    BY <2>1, <2>2 DEF Thread, Requests
<1>17. ASSUME CommitDelete  PROVE Requests'
  <2>1. UNCHANGED <<rx, wire, expected, completed, changed>> /\ (handler' = handler \/ At("delete"))
    BY <1>17 DEF CommitDelete, tracker
  <2>2. CASE handler' = handler
    BY <2>1, <2>2 DEF Diffs, Thread, Requests, Asked
  <2>3. CASE At("delete")
    <3>1. Diffs = {} /\ wire = {}
      BY <2>3 DEF At, Thread, Requests, Asked
    <3> QED
      BY <2>1, <3>1 DEF Diffs, Thread, Requests
  <2> QED
    BY <2>1, <2>2, <2>3
<1>18. ASSUME JoinTasks  PROVE Requests'
  <2>1. UNCHANGED <<rx, wire, expected, completed, changed>> /\ handler'.pc = "idle"
    BY <1>18, IdleFacts DEF JoinTasks, tracker
  <2> QED
    BY <2>1 DEF Diffs, Thread, Requests, Asked
<1>19. ASSUME BatchResult  PROVE Requests'
  <2>1. PICK b \in wire : wire' = wire \ {b}
    BY <1>19 DEF BatchResult
  <2>2. wire' = {} /\ rx = <<>> /\ rx' = rx
    BY <1>19, <2>1 DEF BatchResult, ReadFrame, Thread, Requests
  <2>3. Diffs' = {}
    BY <2>2 DEF Diffs, Box
  <2> QED
    BY <2>2, <2>3 DEF Thread, Requests
<1>20. ASSUME StrayResult  PROVE Requests'
  BY <1>20
<1>21. ASSUME FinalAckDeadline  PROVE Requests'
  <2>1. Quiet /\ UNCHANGED <<wire, expected, completed, changed, handler>>
    BY <1>21, GivesUp DEF FinalAckDeadline, tracker
  <2> QED
    BY <2>1 DEF Quiet, Thread, Requests, Asked
<1>22. ASSUME BeginDelete \/ CommitWrite \/ DrainWrites \/ ReconcileAfterInterruption \/ PhaseAck
   \/ ConnectionEnds \/ LocalTopicDelete \/ UNCHANGED vars  PROVE UNCHANGED <<rx, wire, expected,
   handler, changed, completed>>
  BY <1>22 DEF BeginDelete, CommitWrite, DrainWrites, ReconcileAfterInterruption, PhaseAck,
     ConnectionEnds, LocalTopicDelete, vars, tracker, store, final, ending
<1>23. ASSUME UNCHANGED <<rx, wire, expected, handler, changed, completed>>  PROVE Requests'
  BY <1>23 DEF IInv, Thread, Requests, Asked, Diffs
<1> QED
  BY <1>1, <1>2, <1>3, <1>4, <1>5, <1>6, <1>6a, <1>7, <1>8, <1>9, <1>10, <1>11, <1>12, <1>13, <1>14,
     <1>15, <1>16, <1>17, <1>18, <1>19, <1>20, <1>21, <1>22, <1>23 DEF Next, Loop, Handler,
     Storage, Teardown, Desktop, Over

\* The work.
LEMMA WorkingKept ==
  ASSUME IInv, Thread, Losses, [Next]_vars, ~StrayResult
  PROVE  Working'
<1>1. ASSUME StartMessages  PROVE Working'
  <2>1. handler.pc = "idle" /\ handler' = handler /\ inflight' = inflight /\ changed' = changed
    BY <1>1, Starts DEF StartMessages, Thread, Opening
  <2> QED
    BY <2>1 DEF Thread, Working
<1>2. ASSUME Phase3BatchFinished  PROVE Working'
  BY <1>2 DEF Phase3BatchFinished, Active, tracker, store, final, ending, IInv, Thread, Working
<1>3. ASSUME Classify  PROVE Working'
  <2>1. /\ UNCHANGED <<inflight, changed, expected>> /\ Active \subseteq handler.keys
        /\ handler.pc = "classify"
    BY <1>3 DEF Classify, At, Active
  <2>2. CASE handler'.pc \in {"idle", "next"}
    BY <2>1, <2>2 DEF Thread, Working
  <2>3. CASE /\ Active # {} /\ handler'.pc = "delete" /\ handler'.keys = handler.keys
             /\ Active' = Active /\ completed' = completed \cup (handler.keys \ Active)
    BY <2>1, <2>3 DEF Thread, Working
  <2> QED
    BY <1>3, <2>2, <2>3, Sorts
<1>3a. ASSUME RejectDecision  PROVE Working'
  <2>1. UNCHANGED <<inflight, changed>> /\ handler'.pc = "idle"
    BY <1>3a, Rejects DEF RejectDecision
  <2> QED
    BY <2>1 DEF Thread, Working
<1>4. ASSUME DeleteFails  PROVE Working'
  BY <1>4, Fails DEF DeleteFails, final, ending, IInv, Thread, Working, Active
<1>5. ASSUME DeletesDone  PROVE Working'
  <2>1. Types /\ UNCHANGED <<inflight, changed, expected, completed>>
    BY <1>5 DEF DeletesDone, IInv, tracker
  <2>2. /\ Active' = Active /\ handler'.keys = handler.keys
        /\ handler.pc \in {"delete", "pull", "push"}
        /\ handler'.pc \in {"delete", "pull", "push", "complete"}
    BY <1>5, <2>1, GotoFacts, PcNames DEF DeletesDone, At, Asks, Types, HandlerTypes
  <2> QED
    BY <2>1, <2>2 DEF Thread, Working
<1>6. ASSUME PullTopic  PROVE Working'
  <2>1. Types /\ UNCHANGED <<inflight, changed, expected, completed>>
    BY <1>6 DEF PullTopic, IInv, tracker
  <2>2. /\ Active' = Active /\ handler'.keys = handler.keys
        /\ handler.pc \in {"delete", "pull", "push"}
        /\ handler'.pc \in {"delete", "pull", "push", "complete"}
    BY <1>6, <2>1, GotoFacts, PcNames DEF PullTopic, At, Asks, Types, HandlerTypes
  <2> QED
    BY <2>1, <2>2 DEF Thread, Working
<1>7. ASSUME PullFails  PROVE Working'
  BY <1>7, Fails DEF PullFails, store, final, ending, IInv, Thread, Working, Active
<1>8. ASSUME PullDrain  PROVE Working'
  <2>1. UNCHANGED <<inflight, changed, expected, completed>>
    BY <1>8 DEF PullDrain
  <2> QED
    BY <1>8, <2>1, Drains DEF Thread, Working
<1>9. ASSUME PushTopics  PROVE Working'
  <2>1. Types /\ UNCHANGED <<inflight, changed, expected, completed>>
    BY <1>9 DEF PushTopics, IInv, tracker
  <2>2. /\ Active' = Active /\ handler'.keys = handler.keys
        /\ handler.pc \in {"delete", "pull", "push"}
        /\ handler'.pc \in {"delete", "pull", "push", "complete"}
    BY <1>9, <2>1, GotoFacts, PcNames DEF PushTopics, At, Asks, Types, HandlerTypes
  <2> QED
    BY <2>1, <2>2 DEF Thread, Working
<1>10. ASSUME PushFails  PROVE Working'
  BY <1>10, Fails DEF PushFails, store, final, ending, IInv, Thread, Working, Active
<1>11. ASSUME CompleteBatch  PROVE Working'
  BY <1>11, Completes DEF CompleteBatch, store, final, ending, IInv, Thread, Working, Active
<1>12. ASSUME NextBatch  PROVE Working'
  BY <1>12, AsksNext DEF NextBatch, tracker, store, final, ending, IInv, Thread, Working, Active
<1>13. ASSUME FinishBatch  PROVE Working'
  BY <1>13, Finishes DEF FinishBatch, tracker, store, final, ending, IInv, Thread, Working, Active
<1>14. ASSUME CommitDelete  PROVE Working'
  <2>1. Types /\ UNCHANGED <<inflight, changed, expected, completed>>
    BY <1>14 DEF CommitDelete, IInv, tracker
  <2>2. CASE handler' = handler
    BY <2>1, <2>2 DEF Thread, Working, Active
  <2>3. CASE At("delete") /\ Goto("delete", handler.left \ {tx})
    <3>1. handler.left \ {tx} \in SUBSET Topics
      BY <2>1 DEF Types, HandlerTypes
    <3>2. /\ Active' = Active /\ handler'.keys = handler.keys
          /\ handler.pc = "delete" /\ handler'.pc = "delete"
      BY <2>1, <2>3, <3>1, GotoFacts, PcNames DEF At
    <3> QED
      BY <2>1, <3>2 DEF Thread, Working
  <2> QED
    BY <1>14, <2>2, <2>3 DEF CommitDelete
<1>15. ASSUME JoinTasks  PROVE Working'
  BY <1>15, IdleFacts DEF JoinTasks, tracker, store, final, IInv, Thread, Working, Active
<1>16. ASSUME BatchResult  PROVE Working'
  <2>1. PICK b \in wire : \E ops : HandleDiffResult(Batches[b], ops)
    BY <1>16 DEF BatchResult
  <2>2. UNCHANGED <<changed, expected, completed>>
    BY <1>16 DEF BatchResult, tracker
  <2>3. expected = Batches[b] /\ expected \cap completed = {} /\ changed # {} /\ expected # {}
    BY <2>1, BatchFacts DEF IInv, Types, LoopTypes, Thread, Requests, Asked
  <2>4. CASE UNCHANGED <<inflight, handler>>
    BY <2>2, <2>4 DEF Thread, Working, Active
  <2>5. CASE \E ops : handler' = [pc |-> "classify", keys |-> Batches[b], ops |-> ops,
                                  left |-> Batches[b]]
    <3>1. handler'.pc = "classify" /\ handler'.keys = expected
      BY <2>3, <2>5
    <3> QED
      BY <2>2, <2>3, <3>1 DEF Working
  <2> QED
    BY <2>1, <2>4, <2>5 DEF HandleDiffResult
<1>17. ASSUME StrayResult  PROVE Working'
  BY <1>17
<1>18. ASSUME SendMessageDiff \/ FailAttempt \/ Finalize \/ BeginDelete \/ CommitWrite \/
   DrainWrites \/ ReconcileAfterInterruption \/ PhaseAck \/ FinalAckDeadline \/ ConnectionEnds \/
   LocalTopicDelete \/ UNCHANGED vars  PROVE UNCHANGED <<expected, inflight, handler, changed,
   completed>>
  BY <1>18 DEF SendMessageDiff, FailAttempt, Finalize, BeginDelete, CommitWrite, DrainWrites,
     ReconcileAfterInterruption, PhaseAck, FinalAckDeadline, ConnectionEnds, LocalTopicDelete,
     vars, tracker, store, final, ending
<1>19. ASSUME UNCHANGED <<expected, inflight, handler, changed, completed>>  PROVE Working'
  BY <1>19 DEF IInv, Thread, Working, Active
<1> QED
  BY <1>1, <1>2, <1>3, <1>3a, <1>4, <1>5, <1>6, <1>7, <1>8, <1>9, <1>10, <1>11, <1>12, <1>13, <1>14,
     <1>15, <1>16, <1>17, <1>18, <1>19 DEF Next, Loop, Handler, Storage, Teardown, Desktop, Over

\* The batches to come.
LEMMA ComingKept ==
  ASSUME IInv, Thread, Losses, [Next]_vars, ~StrayResult
  PROVE  Coming'
<1>1. ASSUME StartMessages  PROVE Coming'
  <2>1. todo = <<>> /\ completed = {} /\ completed' = completed
    BY <1>1, Starts DEF StartMessages, tracker, Thread, Opening
  <2>2. CASE todo' = todo
    BY <2>1, <2>2 DEF Coming
  <2>3. CASE /\ changed # {} /\ todo' = [i \in 1 .. Len(Batches) - 1 |-> i + 1]
             /\ expected' = Batches[1]
    <3>1. changed = Topics
      BY <2>3 DEF IInv, Types, LoopTypes
    <3>2. DOMAIN Batches = 1 .. Len(Batches) /\ Len(Batches) \in Nat /\ 1 \in DOMAIN Batches
      BY <2>3, <3>1, BatchFacts
    <3>3. Len(todo') = Len(Batches) - 1
      BY <2>3, <3>2
    <3>4. ASSUME NEW i \in 1 .. Len(todo')
          PROVE  /\ todo'[i] = i + 1 /\ i + 1 \in DOMAIN Batches /\ i + 1 # 1
      BY <2>3, <3>2, <3>3
    <3>5. ASSUME NEW i \in 1 .. Len(todo')
          PROVE  Batches[todo'[i]] \cap (completed' \cup expected') = {}
      BY <2>1, <2>3, <3>2, <3>4, BatchFacts
    <3>6. ASSUME NEW i \in 1 .. Len(todo'), NEW j \in 1 .. Len(todo'), todo'[i] = todo'[j]
          PROVE  i = j
      <4>1. i + 1 = j + 1
        BY <3>4, <3>6
      <4> QED
        BY <4>1
    <3> QED
      BY <3>5, <3>6 DEF Coming
  <2> QED
    BY <1>1, <2>2, <2>3 DEF StartMessages
<1>2. ASSUME Classify  PROVE Coming'
  <2>1. UNCHANGED <<todo, expected>> /\ completed' \subseteq completed \cup expected
    BY <1>2, Sorts DEF Classify
  <2> QED
    BY <2>1 DEF Thread, Coming
<1>2a. ASSUME RejectDecision  PROVE Coming'
  <2>1. UNCHANGED <<todo, expected>> /\ completed' \subseteq completed \cup expected
    BY <1>2a, Rejects DEF RejectDecision
  <2> QED
    BY <2>1 DEF Thread, Coming
<1>3. ASSUME CompleteBatch  PROVE Coming'
  <2>1. UNCHANGED <<todo, expected>> /\ completed' \subseteq completed \cup expected
    BY <1>3, Completes DEF CompleteBatch, Active, Thread, Working
  <2> QED
    BY <2>1 DEF Thread, Coming
<1>4. ASSUME NextBatch  PROVE Coming'
  <2>1. completed' = completed
    BY <1>4 DEF NextBatch, tracker
  <2>2. CASE UNCHANGED <<todo, expected>>
    BY <2>1, <2>2 DEF Thread, Coming
  <2>3. CASE todo # <<>> /\ expected' = Batches[Head(todo)] /\ todo' = Tail(todo)
    <3> DEFINE d == todo'
    <3>1. todo \in Seq(DOMAIN Batches)
      BY DEF IInv, Types, LoopTypes
    <3>2. /\ Len(d) = Len(todo) - 1 /\ Len(todo) \in Nat /\ Len(todo) >= 1 /\ Head(todo) = todo[1]
          /\ \A i \in 1 .. Len(d) : d[i] = todo[i + 1]
      BY <2>3, <3>1, HeadTailProperties
    <3> HIDE DEF d
    <3>3. \A i \in 1 .. Len(todo) : todo[i] \in DOMAIN Batches
      BY <3>1
    <3>4. ASSUME NEW i \in 1 .. Len(d)
          PROVE  /\ i + 1 \in 1 .. Len(todo) /\ 1 \in 1 .. Len(todo) /\ i + 1 # 1
                 /\ d[i] = todo[i + 1]
      BY <3>2
    <3>5. ASSUME NEW i \in 1 .. Len(d)
          PROVE  Batches[d[i]] \cap (completed \cup Batches[Head(todo)]) = {}
      <4>1. Batches[todo[i + 1]] \cap completed = {} /\ todo[i + 1] # todo[1]
        BY <3>4 DEF Thread, Coming
      <4>2. Batches[todo[i + 1]] \cap Batches[todo[1]] = {}
        BY <3>3, <3>4, <4>1, BatchFacts
      <4> QED
        BY <3>2, <3>4, <4>1, <4>2
    <3>6. ASSUME NEW i \in 1 .. Len(d), NEW j \in 1 .. Len(d), d[i] = d[j]  PROVE i = j
      <4>1. i + 1 = j + 1
        BY <3>4, <3>6 DEF Thread, Coming
      <4> QED
        BY <4>1
    <3> QED
      BY <2>1, <2>3, <3>5, <3>6 DEF Coming, d
  <2> QED
    BY <1>4, <2>2, <2>3, AsksNext
<1>5. ASSUME StrayResult  PROVE Coming'
  BY <1>5
<1>6. ASSUME SendMessageDiff \/ Phase3BatchFinished \/ FailAttempt \/ Finalize \/ BeginDelete \/
   DeleteFails \/ DeletesDone \/ PullTopic \/ PullFails \/ PullDrain \/ PushTopics \/ PushFails \/
   FinishBatch \/ CommitWrite \/ CommitDelete \/ JoinTasks \/ DrainWrites \/
   ReconcileAfterInterruption \/ BatchResult \/ PhaseAck \/ FinalAckDeadline \/ ConnectionEnds \/
   LocalTopicDelete \/ UNCHANGED vars  PROVE UNCHANGED <<todo, expected, completed>>
  BY <1>6 DEF SendMessageDiff, Phase3BatchFinished, FailAttempt, Finalize, BeginDelete,
     DeleteFails, DeletesDone, PullTopic, PullFails, PullDrain, PushTopics, PushFails,
     FinishBatch, CommitWrite, CommitDelete, JoinTasks, DrainWrites, ReconcileAfterInterruption,
     BatchResult, PhaseAck, FinalAckDeadline, ConnectionEnds, LocalTopicDelete, vars, tracker,
     store, final, ending
<1>7. ASSUME UNCHANGED <<todo, expected, completed>>  PROVE Coming'
  BY <1>7 DEF IInv, Thread, Coming
<1> QED
  BY <1>1, <1>2, <1>2a, <1>3, <1>4, <1>5, <1>6, <1>7 DEF Next, Loop, Handler, Storage, Teardown,
     Desktop, Over

-----------------------------------------------------------------------------
(* What was lost or failed.                                                *)

\* When everything is complete, no handler has work left.
LEMMA NoWorkLeft ==
  ASSUME IInv, Thread, completed = changed
  PROVE  handler.pc \in {"idle", "next", "finish"}
<1>1. handler.pc \in Pcs
  BY DEF IInv, Types, HandlerTypes
<1>2. handler.pc # "classify"
  BY DEF IInv, Types, LoopTypes, Thread, Working
<1>3. handler.pc \notin {"delete", "pull", "push", "complete"}
  BY DEF Active, IInv, Types, HandlerTypes, Thread, Working
<1> QED
  BY <1>1, <1>2, <1>3 DEF Pcs

\* A handler that is at work holds a batch that is not complete.
LEMMA WorkLeft ==
  ASSUME IInv, Thread, handler.pc \notin {"idle", "next", "finish"}
  PROVE  completed # changed /\ inflight /\ ~In("BatchFinished")
  BY NoWorkLeft DEF IInv, Flight


\* The three losses.
FailedKnown == failed # {} => Dead /\ completed # changed
LostKnown ==
  lost # {} => \/ writeError
               \/ Dead /\ completed # changed
               \/ finalized /\ ~announced
               \/ stage \in {"repair", "over"}
Clean ==
  announced =>
    /\ completed = changed /\ failed = {} /\ queued = {} /\ stale = {} /\ lost = {}
    /\ tx = None

\* A handler that died stays dead, and its batch incomplete.
LEMMA DeadStays ==
  ASSUME IInv, Thread, Losses, [Next]_vars, ~StrayResult, Dead, completed # changed
  PROVE  Dead' /\ completed' # changed'
<1>1. ASSUME StartMessages  PROVE Dead' /\ completed' # changed'
  <2>1. /\ (In("BatchFinished")' => In("BatchFinished"))
        /\ UNCHANGED <<inflight, handler, completed, changed>>
    BY <1>1, Starts DEF StartMessages, tracker
  <2> QED
    BY <2>1 DEF Dead
<1>2. ASSUME SendMessageDiff  PROVE Dead' /\ completed' # changed'
  <2>1. Receive("SendDiff") /\ rx' = Tail(rx) /\ UNCHANGED <<inflight, handler, completed, changed>>
    BY <1>2 DEF SendMessageDiff, tracker
  <2>2. In("SendDiff") /\ (In("BatchFinished")' => In("BatchFinished"))
    BY <2>1, Takes DEF Fewer
  <2> QED
    BY <2>1, <2>2 DEF Dead
<1>3. ASSUME Phase3BatchFinished  PROVE Dead' /\ completed' # changed'
  <2>1. Receive("BatchFinished") /\ rx' = Tail(rx) /\ UNCHANGED <<handler, completed, changed>>
    BY <1>3 DEF Phase3BatchFinished, tracker
  <2>2. In("BatchFinished") /\ (In("BatchFinished")' => In("BatchFinished"))
    BY <2>1, Takes DEF Fewer
  <2> QED
    BY <2>1, <2>2 DEF Dead
<1>4. ASSUME FailAttempt  PROVE Dead' /\ completed' # changed'
  <2>1. /\ (Receive("FailFatal") \/ Receive("FailRestart"))
        /\ rx' = Tail(rx)
        /\ UNCHANGED <<inflight, handler, completed, changed>>
    BY <1>4 DEF FailAttempt, tracker
  <2>2. In("BatchFinished")' => In("BatchFinished")
    BY <2>1, Takes DEF Fewer
  <2> QED
    BY <2>1, <2>2 DEF Dead
<1>5. ASSUME Finalize  PROVE Dead' /\ completed' # changed'
  <2>1. Receive("Finalize") /\ rx' = Tail(rx) /\ UNCHANGED <<inflight, handler, completed, changed>>
    BY <1>5 DEF Finalize, tracker
  <2>2. In("Finalize") /\ (In("BatchFinished")' => In("BatchFinished"))
    BY <2>1, Takes DEF Fewer
  <2> QED
    BY <2>1, <2>2 DEF Dead
<1>6. ASSUME Classify  PROVE Dead' /\ completed' # changed'
  BY <1>6 DEF Classify, At, Dead
<1>6a. ASSUME RejectDecision  PROVE Dead' /\ completed' # changed'
  BY <1>6a DEF RejectDecision, At, Dead
<1>7. ASSUME DeleteFails  PROVE Dead' /\ completed' # changed'
  BY <1>7 DEF DeleteFails, At, Dead
<1>8. ASSUME DeletesDone  PROVE Dead' /\ completed' # changed'
  BY <1>8 DEF DeletesDone, At, Dead
<1>9. ASSUME PullTopic  PROVE Dead' /\ completed' # changed'
  BY <1>9 DEF PullTopic, At, Dead
<1>10. ASSUME PullFails  PROVE Dead' /\ completed' # changed'
  BY <1>10 DEF PullFails, At, Dead
<1>11. ASSUME PullDrain  PROVE Dead' /\ completed' # changed'
  BY <1>11 DEF PullDrain, At, Dead
<1>12. ASSUME PushTopics  PROVE Dead' /\ completed' # changed'
  BY <1>12 DEF PushTopics, At, Dead
<1>13. ASSUME PushFails  PROVE Dead' /\ completed' # changed'
  BY <1>13 DEF PushFails, At, Dead
<1>14. ASSUME CompleteBatch  PROVE Dead' /\ completed' # changed'
  BY <1>14 DEF CompleteBatch, At, Dead
<1>15. ASSUME NextBatch  PROVE Dead' /\ completed' # changed'
  BY <1>15 DEF NextBatch, At, Dead
<1>16. ASSUME FinishBatch  PROVE Dead' /\ completed' # changed'
  BY <1>16 DEF FinishBatch, At, Dead
<1>17. ASSUME CommitDelete  PROVE Dead' /\ completed' # changed'
  BY <1>17 DEF CommitDelete, At, In, tracker, final, ending, Dead
<1>18. ASSUME JoinTasks  PROVE Dead' /\ completed' # changed'
  BY <1>18, IdleFacts DEF JoinTasks, In, tracker, store, final, Dead
<1>19. ASSUME BatchResult  PROVE Dead' /\ completed' # changed'
  <2>1. UNCHANGED <<inflight, handler, rx, completed, changed>>
    BY <1>19 DEF BatchResult, HandleDiffResult, tracker, Dead
  <2> QED
    BY <2>1 DEF Dead, In
<1>20. ASSUME StrayResult  PROVE Dead' /\ completed' # changed'
  BY <1>20
<1>21. ASSUME FinalAckDeadline  PROVE Dead' /\ completed' # changed'
  <2>1. Quiet /\ UNCHANGED <<inflight, handler, completed, changed>>
    BY <1>21, GivesUp DEF FinalAckDeadline, tracker
  <2> QED
    BY <2>1 DEF Dead, Quiet
<1>22. ASSUME BeginDelete \/ CommitWrite \/ DrainWrites \/ ReconcileAfterInterruption \/ PhaseAck
   \/ ConnectionEnds \/ LocalTopicDelete \/ UNCHANGED vars  PROVE UNCHANGED <<rx, inflight,
   handler, changed, completed>>
  BY <1>22 DEF BeginDelete, CommitWrite, DrainWrites, ReconcileAfterInterruption, PhaseAck,
     ConnectionEnds, LocalTopicDelete, vars, tracker, store, final, ending
<1>23. ASSUME UNCHANGED <<rx, inflight, handler, changed, completed>>  PROVE Dead' /\ completed' #
   changed'
  BY <1>23 DEF Dead, In
<1> QED
  BY <1>1, <1>2, <1>3, <1>4, <1>5, <1>6, <1>6a, <1>7, <1>8, <1>9, <1>10, <1>11, <1>12, <1>13, <1>14,
     <1>15, <1>16, <1>17, <1>18, <1>19, <1>20, <1>21, <1>22, <1>23 DEF Next, Loop, Handler,
     Storage, Teardown, Desktop, Over


\* A failure leaves its handler dead.
LEMMA FailedKept ==
  ASSUME IInv, Thread, Losses, [Next]_vars, ~StrayResult
  PROVE  FailedKnown'
<1>1. CASE failed # {}
  BY <1>1, DeadStays DEF Losses, FailedKnown
<1>2. CASE failed' = failed /\ failed = {}
  BY <1>2 DEF FailedKnown
<1>3. ASSUME DeleteFails \/ PullFails \/ PushFails  PROVE FailedKnown'
  <2>1. Quiet /\ handler'.pc = "idle" /\ handler.pc \in {"delete", "pull", "push"}
    BY <1>3, Fails
  <2>2. completed # changed /\ inflight /\ ~In("BatchFinished")
    BY <2>1, WorkLeft
  <2>3. UNCHANGED <<completed, changed, inflight>>
    BY <1>3 DEF DeleteFails, PullFails, PushFails
  <2> QED
    BY <2>1, <2>2, <2>3 DEF Quiet, Dead, FailedKnown
<1>4. ASSUME PullDrain, failed' # failed  PROVE FailedKnown'
  <2>1. Quiet /\ handler'.pc = "idle" /\ handler.pc = "pull"
    BY <1>4, Drains
  <2>2. completed # changed /\ inflight /\ ~In("BatchFinished")
    BY <2>1, WorkLeft
  <2>3. UNCHANGED <<completed, changed, inflight>>
    BY <1>4 DEF PullDrain
  <2> QED
    BY <2>1, <2>2, <2>3 DEF Quiet, Dead, FailedKnown
<1>5. ASSUME Classify  PROVE failed' = failed
  BY <1>5, Sorts
<1>5a. ASSUME RejectDecision  PROVE FailedKnown'
  <2>1. Quiet /\ handler'.pc = "idle" /\ handler.pc = "classify" /\ handler.keys = expected
    BY <1>5a, Rejects
  <2>2. inflight /\ ~In("BatchFinished") /\ UNCHANGED <<inflight, changed>>
    BY <1>5a, <2>1 DEF RejectDecision, IInv, Flight
  <2>3. completed' # changed
    <3>1. expected \cap completed = {} /\ expected \subseteq changed
      BY <2>1 DEF Thread, Working, IInv, Types, LoopTypes
    <3>2. PICK t \in expected : t \in completed' => t \in completed
      BY <1>5a, Rejects
    <3> QED
      BY <3>1, <3>2
  <2> QED
    BY <2>1, <2>2, <2>3 DEF Quiet, Dead, FailedKnown
<1>6. ASSUME StartMessages \/ SendMessageDiff \/ Phase3BatchFinished \/ FailAttempt \/ Finalize \/
   BeginDelete \/ DeletesDone \/ PullTopic \/ PushTopics \/ CompleteBatch \/ NextBatch \/
   FinishBatch \/ CommitWrite \/ CommitDelete \/ JoinTasks \/ DrainWrites \/
   ReconcileAfterInterruption \/ BatchResult \/ PhaseAck \/ StrayResult \/ FinalAckDeadline \/
   ConnectionEnds \/ LocalTopicDelete \/ UNCHANGED vars  PROVE failed' = failed
  BY <1>6 DEF StartMessages, SendMessageDiff, Phase3BatchFinished, FailAttempt, Finalize,
     BeginDelete, DeletesDone, PullTopic, PushTopics, CompleteBatch, NextBatch, FinishBatch,
     CommitWrite, CommitDelete, JoinTasks, DrainWrites, ReconcileAfterInterruption, BatchResult,
     PhaseAck, StrayResult, FinalAckDeadline, ConnectionEnds, LocalTopicDelete, vars, tracker
<1> QED
  BY <1>1, <1>2, <1>3, <1>4, <1>5, <1>5a, <1>6 DEF Next, Loop, Handler, Storage, Teardown,
     Desktop, Over

\* A lost write is remembered.
LEMMA LostKept ==
  ASSUME IInv, Thread, Losses, [Next]_vars, ~StrayResult
  PROVE  LostKnown'
<1>1. ASSUME FailAttempt  PROVE LostKnown'
  <2>1. lost' = lost /\ (Dead /\ completed # changed => (Dead /\ completed # changed)')
    BY <1>1, DeadStays DEF FailAttempt, store
  <2> QED
    BY <1>1, <2>1 DEF FailAttempt, Leave, HandleDiffResult, ReadFrame, Receive, tracker, store,
       final, Losses, LostKnown
<1>2. ASSUME Finalize  PROVE LostKnown'
  <2>1. lost' = lost /\ (Dead /\ completed # changed => (Dead /\ completed # changed)')
    BY <1>2, DeadStays DEF Finalize, store
  <2>2. completed = changed /\ stage = "loop" /\ ~finalized /\ ~announced
    BY <1>2, Takes DEF Finalize, IInv, Ending, Receive
  <2> QED
    BY <1>2, <2>1, <2>2 DEF Finalize, IInv, Ending, Leave, tracker, Losses, LostKnown
<1>3. ASSUME PullDrain  PROVE LostKnown'
  <2>1. UNCHANGED <<lost, finalized, announced, stage>> /\ writeError' = FALSE
    BY <1>3 DEF PullDrain, final, ending, Flush
  <2>2. CASE writeError
    <3>1. Quiet /\ handler'.pc = "idle" /\ handler.pc = "pull"
      BY <1>3, <2>2, Drains
    <3>2. completed # changed /\ inflight /\ ~In("BatchFinished")
      BY <3>1, WorkLeft
    <3>3. UNCHANGED <<completed, changed, inflight>>
      BY <1>3 DEF PullDrain
    <3> QED
      BY <3>1, <3>2, <3>3 DEF Quiet, Dead, LostKnown
  <2>3. CASE ~writeError
    BY <2>1, <2>3, DeadStays DEF Losses, LostKnown
  <2> QED
    BY <2>2, <2>3
<1>4. ASSUME CommitWrite  PROVE LostKnown'
  <2>1. (lost' = lost /\ writeError' = writeError) \/ writeError' = TRUE
    BY <1>4 DEF CommitWrite
  <2>2. UNCHANGED <<finalized, announced, stage>>
    BY <1>4 DEF CommitWrite, final, ending
  <2>3. Dead /\ completed # changed => (Dead /\ completed # changed)'
    BY DeadStays
  <2> QED
    BY <2>1, <2>2, <2>3 DEF Losses, LostKnown
<1>5. ASSUME JoinTasks  PROVE LostKnown'
  <2>1. lost' = lost /\ (Dead /\ completed # changed => (Dead /\ completed # changed)')
    BY <1>5, DeadStays DEF JoinTasks, store
  <2> QED
    BY <1>5, <2>1 DEF JoinTasks, tracker, store, final, Losses, LostKnown
<1>6. ASSUME DrainWrites  PROVE LostKnown'
  <2>1. lost' = lost /\ (Dead /\ completed # changed => (Dead /\ completed # changed)')
    BY <1>6, DeadStays DEF DrainWrites, store
  <2> QED
    BY <1>6, <2>1 DEF DrainWrites, tracker, final, Losses, LostKnown
<1>7. ASSUME ReconcileAfterInterruption  PROVE LostKnown'
  <2>1. lost' = lost /\ (Dead /\ completed # changed => (Dead /\ completed # changed)')
    BY <1>7, DeadStays DEF ReconcileAfterInterruption, store
  <2> QED
    BY <1>7, <2>1 DEF ReconcileAfterInterruption, tracker, final, Losses, LostKnown
<1>8. ASSUME BatchResult  PROVE LostKnown'
  <2>1. lost' = lost /\ (Dead /\ completed # changed => (Dead /\ completed # changed)')
    BY <1>8, DeadStays DEF BatchResult, store
  <2> QED
    BY <1>8, <2>1 DEF BatchResult, Leave, HandleDiffResult, ReadFrame, Receive, tracker, store,
       final, ending, Losses, LostKnown
<1>9. ASSUME PhaseAck  PROVE LostKnown'
  <2>1. lost = {} /\ lost' = lost
    BY <1>9 DEF PhaseAck, Losses
  <2> QED
    BY <2>1 DEF LostKnown
<1>10. ASSUME StrayResult  PROVE LostKnown'
  BY <1>10
<1>11. ASSUME ConnectionEnds  PROVE LostKnown'
  <2>1. lost' = lost /\ (Dead /\ completed # changed => (Dead /\ completed # changed)')
    BY <1>11, DeadStays DEF ConnectionEnds, store
  <2> QED
    BY <1>11, <2>1 DEF ConnectionEnds, Leave, HandleDiffResult, ReadFrame, Receive, tracker, store,
       final, Losses, LostKnown
<1>12. ASSUME StartMessages \/ SendMessageDiff \/ Phase3BatchFinished \/ Classify \/
   RejectDecision \/ BeginDelete \/ DeleteFails \/ DeletesDone \/ PullTopic \/ PullFails \/
   PushTopics \/ PushFails \/ CompleteBatch \/ NextBatch \/ FinishBatch \/ CommitDelete \/
   FinalAckDeadline \/ LocalTopicDelete \/ UNCHANGED vars  PROVE UNCHANGED <<finalized, announced,
   writeError, lost, stage>>
  BY <1>12 DEF StartMessages, SendMessageDiff, Phase3BatchFinished, Classify, RejectDecision,
     BeginDelete, DeleteFails, DeletesDone, PullTopic, PullFails, PushTopics, PushFails,
     CompleteBatch, NextBatch, FinishBatch, CommitDelete, FinalAckDeadline, LocalTopicDelete,
     vars, tracker, store, final, ending
<1>13. ASSUME UNCHANGED <<finalized, announced, writeError, lost, stage>>  PROVE LostKnown'
  BY <1>13, DeadStays DEF Losses, LostKnown
<1> QED
  BY <1>1, <1>2, <1>3, <1>4, <1>5, <1>6, <1>7, <1>8, <1>9, <1>10, <1>11, <1>12, <1>13 DEF Next,
     Loop, Handler, Storage, Teardown, Desktop, Over

\* What was announced stays true.
LEMMA CleanKept ==
  ASSUME IInv, Thread, Losses, [Next]_vars, ~StrayResult
  PROVE  Clean'
<1>1. ASSUME Finalize  PROVE Clean'
  <2>1. completed = changed /\ stage = "loop" /\ ~finalized /\ ~announced
    BY <1>1, Takes DEF Finalize, IInv, Ending, Receive
  <2>2. UNCHANGED <<completed, changed, failed, queued, lost, tx>> /\ queued = {} /\ failed = {}
    BY <1>1, <2>1 DEF Finalize, tracker, Drained, Losses
  <2>3. CASE announced' = announced
    BY <2>1, <2>3 DEF Clean
  <2>4. CASE ~writeError /\ CanRepair /\ Repair(modified)
    <3>1. stale' = {} /\ lost = {}
      BY <2>1, <2>4 DEF Repair, IInv, Owned, Losses
    <3> QED
      BY <2>1, <2>2, <2>4, <3>1 DEF CanRepair, Clean
  <2> QED
    BY <1>1, <2>3, <2>4 DEF Finalize
<1>2. ASSUME Classify  PROVE Clean'
  <2>1. ~announced
    BY <1>2, NoWorkLeft DEF Classify, At, Losses
  <2> QED
    BY <1>2, <2>1 DEF Classify, final, Clean
<1>2a. ASSUME RejectDecision  PROVE Clean'
  <2>1. ~announced
    BY <1>2a, NoWorkLeft DEF RejectDecision, At, Losses
  <2> QED
    BY <1>2a, <2>1 DEF RejectDecision, final, Clean
<1>3. ASSUME BeginDelete  PROVE Clean'
  <2>1. ~announced
    BY <1>3, NoWorkLeft DEF BeginDelete, At, Losses
  <2> QED
    BY <1>3, <2>1 DEF BeginDelete, final, Clean
<1>4. ASSUME DeleteFails  PROVE Clean'
  <2>1. ~announced
    BY <1>4, NoWorkLeft DEF DeleteFails, At, Losses
  <2> QED
    BY <1>4, <2>1 DEF DeleteFails, final, Clean
<1>5. ASSUME PullTopic  PROVE Clean'
  <2>1. ~announced
    BY <1>5, NoWorkLeft DEF PullTopic, At, Losses
  <2> QED
    BY <1>5, <2>1 DEF PullTopic, final, Clean
<1>6. ASSUME PullFails  PROVE Clean'
  <2>1. ~announced
    BY <1>6, NoWorkLeft DEF PullFails, At, Losses
  <2> QED
    BY <1>6, <2>1 DEF PullFails, final, Clean
<1>7. ASSUME PullDrain  PROVE Clean'
  <2>1. ~announced
    BY <1>7, NoWorkLeft DEF PullDrain, At, Losses
  <2> QED
    BY <1>7, <2>1 DEF PullDrain, final, Clean
<1>8. ASSUME PushFails  PROVE Clean'
  <2>1. ~announced
    BY <1>8, NoWorkLeft DEF PushFails, At, Losses
  <2> QED
    BY <1>8, <2>1 DEF PushFails, final, Clean
<1>9. ASSUME CompleteBatch  PROVE Clean'
  <2>1. ~announced
    BY <1>9, NoWorkLeft DEF CompleteBatch, At, Losses
  <2> QED
    BY <1>9, <2>1 DEF CompleteBatch, final, Clean
<1>10. ASSUME CommitWrite  PROVE Clean'
  <2>1. ~announced /\ announced' = announced
    BY <1>10 DEF CommitWrite, final, Losses
  <2> QED
    BY <2>1 DEF Clean
<1>11. ASSUME CommitDelete  PROVE Clean'
  <2>1. ~announced /\ announced' = announced
    BY <1>11 DEF CommitDelete, final, Losses
  <2> QED
    BY <2>1 DEF Clean
<1>12. ASSUME ReconcileAfterInterruption  PROVE Clean'
  BY <1>12 DEF ReconcileAfterInterruption, Repair, RepairFails, tracker, final, Losses, Clean
<1>13. ASSUME StrayResult  PROVE Clean'
  BY <1>13
<1>14. ASSUME StartMessages \/ SendMessageDiff \/ Phase3BatchFinished \/ FailAttempt \/
   DeletesDone \/ PushTopics \/ NextBatch \/ FinishBatch \/ JoinTasks \/ DrainWrites \/
   BatchResult \/ PhaseAck \/ FinalAckDeadline \/ ConnectionEnds \/ LocalTopicDelete \/ UNCHANGED
   vars  PROVE UNCHANGED <<changed, completed, failed, announced, queued, tx, stale, lost>>
  BY <1>14 DEF StartMessages, SendMessageDiff, Phase3BatchFinished, FailAttempt, DeletesDone,
     PushTopics, NextBatch, FinishBatch, JoinTasks, DrainWrites, BatchResult, PhaseAck,
     FinalAckDeadline, ConnectionEnds, LocalTopicDelete, vars, tracker, store, final, ending
<1>15. ASSUME UNCHANGED <<changed, completed, failed, announced, queued, tx, stale, lost>>  PROVE
   Clean'
  BY <1>15 DEF Losses, Clean
<1> QED
  BY <1>1, <1>2, <1>2a, <1>3, <1>4, <1>5, <1>6, <1>7, <1>8, <1>9, <1>10, <1>11, <1>12, <1>13, <1>14,
     <1>15 DEF Next, Loop, Handler, Storage, Teardown, Desktop, Over


\* With an honest desktop, the thread of requests and the losses keep in order.
LEMMA HonestKept ==
  ASSUME IInv, [Next]_vars
  PROVE  Honest'
<1>1. SUFFICES ASSUME stray' = 0  PROVE Thread' /\ Losses'
  BY DEF Honest
<1>2. ~StrayResult /\ stray = 0
  <2>1. StrayResult => stray' = stray + 1
    BY DEF StrayResult
  <2>2. stray \in Nat
    BY BatchesAssumption DEF IInv, Types, EndTypes
  <2>3. ASSUME ~StrayResult  PROVE stray' = stray
    BY <2>3 DEF Next, Loop, Handler, Storage, Teardown, Desktop, Over, vars, StartMessages,
       SendMessageDiff, Phase3BatchFinished, FailAttempt, Finalize, Classify, RejectDecision,
       BeginDelete, DeleteFails, DeletesDone, PullTopic, PullFails, PullDrain, PushTopics,
       PushFails, CompleteBatch, NextBatch, FinishBatch, CommitWrite, CommitDelete, JoinTasks,
       DrainWrites, ReconcileAfterInterruption, BatchResult, PhaseAck, FinalAckDeadline,
       ConnectionEnds, LocalTopicDelete
  <2> QED
    BY <1>1, <2>1, <2>2, <2>3
<1>3. Thread /\ Losses
  BY <1>2 DEF IInv, Honest
<1>4. Thread'
  BY <1>2, <1>3, OpeningKept, RequestsKept, WorkingKept, ComingKept DEF Thread
<1>5. FailedKnown' /\ LostKnown' /\ Clean'
  BY <1>2, <1>3, FailedKept, LostKept, CleanKept
<1> QED
  BY <1>4, <1>5 DEF Losses, FailedKnown, LostKnown, Clean

-----------------------------------------------------------------------------
(* The theorems.                                                           *)

\* The invariant holds when the message phase begins.
LEMMA InitInv ==
  ASSUME Init
  PROVE  IInv
<1>1. rx \in Seq(Command) /\ Len(rx) = 1 /\ rx[1] = Cmd("StartMessages")
  BY CmdTyped DEF Init
<1>2. Box(rx) = {Cmd("StartMessages")} /\ Cmd("StartMessages").cmd = "StartMessages"
  BY <1>1, CmdTyped DEF Box
<1>3. RxOK(rx) /\ Diffs = {} /\ ~In("BatchFinished") /\ ~In("Finalize")
  BY <1>1, <1>2 DEF RxOK, Diffs, In
<1>4. Once(rx, "BatchFinished") /\ Once(rx, "SendDiff")
  BY <1>1 DEF Once
<1>5. handler = Idle /\ handler.pc = "idle" /\ handler.left = {} /\ handler.keys = {}
  BY DEF Init, Idle
<1>6. handler \in [pc : Pcs, keys : SUBSET Topics, ops : {handler.ops}, left : SUBSET Topics]
  BY <1>5 DEF Idle, Pcs
<1>7. Types
  <2>1. LoopTypes
    <3>1. /\ wire = {} /\ todo = <<>> /\ expected = {} /\ inflight = FALSE
          /\ changed \in {{}, Topics}
      BY DEF Init
    <3>2. todo \in Seq(DOMAIN Batches)
      BY <3>1
    <3> QED
      BY <1>3, <3>1, <3>2 DEF LoopTypes
  <2>2. HandlerTypes
    BY <1>5, <1>6 DEF HandlerTypes
  <2>3. StoreTypes
    BY DEF Init, StoreTypes
  <2>4. EndTypes
    <3>1. /\ finalized = FALSE /\ awaiting = FALSE /\ announced = FALSE /\ overlap = FALSE
          /\ watchdog = "off" /\ outcome = "none" /\ stage = "loop" /\ stray = 0
      BY DEF Init
    <3>2. stray \in 0 .. MaxStray
      BY <3>1, BatchesAssumption
    <3> QED
      BY <3>1, <3>2 DEF EndTypes
  <2> QED
    BY <2>1, <2>2, <2>3, <2>4 DEF Types
<1>8. Flight
  BY <1>3, <1>4, <1>5 DEF Init, Flight
<1>9. Owned /\ Writing /\ Ending
  BY <1>3, <1>5 DEF Init, Owned, Writing, Ending
<1>10. Merged
  BY <1>5 DEF Merged
<1>11. Thread
  <2>1. Opening
    BY <1>1, <1>5 DEF Init, Opening
  <2>2. Requests
    BY <1>3, <1>4 DEF Init, Requests
  <2>3. Working
    BY <1>5 DEF Init, Working
  <2>4. Coming
    BY DEF Init, Coming
  <2> QED
    BY <2>1, <2>2, <2>3, <2>4 DEF Thread
<1>12. Losses
  BY DEF Init, Losses
<1> QED
  BY <1>7, <1>8, <1>9, <1>10, <1>11, <1>12 DEF IInv, Honest

\* The invariant: types, who may be writing, what is committed before a push,
\* how the attempt ends and, with an honest desktop, which batch is asked for.
THEOREM Invariance == Spec => []IInv
<1>1. Init => IInv
  BY InitInv
<1>2. IInv /\ [Next]_vars => IInv'
  <2> SUFFICES ASSUME IInv, [Next]_vars  PROVE IInv'
    OBVIOUS
  <2> QED
    BY TypesKept, FlightKept, OwnedKept, WritingKept, MergedKept, EndingKept, HonestKept DEF IInv
<1> QED
  BY <1>1, <1>2, PTL DEF Spec

\* Every variable has its type: commands, batches of the list, topics that changed.
THEOREM TypeCorrect == Spec => []TypeOK
<1>1. IInv => TypeOK
  <2> SUFFICES ASSUME IInv  PROVE TypeOK
    OBVIOUS
  <2>1. Types /\ changed \subseteq Topics
    BY DEF IInv, Types, LoopTypes
  <2>2. rx \in Seq(Command) /\ expected \subseteq Topics
    BY <2>1 DEF Types, LoopTypes, RxOK
  <2>3. handler.pc \in Pcs /\ handler.keys \subseteq Topics /\ handler.left \subseteq handler.keys
    BY <2>1 DEF Types, HandlerTypes
  <2> QED
    BY <2>1, <2>2, <2>3 DEF TypeOK, Types, LoopTypes, StoreTypes, EndTypes, Pcs
<1> QED
  BY <1>1, Invariance, PTL

\* SyncPhaseAck completes only a session that compared every changed topic and
\* failed none, that lost no write, and whose hashes are recomputed.
THEOREM CompletedIsAligned == Spec => []CompletedMeansAligned
<1>1. IInv => CompletedMeansAligned
  BY DEF IInv, Honest, Losses, Ending, CompletedMeansAligned
<1> QED
  BY <1>1, Invariance, PTL

\* An honest desktop's answer is always checked against the topics it was asked
\* about, and no second request is on its way.
THEOREM AnswersMeetRequests == Spec => []AnswerMeetsItsRequest
<1>1. IInv => AnswerMeetsItsRequest
  <2> SUFFICES ASSUME IInv, stray = 0
               PROVE  Cardinality(wire) <= 1 /\ \A b \in wire : expected = Batches[b]
    BY DEF AnswerMeetsItsRequest
  <2>1. \A b \in wire : expected = Batches[b] /\ wire = {b}
    BY DEF IInv, Honest, Thread, Requests, Asked
  <2>2. CASE wire = {}
    BY <2>2, FS_EmptySet
  <2>3. CASE wire # {}
    <3>1. PICK b \in wire : wire = {b}
      BY <2>1, <2>3
    <3> QED
      BY <2>1, <3>1, FS_Singleton
  <2> QED
    BY <2>2, <2>3
<1> QED
  BY <1>1, Invariance, PTL

\* However the attempt ends, reconcile_after_interruption has recomputed the
\* hashes of every topic it wrote to, or says that it could not.
THEOREM AlwaysRepaired == Spec => []HashesRepaired
<1>1. IInv => HashesRepaired
  BY DEF IInv, Honest, Losses, Ending, HashesRepaired
<1> QED
  BY <1>1, Invariance, PTL

\* The completion frame goes out once, when every topic is complete, the queue
\* is empty and no hash is stale.
THEOREM AnnouncedOnlyWhenDone == Spec => AnnouncedWhenDone
<1> DEFINE A == announced' # announced =>
                  ~announced /\ completed = changed /\ queued' = {} /\ stale' = {} /\ tx = None
<1>1. IInv /\ [Next]_vars => A
  <2> SUFFICES ASSUME IInv, Next, announced' # announced  PROVE A
    BY DEF vars
  <2>1. Finalize
    BY DEF Next, Loop, Handler, Storage, Teardown, Desktop, Over, vars, StartMessages,
       SendMessageDiff, Phase3BatchFinished, FailAttempt, Classify, RejectDecision, BeginDelete,
       DeleteFails, DeletesDone, PullTopic, PullFails, PullDrain, PushTopics, PushFails,
       CompleteBatch, NextBatch, FinishBatch, CommitWrite, CommitDelete, JoinTasks,
       DrainWrites, ReconcileAfterInterruption, BatchResult, PhaseAck, StrayResult,
       FinalAckDeadline, ConnectionEnds, LocalTopicDelete, final
  <2>2. /\ ~finalized
        /\ announced' = TRUE
        /\ CanRepair
        /\ Repair(modified)
        /\ queued = {}
        /\ queued' = queued
    BY <2>1 DEF Finalize, Drained
  <2>3. In("Finalize")
    BY <2>1, Takes DEF Finalize
  <2>4. completed = changed /\ ~announced
    BY <2>2, <2>3 DEF IInv, Ending
  <2>5. stale' = {}
    BY <2>2 DEF Repair, IInv, Owned
  <2> QED
    BY <2>2, <2>4, <2>5 DEF CanRepair
<1> QED
  BY <1>1, Invariance, PTL DEF Spec, AnnouncedWhenDone

\* Whole topics are pushed only when the deletions and pulls the desktop asked of
\* them are committed, so that the push carries the merged topic.
THEOREM PushesAreMerged == Spec => PushIsMerged
<1> DEFINE P == pushed' # pushed =>
       \A t \in pushed' \ pushed :
         /\ t \notin queued
         /\ handler.ops[t] \cap {"pull", "delete"} # {} /\ ~finalized => t \in stale
<1>1. IInv /\ [Next]_vars => P
  <2> SUFFICES ASSUME IInv, Next, pushed' # pushed, NEW t \in pushed' \ pushed
               PROVE  /\ t \notin queued
                      /\ handler.ops[t] \cap {"pull", "delete"} # {} /\ ~finalized => t \in stale
    BY DEF vars
  <2>1. PushTopics
    BY DEF Next, Loop, Handler, Storage, Teardown, Desktop, Over, vars, StartMessages,
       SendMessageDiff, Phase3BatchFinished, FailAttempt, Finalize, Classify, RejectDecision,
       BeginDelete, DeleteFails, DeletesDone, PullTopic, PullFails, PullDrain, PushFails,
       CompleteBatch, NextBatch, FinishBatch, CommitWrite, CommitDelete, JoinTasks, DrainWrites,
       ReconcileAfterInterruption, BatchResult, PhaseAck, StrayResult, FinalAckDeadline,
       ConnectionEnds, LocalTopicDelete
  <2>2. handler.pc = "push" /\ t \in handler.keys
    BY <2>1 DEF PushTopics, At, Asks
  <2>3. queued = {}
    BY <2>2 DEF IInv, Writing, Dead
  <2>4. ~finalized => Asks("delete") \subseteq stale /\ Asks("pull") \subseteq stale
    BY <2>2 DEF IInv, Merged
  <2> QED
    BY <2>2, <2>3, <2>4 DEF Asks
<1> QED
  BY <1>1, Invariance, PTL DEF Spec, PushIsMerged
=============================================================================
