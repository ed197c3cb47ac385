------------------------- MODULE DbWriteQueue_proofs -------------------------
(***************************************************************************)
(* Proofs about DbWriteQueue, for any callers, capacity and batch limits:  *)
(* a flush is a barrier, an answer without failures hides none, a batch    *)
(* keeps to its bounds, and the queue implements the log of WriteLog.      *)
(***************************************************************************)
EXTENDS DbWriteQueue, SequenceTheorems, FiniteSetTheorems,
        WellFoundedInduction, TLAPS

Item == [flush : Caller] \cup [task : Nat]

\* What the worker holds, and what is in the channel.
Held == Len(batch) + Len(carried)
TaskAt(i) == ~IsFlush(chan[i])
FlushOf(c, i) == IsFlush(chan[i]) /\ chan[i].flush = c

Calls(items) ==
  [pc : {"idle", "send", "wait", "answered", "gone"}, item : items, after : Nat, err : SUBSET Nat]
CallTypes == call \in [Caller -> Calls({<<>>} \cup {<<p>> : p \in Payloads})]

Types ==
  /\ CallTypes
  /\ chan \in Seq(Item) /\ log \in Seq(Payloads)
  /\ worker \in {"recv", "collect", "lease", "answer"}
  /\ batch \in Seq(Nat) /\ carried \in Seq(Nat)
  /\ ack \in Caller \cup {None}
  /\ errors \subseteq Nat /\ settled \in Nat

\* What the worker holds when.
Where ==
  /\ worker \in {"recv", "answer"} => batch = <<>>
  /\ worker = "collect" => carried = <<>>
  /\ worker \in {"recv", "collect"} <=> ack = None /\ worker # "lease"
  /\ Len(carried) <= 1

\* The tasks of the channel are first + 1 .. last, in this order.
InOrder(first, last) ==
  /\ \A i \in 1 .. Len(chan) : TaskAt(i) => chan[i].task \in first + 1 .. last
  /\ \A n \in first + 1 .. last : \E i \in 1 .. Len(chan) : TaskAt(i) /\ chan[i].task = n
  /\ \A i, j \in 1 .. Len(chan) :
       i < j /\ TaskAt(i) /\ TaskAt(j) => chan[i].task < chan[j].task

\* The tasks are worked off in the order they were accepted: first those of the
\* batch, then the carried one, then those of the channel.
Order ==
  /\ settled + Held <= Len(log)
  /\ \A i \in 1 .. Len(batch) : batch[i] = settled + i
  /\ \A i \in 1 .. Len(carried) : carried[i] = settled + Len(batch) + i
  /\ InOrder(settled + Held, Len(log))

\* A caller that waits has one flush under way, the others have none (that of
\* a caller that is gone may still be there).
WaitingOf(c) ==
  /\ call[c].pc \in {"idle", "send", "answered"} =>
       ack # c /\ \A i \in 1 .. Len(chan) : ~FlushOf(c, i)
  /\ call[c].pc = "wait" =>
       /\ call[c].after <= Len(log)
       /\ ack = c => \A i \in 1 .. Len(chan) : ~FlushOf(c, i)
       /\ \A i, j \in 1 .. Len(chan) : FlushOf(c, i) /\ FlushOf(c, j) => i = j
Waiting == \A c \in Caller : WaitingOf(c)

\* What a flush waits for is before it.
BarrierOf(c) ==
  /\ call[c].pc = "wait" =>
       /\ ack = c => settled + Len(batch) >= call[c].after
       /\ \A i, j \in 1 .. Len(chan) :
            FlushOf(c, i) /\ i < j /\ TaskAt(j) => chan[j].task > call[c].after
  /\ call[c].pc = "answered" => settled >= call[c].after
Barrier == \A c \in Caller : BarrierOf(c)

\* A failure is remembered until it is told.
Failures ==
  /\ failed \subseteq told \cup errors
  /\ OkHidesNothing

IInv == Types /\ Where /\ Order /\ Waiting /\ Barrier /\ Failures

-----------------------------------------------------------------------------
(* Items, and the channel when one comes or goes.                          *)

\* A task and a flush are told apart.
LEMMA ItemFacts ==
  ASSUME NEW x \in Item
  PROVE  IF IsFlush(x) THEN x.flush \in Caller ELSE x.task \in Nat
<1>1. CASE x \in [flush : Caller]
  BY <1>1 DEF IsFlush
<1>2. CASE x \in [task : Nat]
  BY <1>2 DEF IsFlush
<1> QED
  BY <1>1, <1>2 DEF Item

\* What callers put into the channel.
LEMMA NewItems ==
  /\ \A c \in Caller : [flush |-> c] \in Item /\ IsFlush([flush |-> c]) /\ [flush |-> c].flush = c
  /\ \A n \in Nat : [task |-> n] \in Item /\ ~IsFlush([task |-> n]) /\ [task |-> n].task = n
  BY DEF Item, IsFlush

\* An item comes in at the end.
LEMMA ItemIn ==
  ASSUME chan \in Seq(Item), NEW x \in Item, chan' = Append(chan, x)
  PROVE  /\ chan' \in Seq(Item) /\ Len(chan') = Len(chan) + 1 /\ Len(chan) \in Nat
         /\ \A i \in 1 .. Len(chan') : (i \in 1 .. Len(chan) /\ chan'[i] = chan[i])
                                        \/ (i = Len(chan) + 1 /\ chan'[i] = x)
         /\ \A i \in 1 .. Len(chan) : i \in 1 .. Len(chan') /\ chan'[i] = chan[i]
         /\ Len(chan) + 1 \in 1 .. Len(chan') /\ chan'[Len(chan) + 1] = x
  BY AppendProperties

\* The first item goes out.
LEMMA ItemOut ==
  ASSUME chan \in Seq(Item), chan # <<>>, chan' = Tail(chan)
  PROVE  /\ chan' \in Seq(Item) /\ Len(chan') = Len(chan) - 1 /\ Len(chan) \in Nat
         /\ Head(chan) = chan[1] /\ chan[1] \in Item /\ 1 \in 1 .. Len(chan)
         /\ \A i \in 1 .. Len(chan') :
              i \in Nat /\ i + 1 \in 1 .. Len(chan) /\ chan'[i] = chan[i + 1]
         /\ \A i \in 1 .. Len(chan) : i = 1 \/ (i - 1 \in 1 .. Len(chan') /\ chan'[i - 1] = chan[i])
<1> DEFINE t == Tail(chan)
<1>1. /\ t \in Seq(Item) /\ Len(t) = Len(chan) - 1 /\ Len(chan) \in Nat /\ Len(chan) >= 1
      /\ \A i \in 1 .. Len(t) : t[i] = chan[i + 1]
      /\ Head(chan) = chan[1] /\ chan[1] \in Item
  BY HeadTailProperties
<1> HIDE DEF t
<1>2. \A i \in 1 .. Len(t) : i \in Nat /\ i + 1 \in 1 .. Len(chan)
  BY <1>1
<1>3. \A i \in 1 .. Len(chan) : i = 1 \/ (i - 1 \in 1 .. Len(t) /\ t[i - 1] = chan[i])
  <2>1. ASSUME NEW i \in 1 .. Len(chan), i # 1
        PROVE  i - 1 \in 1 .. Len(t) /\ t[i - 1] = chan[i]
    <3>1. i - 1 \in 1 .. Len(t) /\ (i - 1) + 1 = i
      BY <1>1, <2>1
    <3> QED
      BY <1>1, <3>1
  <2> QED
    BY <2>1
<1>4. chan' = t
  BY DEF t
<1> QED
  BY <1>1, <1>2, <1>3, <1>4

-----------------------------------------------------------------------------
(* One step of the system, by the component of the invariant it may disturb.*)

\* A submitted task is one more entry of the log.
LEMMA LogGrows ==
  ASSUME Types, NEW c \in Caller, Enqueue(c), call[c].item # <<>>
  PROVE  log' \in Seq(Payloads) /\ Len(log') = Len(log) + 1 /\ Len(log) \in Nat
<1>1. PICK p \in Payloads : call[c].item = <<p>>
  BY DEF Types, CallTypes, Calls
<1>2. log' = log \o <<p>> /\ log \in Seq(Payloads)
  BY <1>1 DEF Enqueue, Types
<1> QED
  BY <1>2

\* The record of a call keeps its form.
LEMMA CallTypesKept ==
  ASSUME IInv, [Next]_vars
  PROVE  CallTypes'
<1> USE DEF CallTypes, Calls
<1>1. CallTypes /\ errors \subseteq Nat /\ log \in Seq(Payloads)
  BY DEF IInv, Types
<1>2. ASSUME NEW c \in Caller, Submit(c)  PROVE CallTypes'
  <2>1. PICK p \in Payloads :
          call' = [call EXCEPT ![c] = [Idle EXCEPT !.pc = "send", !.item = <<p>>]]
    BY <1>2 DEF Submit
  <2>2. ASSUME NEW S, <<>> \in S, NEW v \in S, call \in [Caller -> Calls(S)],
               call' = [call EXCEPT ![c] = [Idle EXCEPT !.pc = "send", !.item = v]]
        PROVE  call' \in [Caller -> Calls(S)]
    BY <2>2 DEF Idle
  <2> DEFINE S == {<<>>} \cup {<<q>> : q \in Payloads}
  <2>3. <<>> \in S /\ <<p>> \in S
    OBVIOUS
  <2> QED
    BY <1>1, <2>1, <2>2, <2>3
<1>3. ASSUME NEW c \in Caller, CallFlush(c)  PROVE CallTypes'
  BY <1>1, <1>3 DEF CallFlush, Idle
<1>4. ASSUME NEW c \in Caller, Enqueue(c)  PROVE CallTypes'
  <2>1. Len(log) \in Nat
    BY <1>1
  <2> DEFINE r == [pc |-> "wait", item |-> <<>>, after |-> Len(log), err |-> {}]
  <2>2. call' = [call EXCEPT ![c] = r] \/ call' = [call EXCEPT ![c] = Idle]
    BY <1>4 DEF Enqueue, Idle
  <2>3. {r, Idle} \subseteq [pc : {"idle", "send", "wait", "answered", "gone"},
              item : {<<>>} \cup {<<q>> : q \in Payloads}, after : Nat, err : SUBSET Nat]
    BY <2>1 DEF Idle
  <2> HIDE DEF r
  <2> QED
    BY <1>1, <2>2, <2>3
<1>5. ASSUME NEW c \in Caller, FlushReturns(c)  PROVE CallTypes'
  BY <1>1, <1>5 DEF FlushReturns, Idle
<1>6. ASSUME NEW c \in Caller, Cancel(c)  PROVE CallTypes'
  BY <1>1, <1>6 DEF Cancel, Idle
<1>7. ASSUME NEW c, Deliver(c)  PROVE CallTypes'
  <2>1. CASE call[c].pc = "wait"
    <3>1. call' = [call EXCEPT ![c].pc = "answered", ![c].err = errors]
      BY <1>7, <2>1 DEF Deliver
    <3> QED
      BY <1>1, <3>1
  <2>2. CASE call[c].pc # "wait"
    <3>1. UNCHANGED call
      BY <1>7, <2>2 DEF Deliver
    <3> QED
      BY <1>1, <3>1
  <2> QED
    BY <2>1, <2>2
<1>8. ASSUME UNCHANGED call  PROVE CallTypes'
  BY <1>1, <1>8
<1>9. ASSUME TakeFirst \/ Collect \/ CloseBatch \/ Transact \/ UNCHANGED vars  PROVE UNCHANGED call
  BY <1>9 DEF TakeFirst, Collect, CloseBatch, Transact, vars
<1> QED
  BY <1>2, <1>3, <1>4, <1>5, <1>6, <1>7, <1>8, <1>9
     DEF Next, Work, Proceed, AckFirst, AckBatch, Quiet

\* The channel, the worker's tasks and the log keep their types.
LEMMA TypesKept ==
  ASSUME IInv, [Next]_vars
  PROVE  Types'
<1>1. Types /\ CallTypes'
  BY CallTypesKept DEF IInv
<1>2. ASSUME NEW c \in Caller, Submit(c)  PROVE Types'
  BY <1>1, <1>2 DEF Types, Submit, workerVars
<1>3. ASSUME NEW c \in Caller, CallFlush(c)  PROVE Types'
  BY <1>1, <1>3 DEF Types, CallFlush, workerVars
<1>4. ASSUME NEW c \in Caller, Enqueue(c)  PROVE Types'
  <2>1. CASE call[c].item = <<>>
    <3>1. chan' = Append(chan, [flush |-> c]) /\ [flush |-> c] \in Item /\ UNCHANGED log
      BY <1>4, <2>1 DEF Enqueue, Item
    <3>2. chan' \in Seq(Item)
      BY <1>1, <3>1, AppendProperties DEF Types
    <3> QED
      BY <1>1, <1>4, <3>1, <3>2 DEF Types, Enqueue, workerVars
  <2>2. CASE call[c].item # <<>>
    <3>1. log' \in Seq(Payloads) /\ Len(log) + 1 \in Nat
      BY <1>1, <1>4, <2>2, LogGrows
    <3>2. chan' = Append(chan, [task |-> Len(log) + 1]) /\ [task |-> Len(log) + 1] \in Item
      BY <1>4, <2>2, <3>1 DEF Enqueue, Item
    <3>3. chan' \in Seq(Item)
      BY <1>1, <3>2, AppendProperties DEF Types
    <3> QED
      BY <1>1, <1>4, <3>1, <3>3 DEF Types, Enqueue, workerVars
  <2> QED
    BY <2>1, <2>2
<1>5. ASSUME NEW c \in Caller, FlushReturns(c)  PROVE Types'
  BY <1>1, <1>5 DEF Types, FlushReturns, workerVars
<1>6. ASSUME NEW c \in Caller, Cancel(c)  PROVE Types'
  BY <1>1, <1>6 DEF Types, Cancel, workerVars
<1>7. ASSUME AckFirst  PROVE Types'
  <2>1. chan' \in Seq(Item)
    BY <1>1, <1>7, ItemOut DEF Types, AckFirst
  <2>2. errors' \subseteq Nat
    BY <1>1, <1>7 DEF Types, AckFirst, Deliver
  <2> QED
    BY <1>1, <1>7, <2>1, <2>2 DEF Types, AckFirst
<1>8. ASSUME TakeFirst  PROVE Types'
  <2>1. CASE carried # <<>>
    <3>1. batch' = carried /\ carried' = <<>> /\ UNCHANGED chan
      BY <1>8, <2>1 DEF TakeFirst
    <3>2. batch' \in Seq(Nat) /\ carried' \in Seq(Nat)
      BY <1>1, <3>1 DEF Types
    <3> QED
      BY <1>1, <1>8, <3>1, <3>2 DEF Types, TakeFirst
  <2>2. CASE carried = <<>>
    <3>1. chan' \in Seq(Item) /\ Head(chan) \in Item /\ ~IsFlush(Head(chan))
      BY <1>1, <1>8, <2>2, ItemOut DEF Types, TakeFirst
    <3>2. Head(chan).task \in Nat
      BY <3>1, ItemFacts
    <3>3. batch' = <<Head(chan).task>> /\ UNCHANGED carried
      BY <1>8, <2>2 DEF TakeFirst
    <3>4. batch' \in Seq(Nat)
      BY <3>2, <3>3
    <3> QED
      BY <1>1, <1>8, <3>1, <3>3, <3>4 DEF Types, TakeFirst
  <2> QED
    BY <2>1, <2>2
<1>9. ASSUME Collect  PROVE Types'
  <2>1. PICK x \in Item : x = Head(chan)
    BY <1>1, <1>9, ItemOut DEF Types, Collect
  <2>2. chan' \in Seq(Item)
    BY <1>1, <1>9, ItemOut DEF Types, Collect
  <2>3. CASE IsFlush(x)
    <3>1. x.flush \in Caller
      BY <2>3, ItemFacts
    <3> QED
      BY <1>1, <1>9, <2>1, <2>2, <2>3, <3>1 DEF Types, Collect
  <2>4. CASE ~IsFlush(x)
    <3>1. x.task \in Nat
      BY <2>4, ItemFacts
    <3>2. <<x.task>> \in Seq(Nat) /\ Append(batch, x.task) \in Seq(Nat)
      BY <1>1, <3>1, AppendProperties DEF Types
    <3> QED
      BY <1>1, <1>9, <2>1, <2>2, <2>4, <3>2 DEF Types, Collect
  <2> QED
    BY <2>3, <2>4
<1>10. ASSUME CloseBatch  PROVE Types'
  BY <1>1, <1>10 DEF Types, CloseBatch
<1>11. ASSUME Transact  PROVE Types'
  <2>1. Range(batch) \subseteq Nat /\ Len(batch) \in Nat
    BY <1>1 DEF Types, Range
  <2>2. errors' \subseteq Nat
    BY <1>1, <1>11, <2>1 DEF Types, Transact
  <2>4. settled' \in Nat
    BY <1>1, <1>11, <2>1 DEF Types, Transact
  <2>3. batch' \in Seq(Nat)
    BY <1>11 DEF Transact
  <2> QED
    BY <1>1, <1>11, <2>2, <2>3, <2>4 DEF Types, Transact
<1>12. ASSUME AckBatch  PROVE Types'
  <2>1. errors' \subseteq Nat
    BY <1>1, <1>12 DEF Types, AckBatch, Deliver
  <2> QED
    BY <1>1, <1>12, <2>1 DEF Types, AckBatch
<1>13. ASSUME UNCHANGED vars  PROVE Types'
  BY <1>1, <1>13 DEF Types, vars
<1> QED
  BY <1>2, <1>3, <1>4, <1>5, <1>6, <1>7, <1>8, <1>9, <1>10, <1>11, <1>12, <1>13
     DEF Next, Work, Proceed, Quiet

\* The worker holds tasks only while it collects, waits for the lease and answers.
LEMMA WhereKept ==
  ASSUME IInv, [Next]_vars
  PROVE  Where'
<1>1. Types /\ Where
  BY DEF IInv
<1>2. ASSUME NEW c \in Caller,
             Submit(c) \/ CallFlush(c) \/ Enqueue(c) \/ FlushReturns(c) \/ Cancel(c)
      PROVE  UNCHANGED <<worker, batch, carried, ack>>
  BY <1>2 DEF Submit, CallFlush, Enqueue, FlushReturns, Cancel, workerVars
<1>3. ASSUME AckFirst \/ UNCHANGED vars  PROVE UNCHANGED <<worker, batch, carried, ack>>
  BY <1>3 DEF AckFirst, vars
<1>4. ASSUME UNCHANGED <<worker, batch, carried, ack>>  PROVE Where'
  BY <1>1, <1>4 DEF Where
<1>5. ASSUME TakeFirst  PROVE Where'
  <2>1. carried' = <<>> /\ worker' = "collect" /\ ack' = None
    BY <1>1, <1>5 DEF Where, TakeFirst
  <2> QED
    BY <2>1 DEF Where
<1>6. ASSUME Collect  PROVE Where'
  <2>1. PICK x \in Item : x = Head(chan)
    BY <1>1, <1>6, ItemOut DEF Types, Collect
  <2>2. carried = <<>> /\ ack = None /\ worker = "collect"
    BY <1>1, <1>6 DEF Where, Collect
  <2>3. CASE IsFlush(x)
    <3>1. ack' = x.flush /\ worker' = "lease" /\ carried' = <<>>
      BY <1>6, <2>1, <2>2, <2>3 DEF Collect
    <3> QED
      BY <3>1 DEF Where
  <2>4. CASE ~IsFlush(x)
    <3>1. CASE TooMuch(Count(log[x.task]))
      <4>1. worker' = "lease" /\ carried' = <<x.task>>
        BY <1>6, <2>1, <2>4, <3>1 DEF Collect
      <4> QED
        BY <4>1 DEF Where
    <3>2. CASE ~TooMuch(Count(log[x.task]))
      <4>1. UNCHANGED <<worker, carried, ack>>
        BY <1>6, <2>1, <2>4, <3>2 DEF Collect
      <4> QED
        BY <2>2, <4>1 DEF Where
    <3> QED
      BY <3>1, <3>2
  <2> QED
    BY <2>3, <2>4
<1>7. ASSUME CloseBatch  PROVE Where'
  BY <1>1, <1>7 DEF Where, CloseBatch
<1>8. ASSUME Transact  PROVE Where'
  BY <1>1, <1>8 DEF Where, Transact
<1>9. ASSUME AckBatch  PROVE Where'
  BY <1>1, <1>9 DEF Where, AckBatch
<1> QED
  BY <1>2, <1>3, <1>4, <1>5, <1>6, <1>7, <1>8, <1>9 DEF Next, Work, Proceed, Quiet

-----------------------------------------------------------------------------
(* The tasks in the channel.                                               *)

\* A flush that comes in changes nothing of them.
LEMMA FlushIn ==
  ASSUME chan \in Seq(Item), NEW c \in Caller, chan' = Append(chan, [flush |-> c]),
         NEW a \in Nat, NEW b \in Nat, InOrder(a, b)
  PROVE  InOrder(a, b)'
<1> DEFINE x == [flush |-> c]
<1>1. x \in Item /\ IsFlush(x)
  BY NewItems
<1> HIDE DEF x
<1>2. chan' = Append(chan, x)
  BY DEF x
<1>3. /\ \A i \in 1 .. Len(chan') :
           TaskAt(i)' => i \in 1 .. Len(chan) /\ TaskAt(i) /\ chan'[i] = chan[i]
      /\ \A i \in 1 .. Len(chan) :
           TaskAt(i) => i \in 1 .. Len(chan') /\ TaskAt(i)' /\ chan'[i] = chan[i]
  BY <1>1, <1>2, ItemIn DEF TaskAt, IsFlush
<1> QED
  BY <1>3 DEF InOrder

\* A task that comes in is the last one.
LEMMA TaskIn ==
  ASSUME chan \in Seq(Item), NEW a \in Nat, NEW b \in Nat, a <= b, InOrder(a, b),
         chan' = Append(chan, [task |-> b + 1])
  PROVE  InOrder(a, b + 1)'
<1> DEFINE x == [task |-> b + 1]
<1>0. PICK new \in Nat : new = Len(chan) + 1
  OBVIOUS
<1>1. x \in Item /\ ~IsFlush(x) /\ x.task = b + 1
  BY NewItems
<1> HIDE DEF x
<1>2. chan' = Append(chan, x)
  BY DEF x
<1>3. /\ Len(chan) \in Nat
      /\ new \in 1 .. Len(chan') /\ chan'[new] = x
      /\ \A i \in 1 .. Len(chan') : (i \in 1 .. Len(chan) /\ chan'[i] = chan[i]) \/ i = new
      /\ \A i \in 1 .. Len(chan) : i \in 1 .. Len(chan') /\ chan'[i] = chan[i]
  BY <1>0, <1>1, <1>2, ItemIn
<1>7. \A i \in 1 .. Len(chan) : i < new
  BY <1>0, <1>3
<1>8. TaskAt(new)' /\ chan'[new].task = b + 1
  BY <1>1, <1>3 DEF TaskAt, IsFlush
<1>9. \A i \in 1 .. Len(chan) : TaskAt(i)' <=> TaskAt(i)
  BY <1>3 DEF TaskAt, IsFlush
<1>10. Len(chan') = Len(chan) + 1
  BY <1>1, <1>2, ItemIn
<1>4. ASSUME NEW i \in 1 .. Len(chan'), TaskAt(i)'
      PROVE  chan'[i].task \in a + 1 .. b + 1
  BY <1>3, <1>4, <1>8, <1>9 DEF InOrder
<1>5. ASSUME NEW n \in a + 1 .. b + 1
      PROVE  \E i \in 1 .. Len(chan') : TaskAt(i)' /\ chan'[i].task = n
  <2>1. CASE n \in a + 1 .. b
    <3>1. PICK i \in 1 .. Len(chan) : TaskAt(i) /\ chan[i].task = n
      BY <2>1 DEF InOrder
    <3> QED
      BY <1>3, <1>9, <3>1
  <2>2. CASE n = b + 1
    BY <1>3, <1>8, <2>2
  <2> QED
    BY <2>1, <2>2
<1>6. ASSUME NEW i \in 1 .. Len(chan'), NEW j \in 1 .. Len(chan'), i < j, TaskAt(i)', TaskAt(j)'
      PROVE  chan'[i].task < chan'[j].task
  <2>1. i \in 1 .. Len(chan)
    BY <1>3, <1>6, <1>10
  <2>2. TaskAt(i) /\ chan'[i] = chan[i] /\ chan[i].task \in a + 1 .. b
    BY <1>3, <1>6, <1>9, <2>1 DEF InOrder
  <2>3. CASE j = new
    BY <1>8, <2>2, <2>3
  <2>4. CASE j # new
    BY <1>3, <1>6, <1>9, <2>1, <2>2, <2>4 DEF InOrder
  <2> QED
    BY <2>3, <2>4
<1> QED
  BY <1>4, <1>5, <1>6 DEF InOrder

\* A flush that goes out changes nothing of them.
LEMMA FlushOut ==
  ASSUME chan \in Seq(Item), chan # <<>>, chan' = Tail(chan), IsFlush(Head(chan)),
         NEW a \in Nat, NEW b \in Nat, InOrder(a, b)
  PROVE  InOrder(a, b)'
<1>1. /\ \A i \in 1 .. Len(chan') : /\ i \in Nat /\ i + 1 \in 1 .. Len(chan)
                                    /\ chan'[i] = chan[i + 1] /\ TaskAt(i)' = TaskAt(i + 1)
      /\ \A i \in 1 .. Len(chan) : TaskAt(i) => /\ i - 1 \in 1 .. Len(chan') /\ TaskAt(i - 1)'
                                                /\ chan'[i - 1] = chan[i]
  BY ItemOut DEF TaskAt, IsFlush
<1>2. ASSUME NEW i \in 1 .. Len(chan'), TaskAt(i)'
      PROVE  chan'[i].task \in a + 1 .. b
  BY <1>1, <1>2 DEF InOrder
<1>3. ASSUME NEW n \in a + 1 .. b
      PROVE  \E i \in 1 .. Len(chan') : TaskAt(i)' /\ chan'[i].task = n
  BY <1>1 DEF InOrder
<1>4. ASSUME NEW i \in 1 .. Len(chan'), NEW j \in 1 .. Len(chan'), i < j, TaskAt(i)', TaskAt(j)'
      PROVE  chan'[i].task < chan'[j].task
  <2>1. i + 1 < j + 1
    BY <1>1, <1>4
  <2> QED
    BY <1>1, <1>4, <2>1 DEF InOrder
<1> QED
  BY <1>2, <1>3, <1>4 DEF InOrder

\* A task that goes out is the first one.
LEMMA TaskOut ==
  ASSUME chan \in Seq(Item), chan # <<>>, chan' = Tail(chan), ~IsFlush(Head(chan)),
         NEW a \in Nat, NEW b \in Nat, InOrder(a, b)
  PROVE  Head(chan).task = a + 1 /\ a + 1 <= b /\ InOrder(a + 1, b)'
<1>1. /\ \A i \in 1 .. Len(chan') : /\ i \in Nat /\ i + 1 \in 1 .. Len(chan)
                                    /\ chan'[i] = chan[i + 1] /\ TaskAt(i)' = TaskAt(i + 1)
      /\ \A i \in 1 .. Len(chan) :
           TaskAt(i) /\ i # 1 =>
             i - 1 \in 1 .. Len(chan') /\ TaskAt(i - 1)' /\ chan'[i - 1] = chan[i]
      /\ 1 \in 1 .. Len(chan) /\ TaskAt(1) /\ Head(chan) = chan[1]
      /\ \A i \in 1 .. Len(chan) : i # 1 => 1 < i
  BY ItemOut DEF TaskAt, IsFlush
<1>2. chan[1].task \in a + 1 .. b
  BY <1>1 DEF InOrder
<1>3. PICK k \in 1 .. Len(chan) : TaskAt(k) /\ chan[k].task = a + 1
  BY <1>2 DEF InOrder
<1>4. k = 1
  <2>1. ASSUME k # 1  PROVE FALSE
    <3>1. 1 < k
      BY <1>1, <2>1
    <3>2. chan[1].task < chan[k].task
      BY <1>1, <1>3, <3>1 DEF InOrder
    <3> QED
      BY <1>2, <1>3, <3>2
  <2> QED
    BY <2>1
<1>5. ASSUME NEW i \in 1 .. Len(chan'), TaskAt(i)'
      PROVE  chan'[i].task \in a + 1 + 1 .. b
  <2>1. i + 1 \in 1 .. Len(chan) /\ TaskAt(i + 1) /\ 1 < i + 1 /\ chan'[i] = chan[i + 1]
    BY <1>1, <1>5
  <2>2. chan[i + 1].task \in a + 1 .. b /\ chan[1].task < chan[i + 1].task
    BY <1>1, <2>1 DEF InOrder
  <2> QED
    BY <1>3, <1>4, <2>1, <2>2
<1>6. ASSUME NEW n \in a + 1 + 1 .. b
      PROVE  \E i \in 1 .. Len(chan') : TaskAt(i)' /\ chan'[i].task = n
  <2>1. n \in a + 1 .. b /\ n # a + 1
    OBVIOUS
  <2>2. PICK i \in 1 .. Len(chan) : TaskAt(i) /\ chan[i].task = n
    BY <2>1 DEF InOrder
  <2>3. i # 1
    BY <1>3, <1>4, <2>1, <2>2
  <2> QED
    BY <1>1, <2>2, <2>3
<1>7. ASSUME NEW i \in 1 .. Len(chan'), NEW j \in 1 .. Len(chan'), i < j, TaskAt(i)', TaskAt(j)'
      PROVE  chan'[i].task < chan'[j].task
  <2>1. i + 1 < j + 1
    BY <1>1, <1>7
  <2> QED
    BY <1>1, <1>7, <2>1 DEF InOrder
<1>8. InOrder(a + 1, b)'
  BY <1>5, <1>6, <1>7 DEF InOrder
<1> QED
  BY <1>1, <1>2, <1>3, <1>4, <1>8

\* The bounds of the tasks in the channel, by their values.
LEMMA Bounds ==
  ASSUME NEW a \in Nat, NEW b \in Nat, a = (settled + Held)', b = Len(log'), InOrder(a, b)'
  PROVE  InOrder(settled + Held, Len(log))'
  BY DEF InOrder, TaskAt

\* The tasks are worked off in order.
LEMMA OrderKept ==
  ASSUME IInv, [Next]_vars
  PROVE  Order'
<1>1. Types /\ Where /\ Order /\ Types'
  BY TypesKept DEF IInv
<1>2. /\ Len(batch) \in Nat /\ Len(carried) \in Nat /\ Len(log) \in Nat /\ Held \in Nat
      /\ settled + Held \in Nat
  BY <1>1 DEF Types, Held
<1>11. PICK a \in Nat, b \in Nat : a = settled + Held /\ b = Len(log)
  BY <1>2
<1>12. InOrder(a, b) /\ a <= b
  BY <1>1, <1>11 DEF Order, InOrder
<1>3. ASSUME NEW c \in Caller, Enqueue(c)  PROVE Order'
  <2>1. UNCHANGED <<batch, carried, settled>>
    BY <1>3 DEF Enqueue, workerVars
  <2>2. CASE call[c].item = <<>>
    <3>1. chan' = Append(chan, [flush |-> c]) /\ UNCHANGED log
      BY <1>3, <2>2 DEF Enqueue
    <3>2. InOrder(settled + Held, Len(log))'
      <4>1. InOrder(a, b)'
        BY <1>1, <1>12, <3>1, FlushIn DEF Types
      <4>2. a = (settled + Held)' /\ b = Len(log')
        BY <1>11, <2>1, <3>1 DEF Held
      <4> QED
        BY <4>1, <4>2, Bounds
    <3> QED
      BY <1>1, <2>1, <3>1, <3>2 DEF Order, Held
  <2>3. CASE call[c].item # <<>>
    <3>1. chan' = Append(chan, [task |-> Len(log) + 1]) /\ Len(log') = Len(log) + 1
      BY <1>1, <1>3, <2>3, LogGrows DEF Enqueue
    <3>2. InOrder(settled + Held, Len(log))'
      <4>1. InOrder(a, b + 1)'
        BY <1>1, <1>11, <1>12, <3>1, TaskIn DEF Types
      <4>2. a = (settled + Held)' /\ b + 1 = Len(log')
        BY <1>11, <2>1, <3>1 DEF Held
      <4> QED
        BY <4>1, <4>2, Bounds
    <3> QED
      BY <1>1, <1>2, <2>1, <3>1, <3>2 DEF Order, Held
  <2> QED
    BY <2>2, <2>3
<1>4. ASSUME AckFirst  PROVE Order'
  <2>1. UNCHANGED <<batch, carried, settled, log>>
    BY <1>4 DEF AckFirst
  <2>2. InOrder(a, b)'
    BY <1>1, <1>4, <1>12, FlushOut DEF Types, AckFirst
  <2>4. a = (settled + Held)' /\ b = Len(log')
    BY <1>11, <2>1 DEF Held
  <2>3. InOrder(settled + Held, Len(log))'
    BY <2>2, <2>4, Bounds
  <2> QED
    BY <1>1, <2>1, <2>3 DEF Order, Held
<1>5. ASSUME TakeFirst  PROVE Order'
  <2>1. UNCHANGED <<settled, log>> /\ batch = <<>>
    BY <1>1, <1>5 DEF TakeFirst, Where
  <2>2. CASE carried # <<>>
    <3>1. batch' = carried /\ carried' = <<>> /\ UNCHANGED chan
      BY <1>5, <2>2 DEF TakeFirst
    <3>2. Held' = Held /\ Len(batch) = 0
      BY <1>2, <2>1, <3>1 DEF Held
    <3>3. InOrder(settled + Held, Len(log))'
      BY <1>1, <2>1, <3>1, <3>2 DEF Order, InOrder, TaskAt
    <3> QED
      BY <1>1, <1>2, <2>1, <3>1, <3>2, <3>3 DEF Order, Types
  <2>3. CASE carried = <<>>
    <3>1. PICK n : n = Head(chan).task
      OBVIOUS
    <3>2. batch' = <<n>> /\ UNCHANGED carried
      BY <1>5, <2>3, <3>1 DEF TakeFirst
    <3>3. n = a + 1 /\ a + 1 <= b /\ InOrder(a + 1, b)'
      BY <1>1, <1>5, <1>12, <2>3, <3>1, TaskOut DEF Types, TakeFirst
    <3>4. Held = 0 /\ Held' = 1 /\ Len(batch') = 1 /\ batch'[1] = n
      BY <2>1, <2>3, <3>2 DEF Held
    <3>6. n = settled + 1 /\ settled + 1 <= Len(log) /\ a + 1 = (settled + Held)' /\ b = Len(log')
      BY <1>1, <1>11, <2>1, <3>3, <3>4 DEF Types
    <3>5. InOrder(settled + Held, Len(log))'
      BY <3>3, <3>6, Bounds
    <3> QED
      BY <1>1, <1>2, <2>1, <2>3, <3>2, <3>4, <3>5, <3>6 DEF Order, Types
  <2> QED
    BY <2>2, <2>3
<1>6. ASSUME Collect  PROVE Order'
  <2>1. UNCHANGED <<settled, log>> /\ carried = <<>> /\ Len(carried) = 0
    BY <1>1, <1>6 DEF Collect, Where
  <2>2. CASE IsFlush(Head(chan))
    <3>1. UNCHANGED <<batch, carried>>
      BY <1>6, <2>2 DEF Collect
    <3>2. InOrder(a, b)'
      BY <1>1, <1>6, <1>12, <2>2, FlushOut DEF Types, Collect
    <3>4. a = (settled + Held)' /\ b = Len(log')
      BY <1>11, <2>1, <3>1 DEF Held
    <3>3. InOrder(settled + Held, Len(log))'
      BY <3>2, <3>4, Bounds
    <3> QED
      BY <1>1, <2>1, <3>1, <3>3 DEF Order, Held
  <2>3. CASE ~IsFlush(Head(chan))
    <3>1. PICK n : n = Head(chan).task
      OBVIOUS
    <3>2. n = a + 1 /\ a + 1 <= b /\ InOrder(a + 1, b)'
      BY <1>1, <1>6, <1>12, <2>3, <3>1, TaskOut DEF Types, Collect
    <3>3. n = settled + Held + 1 /\ n <= Len(log) /\ Held = Len(batch) /\ n \in Nat
      BY <1>1, <1>2, <1>11, <2>1, <3>2 DEF Held
    <3>4. \/ carried' = <<n>> /\ UNCHANGED batch
          \/ batch' = Append(batch, n) /\ UNCHANGED carried
      BY <1>6, <2>3, <3>1 DEF Collect
    <3>9. Len(<<n>>) = 1 /\ Len(Append(batch, n)) = Len(batch) + 1
      BY <1>1, <3>3, AppendProperties DEF Types
    <3>5. Held' = Held + 1
      <4>1. Len(batch') + Len(carried') = Len(batch) + Len(carried) + 1
        <5>1. CASE carried' = <<n>> /\ UNCHANGED batch
          <6>1. Len(carried') = 1 /\ Len(batch') = Len(batch)
            BY <3>9, <5>1
          <6> QED
            BY <1>2, <2>1, <6>1
        <5>2. CASE batch' = Append(batch, n) /\ UNCHANGED carried
          <6>1. Len(batch') = Len(batch) + 1 /\ Len(carried') = Len(carried)
            BY <3>9, <5>2
          <6> QED
            BY <1>2, <6>1
        <5> QED
          BY <3>4, <5>1, <5>2
      <4> QED
        BY <1>2, <4>1 DEF Held
    <3>10. a + 1 = (settled + Held)' /\ b = Len(log')
      BY <1>1, <1>2, <1>11, <2>1, <3>5 DEF Types
    <3>6. InOrder(settled + Held, Len(log))'
      BY <3>2, <3>10, Bounds
    <3>11. (settled + Held)' <= Len(log')
      BY <1>11, <3>2, <3>10
    <3>7. CASE carried' = <<n>> /\ UNCHANGED batch
      <4>1. \A i \in 1 .. Len(batch') : batch'[i] = settled' + i
        BY <1>1, <2>1, <3>7 DEF Order
      <4>2. \A i \in 1 .. Len(carried') : carried'[i] = settled' + Len(batch') + i
        BY <1>1, <1>2, <2>1, <3>3, <3>7 DEF Types
      <4> QED
        BY <3>6, <3>11, <4>1, <4>2 DEF Order
    <3>8. CASE batch' = Append(batch, n) /\ UNCHANGED carried
      <4>1. /\ Len(batch') = Len(batch) + 1 /\ batch'[Len(batch) + 1] = n
            /\ \A i \in 1 .. Len(batch) : batch'[i] = batch[i]
        BY <1>1, <3>3, <3>8, AppendProperties DEF Types
      <4>4. n = settled + (Len(batch) + 1)
        BY <1>1, <1>2, <3>3 DEF Types
      <4>2. ASSUME NEW i \in 1 .. Len(batch')  PROVE batch'[i] = settled' + i
        <5>1. i \in 1 .. Len(batch) \/ i = Len(batch) + 1
          BY <1>2, <4>1
        <5> QED
          BY <1>1, <2>1, <4>1, <4>4, <5>1 DEF Order
      <4>3. \A i \in 1 .. Len(carried') : carried'[i] = settled' + Len(batch') + i
        BY <2>1, <3>8
      <4> QED
        BY <3>6, <3>11, <4>2, <4>3 DEF Order
    <3> QED
      BY <3>4, <3>7, <3>8
  <2> QED
    BY <2>2, <2>3
<1>7. ASSUME Transact  PROVE Order'
  <2>1. settled' = settled + Len(batch) /\ batch' = <<>> /\ UNCHANGED <<chan, carried, log>>
    BY <1>7 DEF Transact
  <2>2. (settled + Held)' = settled + Held /\ Len(batch') = 0
    BY <1>1, <1>2, <2>1 DEF Held, Types
  <2>3. InOrder(settled + Held, Len(log))'
    BY <1>1, <2>1, <2>2 DEF Order, InOrder, TaskAt
  <2> QED
    BY <1>1, <1>2, <2>1, <2>2, <2>3 DEF Order, Types
<1>8. ASSUME NEW c \in Caller, Submit(c) \/ CallFlush(c) \/ FlushReturns(c) \/ Cancel(c)
      PROVE  UNCHANGED <<chan, batch, carried, settled, log>>
  BY <1>8 DEF Submit, CallFlush, FlushReturns, Cancel, workerVars
<1>9. ASSUME CloseBatch \/ AckBatch \/ UNCHANGED vars
      PROVE  UNCHANGED <<chan, batch, carried, settled, log>>
  BY <1>9 DEF CloseBatch, AckBatch, vars
<1>10. ASSUME UNCHANGED <<chan, batch, carried, settled, log>>  PROVE Order'
  BY <1>1, <1>10 DEF Order, Held, InOrder, TaskAt
<1> QED
  BY <1>3, <1>4, <1>5, <1>6, <1>7, <1>8, <1>9, <1>10 DEF Next, Work, Proceed, Quiet

-----------------------------------------------------------------------------
(* Steps of the callers, and the items of the channel.                     *)

\* A caller that does not reach the channel changes only its own call.
LEMMA CallerStep ==
  ASSUME CallTypes, NEW c \in Caller, Submit(c) \/ CallFlush(c) \/ FlushReturns(c) \/ Cancel(c)
  PROVE  /\ UNCHANGED <<chan, log, ack, worker, batch, carried, settled, errors, failed, told>>
         /\ \A d \in Caller :
              \/ call'[d] = call[d]
              \/ call[d].pc \in {"idle", "answered"} /\ call'[d].pc \in {"idle", "send"}
              \/ call'[d].pc = "gone"
<1>1. UNCHANGED <<chan, log, ack, worker, batch, carried, settled, errors, failed, told>>
  BY DEF Submit, CallFlush, FlushReturns, Cancel, workerVars
<1>2. ASSUME NEW r, NEW pc, r.pc = pc, call' = [call EXCEPT ![c] = r], NEW d \in Caller
      PROVE  call'[d] = call[d] \/ (d = c /\ call'[d].pc = pc)
  <2>1. call'[d] = IF d = c THEN r ELSE call[d]
    BY <1>2 DEF CallTypes
  <2>2. ASSUME d = c  PROVE call'[d].pc = pc
    BY <1>2, <2>1, <2>2, Zenon
  <2>3. ASSUME d # c  PROVE call'[d] = call[d]
    BY <2>1, <2>3
  <2> QED
    BY <2>2, <2>3
<1>3. ASSUME Submit(c) \/ CallFlush(c), NEW d \in Caller
      PROVE  call'[d] = call[d] \/ (call[d].pc = "idle" /\ call'[d].pc = "send")
  <2>1. \E v : call' = [call EXCEPT ![c] = [Idle EXCEPT !.pc = "send", !.item = v]]
    \/ call' = [call EXCEPT ![c] = [Idle EXCEPT !.pc = "send"]]
    BY <1>3 DEF Submit, CallFlush
  <2>2. /\ \A v : [Idle EXCEPT !.pc = "send", !.item = v].pc = "send"
        /\ [Idle EXCEPT !.pc = "send"].pc = "send"
    BY DEF Idle
  <2>3. PICK r : call' = [call EXCEPT ![c] = r] /\ r.pc = "send"
    BY <2>1, <2>2
  <2>4. call[c].pc = "idle"
    BY <1>3 DEF Submit, CallFlush
  <2> QED
    BY <1>2, <2>3, <2>4
<1>4. ASSUME FlushReturns(c), NEW d \in Caller
      PROVE  call'[d] = call[d] \/ (call[d].pc = "answered" /\ call'[d].pc = "idle")
  <2>1. call[c].pc = "answered" /\ call' = [call EXCEPT ![c] = Idle] /\ Idle.pc = "idle"
    BY <1>4 DEF FlushReturns, Idle
  <2> QED
    BY <1>2, <2>1
<1>5. ASSUME Cancel(c), NEW d \in Caller
      PROVE  call'[d] = call[d] \/ call'[d].pc = "gone"
  BY <1>5 DEF Cancel, CallTypes, Idle
<1> QED
  BY <1>1, <1>3, <1>4, <1>5

\* A caller that reaches the channel: its flush waits for what is in the log,
\* its task is the last of the log.
LEMMA EnqueueStep ==
  ASSUME Types, NEW c \in Caller, Enqueue(c)
  PROVE  /\ UNCHANGED <<ack, worker, batch, carried, settled, errors, failed, told>>
         /\ call[c].pc = "send"
         /\ \A d \in Caller : d # c => call'[d] = call[d]
         /\ \/ /\ chan' = Append(chan, [flush |-> c]) /\ UNCHANGED log
               /\ call'[c].pc = "wait" /\ call'[c].after = Len(log)
            \/ /\ chan' = Append(chan, [task |-> Len(log) + 1]) /\ Len(log') = Len(log) + 1
               /\ call'[c].pc = "idle"
<1>1. /\ UNCHANGED <<ack, worker, batch, carried, settled, errors, failed, told>>
      /\ call[c].pc = "send"
  BY DEF Enqueue, workerVars
<1>2. CASE call[c].item = <<>>
  BY <1>1, <1>2 DEF Enqueue, Types, CallTypes, Idle
<1>3. CASE call[c].item # <<>>
  <2>1. Len(log') = Len(log) + 1
    BY <1>3, LogGrows
  <2> QED
    BY <1>1, <1>3, <2>1 DEF Enqueue, Types, CallTypes, Idle
<1> QED
  BY <1>2, <1>3

\* An answer is sent to a caller that waits, with all failures; otherwise nothing happens.
LEMMA DeliverStep ==
  ASSUME CallTypes, NEW c \in Caller, Deliver(c)
  PROVE  \/ /\ call[c].pc = "wait" /\ call'[c].pc = "answered"
            /\ call'[c].after = call[c].after /\ call'[c].err = errors
            /\ told' = told \cup errors /\ errors' = {}
            /\ \A d \in Caller : d # c => call'[d] = call[d]
         \/ call[c].pc # "wait" /\ UNCHANGED <<call, told, errors>>
<1>1. CASE call[c].pc = "wait"
  BY <1>1 DEF Deliver, CallTypes, Calls
<1>2. CASE call[c].pc # "wait"
  BY <1>2 DEF Deliver
<1> QED
  BY <1>1, <1>2

\* An item comes in: the others keep their places.
LEMMA ItemsIn ==
  ASSUME chan \in Seq(Item), NEW x \in Item, chan' = Append(chan, x), NEW c \in Caller
  PROVE  \A i \in 1 .. Len(chan') :
           /\ i \in Nat
           /\ \/ /\ i \in 1 .. Len(chan) /\ chan'[i] = chan[i]
                 /\ (FlushOf(c, i)' <=> FlushOf(c, i)) /\ (TaskAt(i)' <=> TaskAt(i))
              \/ /\ i = Len(chan) + 1 /\ chan'[i] = x
                 /\ (FlushOf(c, i)' <=> IsFlush(x) /\ x.flush = c) /\ (TaskAt(i)' <=> ~IsFlush(x))
<1> TAKE i \in 1 .. Len(chan')
<1>1. (i \in 1 .. Len(chan) /\ chan'[i] = chan[i]) \/ (i = Len(chan) + 1 /\ chan'[i] = x)
  BY ItemIn
<1>2. i \in Nat
  BY <1>1, ItemIn
<1>4. chan'[i] = chan[i] => (FlushOf(c, i)' <=> FlushOf(c, i)) /\ (TaskAt(i)' <=> TaskAt(i))
  BY DEF FlushOf, TaskAt, IsFlush
<1>5. chan'[i] = x => (FlushOf(c, i)' <=> IsFlush(x) /\ x.flush = c) /\ (TaskAt(i)' <=> ~IsFlush(x))
  BY DEF FlushOf, TaskAt, IsFlush
<1> QED
  BY <1>1, <1>2, <1>4, <1>5

\* An item goes out: the others move up.
LEMMA ItemsOut ==
  ASSUME chan \in Seq(Item), chan # <<>>, chan' = Tail(chan), NEW c \in Caller
  PROVE  /\ \A i \in 1 .. Len(chan') :
              /\ i \in Nat /\ i + 1 \in 1 .. Len(chan) /\ i + 1 # 1 /\ chan'[i] = chan[i + 1]
              /\ (FlushOf(c, i)' <=> FlushOf(c, i + 1)) /\ (TaskAt(i)' <=> TaskAt(i + 1))
         /\ 1 \in 1 .. Len(chan)
         /\ FlushOf(c, 1) <=> IsFlush(Head(chan)) /\ Head(chan).flush = c
<1>1. ASSUME NEW i \in 1 .. Len(chan')
      PROVE  /\ i \in Nat /\ i + 1 \in 1 .. Len(chan) /\ i + 1 # 1 /\ chan'[i] = chan[i + 1]
             /\ (FlushOf(c, i)' <=> FlushOf(c, i + 1)) /\ (TaskAt(i)' <=> TaskAt(i + 1))
  <2>1. i \in Nat /\ i + 1 \in 1 .. Len(chan) /\ chan'[i] = chan[i + 1]
    BY ItemOut
  <2>2. i + 1 # 1
    BY <2>1, ItemOut
  <2>3. (FlushOf(c, i)' <=> FlushOf(c, i + 1)) /\ (TaskAt(i)' <=> TaskAt(i + 1))
    BY <2>1 DEF FlushOf, TaskAt, IsFlush
  <2> QED
    BY <2>1, <2>2, <2>3
<1>2. 1 \in 1 .. Len(chan) /\ Head(chan) = chan[1]
  BY ItemOut
<1> QED
  BY <1>1, <1>2 DEF FlushOf

-----------------------------------------------------------------------------
(* The flushes under way.                                                  *)

\* The flushes of a caller when the first item goes out.
LEMMA FlushesOut ==
  ASSUME Types, Waiting, chan # <<>>, chan' = Tail(chan), NEW c \in Caller
  PROVE  /\ call[c].pc \in {"idle", "send", "answered"} =>
              \A i \in 1 .. Len(chan') : ~FlushOf(c, i)'
         /\ call[c].pc = "wait" =>
              /\ call[c].after <= Len(log)
              /\ \A i, j \in 1 .. Len(chan') : FlushOf(c, i)' /\ FlushOf(c, j)' => i = j
              /\ IsFlush(Head(chan)) /\ Head(chan).flush = c =>
                   \A i \in 1 .. Len(chan') : ~FlushOf(c, i)'
<1>1. /\ \A i \in 1 .. Len(chan') : /\ i \in Nat /\ i + 1 \in 1 .. Len(chan) /\ i + 1 # 1
                                    /\ (FlushOf(c, i)' <=> FlushOf(c, i + 1))
      /\ 1 \in 1 .. Len(chan) /\ (FlushOf(c, 1) <=> IsFlush(Head(chan)) /\ Head(chan).flush = c)
  BY ItemsOut DEF Types
<1>2. ASSUME call[c].pc = "wait", NEW i \in 1 .. Len(chan'), NEW j \in 1 .. Len(chan'),
             FlushOf(c, i)', FlushOf(c, j)'
      PROVE  i = j
  <2>1. i + 1 = j + 1 /\ i \in Nat /\ j \in Nat
    BY <1>1, <1>2 DEF Waiting, WaitingOf
  <2> QED
    BY <2>1
<1> QED
  BY <1>1, <1>2 DEF Waiting, WaitingOf

\* A waiting caller has one flush under way, and the others none.
LEMMA WaitingKept ==
  ASSUME IInv, [Next]_vars
  PROVE  Waiting'
<1>1. Types /\ CallTypes /\ Where /\ Waiting /\ NoneAssumption
  BY NoneAssumption DEF IInv, Types
<1>2. Len(chan) \in Nat /\ Len(log) \in Nat
  BY <1>1 DEF Types
<1>3. ASSUME NEW c \in Caller, Submit(c) \/ CallFlush(c) \/ FlushReturns(c) \/ Cancel(c)
      PROVE  Waiting'
  <2>1. /\ UNCHANGED <<chan, log, ack>>
        /\ \A d \in Caller :
             \/ call'[d] = call[d]
             \/ call[d].pc \in {"idle", "answered"} /\ call'[d].pc \in {"idle", "send"}
             \/ call'[d].pc = "gone"
    BY <1>1, <1>3, CallerStep
  <2>2. \A d \in Caller, i \in 1 .. Len(chan) : FlushOf(d, i)' <=> FlushOf(d, i)
    BY <2>1 DEF FlushOf, IsFlush
  <2> QED
    BY <1>1, <2>1, <2>2 DEF Waiting, WaitingOf
<1>4. ASSUME NEW c \in Caller, Enqueue(c)  PROVE Waiting'
  <2>1. /\ UNCHANGED ack /\ call[c].pc = "send"
        /\ \A d \in Caller : d # c => call'[d] = call[d]
    BY <1>1, <1>4, EnqueueStep
  <2>2. CASE /\ chan' = Append(chan, [flush |-> c]) /\ UNCHANGED log
             /\ call'[c].pc = "wait" /\ call'[c].after = Len(log)
    <3>1. PICK x \in Item : x = [flush |-> c] /\ IsFlush(x) /\ x.flush = c
      BY NewItems
    <3>2. \A d \in Caller, i \in 1 .. Len(chan') :
            \/ i \in 1 .. Len(chan) /\ (FlushOf(d, i)' <=> FlushOf(d, i))
            \/ i = Len(chan) + 1 /\ (FlushOf(d, i)' <=> c = d)
      BY <1>1, <2>2, <3>1, ItemsIn DEF Types
    <3>3. ack # c /\ \A i \in 1 .. Len(chan) : ~FlushOf(c, i)
      BY <1>1, <2>1 DEF Waiting, WaitingOf
    <3>4. \A i \in 1 .. Len(chan') : FlushOf(c, i)' => i = Len(chan) + 1
      BY <3>2, <3>3
    <3>5. \A d \in Caller, i \in 1 .. Len(chan') :
            d # c /\ FlushOf(d, i)' => i \in 1 .. Len(chan) /\ FlushOf(d, i)
      BY <3>2
    <3> QED
      BY <1>1, <2>1, <2>2, <3>3, <3>4, <3>5 DEF Waiting, WaitingOf
  <2>3. CASE /\ chan' = Append(chan, [task |-> Len(log) + 1]) /\ Len(log') = Len(log) + 1
             /\ call'[c].pc = "idle"
    <3>4. \A n \in Nat : \E x \in Item : x = [task |-> n] /\ ~IsFlush(x) /\ x.task = n
      BY NewItems
    <3>1. PICK x \in Item : x = [task |-> Len(log) + 1] /\ ~IsFlush(x)
      BY <1>2, <3>4
    <3>2. \A d \in Caller, i \in 1 .. Len(chan') :
            FlushOf(d, i)' => i \in 1 .. Len(chan) /\ FlushOf(d, i)
      BY <1>1, <2>3, <3>1, ItemsIn DEF Types
    <3>3. \A d \in Caller : d # c /\ call[d].pc = "wait" => call[d].after <= Len(log')
      BY <1>1, <1>2, <2>3 DEF Waiting, WaitingOf, CallTypes, Calls
    <3> QED
      BY <1>1, <2>1, <2>3, <3>2, <3>3 DEF Waiting, WaitingOf
  <2> QED
    BY <1>1, <1>4, <2>2, <2>3, EnqueueStep
<1>5. ASSUME AckFirst  PROVE Waiting'
  <2>1. PICK c \in Caller : c = Head(chan).flush
    BY <1>1, <1>5, ItemOut, ItemFacts DEF Types, AckFirst
  <2>2. /\ UNCHANGED <<ack, log>> /\ Deliver(c) /\ ack = None
        /\ IsFlush(Head(chan)) /\ chan # <<>> /\ chan' = Tail(chan)
    BY <1>1, <1>5, <2>1 DEF AckFirst, Where
  <2>3. \A d \in Caller : d # c \/ call[c].pc # "wait" => call'[d] = call[d]
    BY <1>1, <2>2, DeliverStep
  <2>4. call[c].pc = "wait" =>
          call'[c].pc = "answered" /\ \A i \in 1 .. Len(chan') : ~FlushOf(c, i)'
    BY <1>1, <2>1, <2>2, DeliverStep, FlushesOut
  <2> SUFFICES ASSUME NEW d \in Caller  PROVE WaitingOf(d)'
    BY DEF Waiting
  <2>5. ack' # d
    BY <1>1, <2>2
  <2>6. CASE d = c /\ call[c].pc = "wait"
    BY <2>4, <2>5, <2>6 DEF WaitingOf
  <2>7. CASE call'[d] = call[d]
    BY <1>1, <2>2, <2>5, <2>7, FlushesOut DEF Waiting, WaitingOf
  <2> QED
    BY <2>3, <2>6, <2>7
<1>6. ASSUME TakeFirst  PROVE Waiting'
  <2>1. UNCHANGED <<call, log, ack>> /\ ack = None
    BY <1>1, <1>6 DEF TakeFirst, Where
  <2>2. CASE UNCHANGED chan
    BY <1>1, <2>1, <2>2 DEF Waiting, WaitingOf, FlushOf
  <2>3. CASE chan # <<>> /\ chan' = Tail(chan)
    <3> SUFFICES ASSUME NEW d \in Caller  PROVE WaitingOf(d)'
      BY DEF Waiting
    <3>1. ack' # d
      BY <1>1, <2>1
    <3> QED
      BY <1>1, <2>1, <2>3, <3>1, FlushesOut DEF Waiting, WaitingOf
  <2> QED
    BY <1>6, <2>2, <2>3 DEF TakeFirst
<1>7. ASSUME Collect  PROVE Waiting'
  <2>1. UNCHANGED <<call, log>> /\ ack = None /\ chan # <<>> /\ chan' = Tail(chan)
    BY <1>1, <1>7 DEF Collect, Where
  <2>2. CASE IsFlush(Head(chan))
    <3>1. PICK c \in Caller : c = Head(chan).flush
      BY <1>1, <2>1, <2>2, ItemOut, ItemFacts DEF Types
    <3>2. ack' = c
      BY <1>7, <2>2, <3>1 DEF Collect
    <3>3. FlushOf(c, 1) /\ 1 \in 1 .. Len(chan)
      BY <1>1, <2>1, <2>2, <3>1, ItemsOut DEF Types
    <3>4. call[c].pc \notin {"idle", "send", "answered"}
      BY <1>1, <3>3 DEF Waiting, WaitingOf
    <3>5. call[c].pc = "wait" => \A i \in 1 .. Len(chan') : ~FlushOf(c, i)'
      BY <1>1, <2>1, <2>2, <3>1, FlushesOut
    <3> SUFFICES ASSUME NEW d \in Caller  PROVE WaitingOf(d)'
      BY DEF Waiting
    <3> QED
      BY <1>1, <2>1, <3>2, <3>4, <3>5, FlushesOut DEF Waiting, WaitingOf
  <2>3. CASE ~IsFlush(Head(chan))
    <3>1. UNCHANGED ack
      BY <1>7, <2>3 DEF Collect
    <3> SUFFICES ASSUME NEW d \in Caller  PROVE WaitingOf(d)'
      BY DEF Waiting
    <3>2. ack' # d
      BY <1>1, <2>1, <3>1
    <3> QED
      BY <1>1, <2>1, <3>2, FlushesOut DEF Waiting, WaitingOf
  <2> QED
    BY <2>2, <2>3
<1>8. ASSUME AckBatch  PROVE Waiting'
  <2>1. /\ UNCHANGED <<chan, log>> /\ ack \in Caller /\ Deliver(ack) /\ ack' = None
    BY <1>1, <1>8 DEF AckBatch, Where, Types
  <2>2. PICK c \in Caller : c = ack /\ Deliver(c)
    BY <2>1
  <2>3. \A d \in Caller : d # c \/ call[c].pc # "wait" => call'[d] = call[d]
    BY <1>1, <2>2, DeliverStep
  <2>4. call[c].pc = "wait" => call'[c].pc = "answered" /\ \A i \in 1 .. Len(chan) : ~FlushOf(c, i)
    BY <1>1, <2>2, DeliverStep DEF Waiting, WaitingOf
  <2> SUFFICES ASSUME NEW d \in Caller  PROVE WaitingOf(d)'
    BY DEF Waiting
  <2>5. ack' # d
    BY <1>1, <2>1
  <2>6. CASE d = c /\ call[c].pc = "wait"
    BY <2>1, <2>4, <2>5, <2>6 DEF WaitingOf, FlushOf
  <2>7. CASE call'[d] = call[d]
    BY <1>1, <2>1, <2>5, <2>7 DEF Waiting, WaitingOf, FlushOf
  <2> QED
    BY <2>3, <2>6, <2>7
<1>9. ASSUME CloseBatch \/ Transact \/ UNCHANGED vars  PROVE UNCHANGED <<call, chan, log, ack>>
  BY <1>9 DEF CloseBatch, Transact, vars
<1>10. ASSUME UNCHANGED <<call, chan, log, ack>>  PROVE Waiting'
  BY <1>1, <1>10 DEF Waiting, WaitingOf, FlushOf
<1> QED
  BY <1>3, <1>4, <1>5, <1>6, <1>7, <1>8, <1>9, <1>10 DEF Next, Work, Proceed, Quiet

-----------------------------------------------------------------------------
(* Flushes and tasks.                                                      *)

\* When the flush of a waiting caller is the first item, nothing that it
\* waits for is left in the channel.
LEMMA FirstFlush ==
  ASSUME IInv, chan # <<>>, NEW c \in Caller, call[c].pc = "wait",
         IsFlush(Head(chan)), Head(chan).flush = c
  PROVE  settled + Held >= call[c].after
<1>1. Types /\ CallTypes /\ Order /\ WaitingOf(c) /\ BarrierOf(c)
  BY DEF IInv, Types, Waiting, Barrier
<1>2. PICK after \in Nat : after = call[c].after /\ after <= Len(log)
  BY <1>1 DEF CallTypes, Calls, WaitingOf
<1>3. PICK first \in Nat, last \in Nat : first = settled + Held /\ last = Len(log)
  BY <1>1 DEF Types, Held
<1>4. 1 \in 1 .. Len(chan) /\ FlushOf(c, 1) /\ Len(chan) \in Nat
  <2>1. chan[1] = Head(chan) /\ 1 \in 1 .. Len(chan) /\ Len(chan) \in Nat
    BY <1>1 DEF Types
  <2> QED
    BY <2>1 DEF FlushOf
<1>5. InOrder(first, last)
  BY <1>1, <1>3 DEF Order
<1>6. ASSUME first < after  PROVE FALSE
  <2>1. after \in first + 1 .. last
    BY <1>2, <1>3, <1>6
  <2>2. PICK j \in 1 .. Len(chan) : TaskAt(j) /\ chan[j].task = after
    BY <1>5, <2>1 DEF InOrder
  <2>3. j # 1
    BY <1>4, <2>2 DEF FlushOf, TaskAt
  <2>4. 1 < j
    BY <1>4, <2>3
  <2>5. chan[j].task > after
    BY <1>1, <1>2, <1>4, <2>2, <2>4 DEF BarrierOf
  <2> QED
    BY <2>2, <2>5
<1> QED
  BY <1>2, <1>3, <1>6

\* The tasks behind the flush of a caller when the first item goes out.
LEMMA BehindOut ==
  ASSUME Types, Barrier, chan # <<>>, chan' = Tail(chan), NEW c \in Caller, call[c].pc = "wait"
  PROVE  \A i, j \in 1 .. Len(chan') :
           FlushOf(c, i)' /\ i < j /\ TaskAt(j)' => chan'[j].task > call[c].after
<1>1. \A i \in 1 .. Len(chan') :
        /\ i \in Nat /\ i + 1 \in 1 .. Len(chan) /\ chan'[i] = chan[i + 1]
        /\ (FlushOf(c, i)' <=> FlushOf(c, i + 1)) /\ (TaskAt(i)' <=> TaskAt(i + 1))
  BY ItemsOut DEF Types
<1>2. ASSUME NEW i \in 1 .. Len(chan'), NEW j \in 1 .. Len(chan'), FlushOf(c, i)', i < j, TaskAt(j)'
      PROVE  chan'[j].task > call[c].after
  <2>1. i + 1 < j + 1
    BY <1>1, <1>2
  <2> QED
    BY <1>1, <1>2, <2>1 DEF Barrier, BarrierOf
<1> QED
  BY <1>2

\* What a flush waits for stays before it.
LEMMA BarrierKept ==
  ASSUME IInv, [Next]_vars
  PROVE  Barrier'
<1>1. Types /\ CallTypes /\ Where /\ Order /\ Waiting /\ Barrier /\ NoneAssumption
  BY NoneAssumption DEF IInv, Types
<1>2. /\ Len(chan) \in Nat /\ Len(log) \in Nat /\ Len(batch) \in Nat /\ settled \in Nat
      /\ \A d \in Caller : call[d].after \in Nat
  BY <1>1 DEF Types, CallTypes, Calls
<1>3. ASSUME NEW c \in Caller, Submit(c) \/ CallFlush(c) \/ FlushReturns(c) \/ Cancel(c)
      PROVE  Barrier'
  <2>1. /\ UNCHANGED <<chan, ack, batch, settled>>
        /\ \A d \in Caller :
             \/ call'[d] = call[d]
             \/ call[d].pc \in {"idle", "answered"} /\ call'[d].pc \in {"idle", "send"}
             \/ call'[d].pc = "gone"
    BY <1>1, <1>3, CallerStep
  <2>2. \A d \in Caller, i \in 1 .. Len(chan) :
          (FlushOf(d, i)' <=> FlushOf(d, i)) /\ (TaskAt(i)' <=> TaskAt(i))
    BY <2>1 DEF FlushOf, TaskAt, IsFlush
  <2> QED
    BY <1>1, <2>1, <2>2 DEF Barrier, BarrierOf
<1>4. ASSUME NEW c \in Caller, Enqueue(c)  PROVE Barrier'
  <2>1. /\ UNCHANGED <<ack, batch, settled>> /\ call[c].pc = "send"
        /\ \A d \in Caller : d # c => call'[d] = call[d]
    BY <1>1, <1>4, EnqueueStep
  <2>2. CASE /\ chan' = Append(chan, [flush |-> c]) /\ UNCHANGED log
             /\ call'[c].pc = "wait" /\ call'[c].after = Len(log)
    <3>1. PICK x \in Item : x = [flush |-> c] /\ IsFlush(x) /\ x.flush = c
      BY NewItems
    <3>2. \A d \in Caller, i \in 1 .. Len(chan') :
            \/ /\ i \in 1 .. Len(chan) /\ chan'[i] = chan[i]
               /\ (FlushOf(d, i)' <=> FlushOf(d, i)) /\ (TaskAt(i)' <=> TaskAt(i))
            \/ i = Len(chan) + 1 /\ (FlushOf(d, i)' <=> c = d) /\ ~TaskAt(i)'
      BY <1>1, <2>2, <3>1, ItemsIn DEF Types
    <3>3. ack # c /\ \A i \in 1 .. Len(chan) : ~FlushOf(c, i)
      BY <1>1, <2>1 DEF Waiting, WaitingOf
    <3>4. \A i, j \in 1 .. Len(chan') :
            FlushOf(c, i)' /\ TaskAt(j)' => i = Len(chan) + 1 /\ j \in 1 .. Len(chan)
      BY <3>2, <3>3
    <3>5. BarrierOf(c)'
      BY <1>2, <2>1, <2>2, <3>3, <3>4 DEF BarrierOf
    <3>6. ASSUME NEW d \in Caller, d # c, call[d].pc = "wait",
                 NEW i \in 1 .. Len(chan'), NEW j \in 1 .. Len(chan'),
                 FlushOf(d, i)', i < j, TaskAt(j)'
          PROVE  chan'[j].task > call[d].after
      BY <1>1, <3>2, <3>6 DEF Barrier, BarrierOf
    <3> QED
      BY <1>1, <2>1, <3>5, <3>6 DEF Barrier, BarrierOf
  <2>3. CASE /\ chan' = Append(chan, [task |-> Len(log) + 1]) /\ Len(log') = Len(log) + 1
             /\ call'[c].pc = "idle"
    <3>4. \A n \in Nat : \E x \in Item : x = [task |-> n] /\ ~IsFlush(x) /\ x.task = n
      BY NewItems
    <3>1. PICK x \in Item : x = [task |-> Len(log) + 1] /\ ~IsFlush(x) /\ x.task = Len(log) + 1
      BY <1>2, <3>4
    <3>2. \A d \in Caller, i \in 1 .. Len(chan') :
            \/ /\ i \in 1 .. Len(chan) /\ chan'[i] = chan[i]
               /\ (FlushOf(d, i)' <=> FlushOf(d, i)) /\ (TaskAt(i)' <=> TaskAt(i))
            \/ i = Len(chan) + 1 /\ ~FlushOf(d, i)' /\ chan'[i] = x
      BY <1>1, <2>3, <3>1, ItemsIn DEF Types
    <3>6. ASSUME NEW d \in Caller, call[d].pc = "wait",
                 NEW i \in 1 .. Len(chan'), NEW j \in 1 .. Len(chan'),
                 FlushOf(d, i)', i < j, TaskAt(j)'
          PROVE  chan'[j].task > call[d].after
      <4>1. i \in 1 .. Len(chan) /\ FlushOf(d, i)
        BY <3>2, <3>6
      <4>2. CASE j \in 1 .. Len(chan) /\ chan'[j] = chan[j] /\ TaskAt(j)
        BY <1>1, <3>6, <4>1, <4>2 DEF Barrier, BarrierOf
      <4>3. CASE chan'[j] = x
        BY <1>1, <1>2, <3>1, <3>6, <4>3 DEF Waiting, WaitingOf
      <4> QED
        BY <3>2, <3>6, <4>2, <4>3
    <3> QED
      BY <1>1, <2>1, <2>3, <3>6 DEF Barrier, BarrierOf
  <2> QED
    BY <1>1, <1>4, <2>2, <2>3, EnqueueStep
<1>5. ASSUME AckFirst  PROVE Barrier'
  <2>1. PICK c \in Caller : c = Head(chan).flush
    BY <1>1, <1>5, ItemOut, ItemFacts DEF Types, AckFirst
  <2>2. /\ UNCHANGED <<ack, log, settled, batch>> /\ Deliver(c) /\ ack = None
        /\ IsFlush(Head(chan)) /\ chan # <<>> /\ chan' = Tail(chan)
        /\ batch = <<>> /\ carried = <<>>
    BY <1>1, <1>5, <2>1 DEF AckFirst, Where
  <2>3. \A d \in Caller : d # c \/ call[c].pc # "wait" => call'[d] = call[d]
    BY <1>1, <2>2, DeliverStep
  <2>4. call[c].pc = "wait" => call'[c].pc = "answered" /\ call'[c].after = call[c].after
    BY <1>1, <2>2, DeliverStep
  <2>5. call[c].pc = "wait" => settled >= call[c].after
    <3>1. settled + Held = settled
      BY <1>2, <2>2 DEF Held
    <3> QED
      BY <2>1, <2>2, <3>1, FirstFlush
  <2> SUFFICES ASSUME NEW d \in Caller  PROVE BarrierOf(d)'
    BY DEF Barrier
  <2>6. CASE d = c /\ call[c].pc = "wait"
    BY <2>2, <2>4, <2>5, <2>6 DEF BarrierOf
  <2>7. CASE call'[d] = call[d]
    BY <1>1, <2>2, <2>7, BehindOut DEF Barrier, BarrierOf
  <2> QED
    BY <2>3, <2>6, <2>7
<1>6. ASSUME TakeFirst  PROVE Barrier'
  <2>1. UNCHANGED <<call, settled, ack>> /\ ack = None
    BY <1>1, <1>6 DEF TakeFirst, Where
  <2> SUFFICES ASSUME NEW d \in Caller  PROVE BarrierOf(d)'
    BY DEF Barrier
  <2>4. ack' # d
    BY <1>1, <2>1
  <2>2. CASE UNCHANGED chan
    BY <1>1, <2>1, <2>2, <2>4 DEF Barrier, BarrierOf, FlushOf, TaskAt
  <2>3. CASE chan # <<>> /\ chan' = Tail(chan)
    BY <1>1, <2>1, <2>3, <2>4, BehindOut DEF Barrier, BarrierOf
  <2> QED
    BY <1>6, <2>2, <2>3 DEF TakeFirst
<1>7. ASSUME Collect  PROVE Barrier'
  <2>1. /\ UNCHANGED <<call, settled>> /\ ack = None /\ chan # <<>> /\ chan' = Tail(chan)
        /\ carried = <<>> /\ Held = Len(batch)
    BY <1>1, <1>2, <1>7 DEF Collect, Where, Held
  <2> SUFFICES ASSUME NEW d \in Caller  PROVE BarrierOf(d)'
    BY DEF Barrier
  <2>2. CASE IsFlush(Head(chan))
    <3>1. ack' = Head(chan).flush /\ UNCHANGED batch
      BY <1>7, <2>2 DEF Collect
    <3>2. ack' = d /\ call[d].pc = "wait" => settled + Len(batch) >= call[d].after
      BY <2>1, <2>2, <3>1, FirstFlush
    <3> QED
      BY <1>1, <2>1, <3>1, <3>2, BehindOut DEF Barrier, BarrierOf
  <2>3. CASE ~IsFlush(Head(chan))
    <3>1. UNCHANGED ack
      BY <1>7, <2>3 DEF Collect
    <3>2. ack' # d
      BY <1>1, <2>1, <3>1
    <3> QED
      BY <1>1, <2>1, <3>2, BehindOut DEF Barrier, BarrierOf
  <2> QED
    BY <2>2, <2>3
<1>8. ASSUME Transact  PROVE Barrier'
  <2>1. /\ UNCHANGED <<call, chan, ack>> /\ settled' = settled + Len(batch) /\ batch' = <<>>
    BY <1>8 DEF Transact
  <2>2. settled' + Len(batch') = settled + Len(batch) /\ settled' >= settled
    BY <1>2, <2>1
  <2> SUFFICES ASSUME NEW d \in Caller  PROVE BarrierOf(d)'
    BY DEF Barrier
  <2>3. call[d].pc = "answered" => settled' >= call[d].after
    BY <1>1, <1>2, <2>1, <2>2 DEF Barrier, BarrierOf
  <2>4. call[d].pc = "wait" /\ ack = d => settled' + Len(batch') >= call[d].after
    BY <1>1, <2>2 DEF Barrier, BarrierOf
  <2> QED
    BY <1>1, <2>1, <2>3, <2>4 DEF Barrier, BarrierOf, FlushOf, TaskAt
<1>9. ASSUME AckBatch  PROVE Barrier'
  <2>1. /\ UNCHANGED <<chan, settled, batch>> /\ batch = <<>>
        /\ ack \in Caller /\ Deliver(ack) /\ ack' = None
    BY <1>1, <1>9 DEF AckBatch, Where, Types
  <2>2. PICK c \in Caller : c = ack /\ Deliver(c)
    BY <2>1
  <2>3. \A d \in Caller : d # c \/ call[c].pc # "wait" => call'[d] = call[d]
    BY <1>1, <2>2, DeliverStep
  <2>4. call[c].pc = "wait" => call'[c].pc = "answered" /\ call'[c].after = call[c].after
    BY <1>1, <2>2, DeliverStep
  <2>8. call[c].pc = "wait" => settled >= call[c].after
    BY <1>1, <1>2, <2>1, <2>2 DEF Barrier, BarrierOf
  <2> SUFFICES ASSUME NEW d \in Caller  PROVE BarrierOf(d)'
    BY DEF Barrier
  <2>5. ack' # d
    BY <1>1, <2>1
  <2>6. CASE d = c /\ call[c].pc = "wait"
    BY <2>1, <2>4, <2>6, <2>8 DEF BarrierOf
  <2>7. CASE call'[d] = call[d]
    BY <1>1, <2>1, <2>5, <2>7 DEF Barrier, BarrierOf, FlushOf, TaskAt
  <2> QED
    BY <2>3, <2>6, <2>7
<1>10. ASSUME CloseBatch \/ UNCHANGED vars  PROVE UNCHANGED <<call, chan, ack, settled, batch>>
  BY <1>10 DEF CloseBatch, vars
<1>11. ASSUME UNCHANGED <<call, chan, ack, settled, batch>>  PROVE Barrier'
  BY <1>1, <1>11 DEF Barrier, BarrierOf, FlushOf, TaskAt
<1> QED
  BY <1>3, <1>4, <1>5, <1>6, <1>7, <1>8, <1>9, <1>10, <1>11 DEF Next, Work, Proceed, Quiet

-----------------------------------------------------------------------------
(* Failures.                                                               *)

\* A failure stays with the queue until a flush is told of it.
LEMMA FailuresKept ==
  ASSUME IInv, [Next]_vars
  PROVE  Failures'
<1>1. Types /\ CallTypes /\ Where /\ Order /\ Barrier /\ Failures
  BY DEF IInv, Types
<1>2. ASSUME NEW c \in Caller, Deliver(c), UNCHANGED failed  PROVE Failures'
  <2>1. CASE /\ call[c].pc = "wait" /\ call'[c].pc = "answered"
             /\ call'[c].after = call[c].after /\ call'[c].err = errors
             /\ told' = told \cup errors /\ errors' = {}
             /\ \A d \in Caller : d # c => call'[d] = call[d]
    <3>1. failed' \subseteq told'
      BY <1>1, <1>2, <2>1 DEF Failures
    <3> QED
      BY <3>1 DEF Failures, OkHidesNothing
  <2>2. CASE UNCHANGED <<call, told, errors>>
    BY <1>1, <1>2, <2>2 DEF Failures, OkHidesNothing
  <2> QED
    BY <1>1, <1>2, <2>1, <2>2, DeliverStep
<1>3. ASSUME AckFirst  PROVE Failures'
  <2>1. PICK c \in Caller : c = Head(chan).flush
    BY <1>1, <1>3, ItemOut, ItemFacts DEF Types, AckFirst
  <2> QED
    BY <1>2, <1>3, <2>1 DEF AckFirst
<1>4. ASSUME AckBatch  PROVE Failures'
  <2>1. ack \in Caller
    BY <1>1, <1>4 DEF AckBatch, Where, Types
  <2>2. PICK c \in Caller : c = ack
    BY <2>1
  <2> QED
    BY <1>2, <1>4, <2>2 DEF AckBatch
<1>5. ASSUME Transact  PROVE Failures'
  <2>1. UNCHANGED <<call, told>>
    BY <1>5 DEF Transact
  <2>3. failed' \subseteq told' \cup errors'
    BY <1>1, <1>5, <2>1 DEF Transact, Failures
  <2>4. failed' \subseteq failed \cup Range(batch)
    BY <1>5 DEF Transact
  <2>5. ASSUME NEW n \in Range(batch)  PROVE n \in Nat /\ n > settled
    <3>1. PICK i \in 1 .. Len(batch) : n = batch[i]
      BY <1>1 DEF Types, Range
    <3> QED
      BY <1>1, <3>1 DEF Order, Types
  <2>6. ASSUME NEW d \in Caller, call[d].pc = "answered", NEW n \in Range(batch)
        PROVE  ~(n <= call[d].after)
    <3>1. settled >= call[d].after /\ settled \in Nat /\ call[d].after \in Nat
      BY <1>1, <2>6 DEF Barrier, BarrierOf, Types, CallTypes, Calls
    <3> QED
      BY <2>5, <3>1
  <2> QED
    BY <1>1, <2>1, <2>3, <2>4, <2>6 DEF Failures, OkHidesNothing
<1>6. ASSUME NEW c \in Caller,
             Submit(c) \/ CallFlush(c) \/ FlushReturns(c) \/ Cancel(c) \/ Enqueue(c)
      PROVE  Failures'
  <2>1. /\ UNCHANGED <<errors, failed, told>>
        /\ \A d \in Caller : call'[d] = call[d] \/ call'[d].pc # "answered"
    BY <1>1, <1>6, CallerStep, EnqueueStep
  <2> QED
    BY <1>1, <2>1 DEF Failures, OkHidesNothing
<1>7. ASSUME TakeFirst \/ Collect \/ CloseBatch \/ UNCHANGED vars
      PROVE  UNCHANGED <<call, errors, failed, told>>
  BY <1>7 DEF TakeFirst, Collect, CloseBatch, vars
<1>8. ASSUME UNCHANGED <<call, errors, failed, told>>  PROVE Failures'
  BY <1>1, <1>8 DEF Failures, OkHidesNothing
<1> QED
  BY <1>3, <1>4, <1>5, <1>6, <1>7, <1>8 DEF Next, Work, Proceed, Quiet

-----------------------------------------------------------------------------
(* Folds.  FoldLeft recurses over sets of positions.  As long as the       *)
(* results stay in a set T, they are those of a function f of a result and *)
(* an element, applied to one element of the sequence after the other.     *)

\* A set of numbers has a least element.
LEMMA Least ==
  ASSUME NEW T \in SUBSET Nat, T # {}
  PROVE  \E x \in T : \A y \in T : ~(y < x)
<1> DEFINE R == OpToRel(<, Nat)
<1>1. IsWellFoundedOn(R, Nat)
  BY NatLessThanWellFounded
<1>2. \A x, y \in Nat : <<x, y>> \in R <=> x < y
  BY DEF OpToRel
<1> HIDE DEF R
<1>3. \E x \in T : \A y \in T : ~ (<<y, x>> \in R)
  BY <1>1, WFMin
<1> QED
  BY <1>2, <1>3

\* Induction up to n, with a set for the property.
LEMMA InductionUpTo ==
  ASSUME NEW n \in Nat, NEW S, 0 \in S, \A k \in 1 .. n : k - 1 \in S => k \in S
  PROVE  0 .. n \subseteq S
<1> SUFFICES ASSUME (0 .. n) \ S # {}  PROVE FALSE
  OBVIOUS
<1>0. (0 .. n) \ S \in SUBSET Nat
  OBVIOUS
<1>1. PICK x \in (0 .. n) \ S : \A y \in (0 .. n) \ S : ~(y < x)
  BY <1>0, Least
<1>2. x \in 1 .. n /\ x - 1 \in 0 .. n /\ x - 1 < x
  BY <1>1
<1> QED
  BY <1>1, <1>2

\* What f does with a result and an element.
IsStep(f, T, X) == f \in [T \X X -> T]

\* a[k] is the result of folding f over the first k elements of s, up to n.
Runs(a, n, T, f, b, s) ==
  /\ a \in [0 .. n -> T]
  /\ a[0] = b
  /\ \A k \in 1 .. n : a[k] = f[<<a[k - 1], s[k]>>]

Run(T, f, b, s) == CHOOSE a : Runs(a, Len(s), T, f, b, s)
Fold(T, f, b, s) == Run(T, f, b, s)[Len(s)]

\* One more element.
LEMMA RunStep ==
  ASSUME NEW T, NEW X, NEW f, IsStep(f, T, X), NEW b, NEW n \in Nat, NEW t, NEW a,
         Runs(a, n, T, f, b, t), t[n + 1] \in X
  PROVE  \E c : /\ Runs(c, n + 1, T, f, b, t)
                /\ c[n + 1] = f[<<a[n], t[n + 1]>>]
                /\ \A k \in 0 .. n : c[k] = a[k]
<1>1. n \in 0 .. n /\ n + 1 \in 1 .. n + 1
  OBVIOUS
<1>2. /\ a \in [0 .. n -> T] /\ a[0] = b
      /\ \A k \in 1 .. n : a[k] = f[<<a[k - 1], t[k]>>]
  BY DEF Runs
<1>3. PICK z \in T : z = f[<<a[n], t[n + 1]>>]
  BY <1>1, <1>2 DEF IsStep
<1> DEFINE c == [k \in 0 .. n + 1 |-> IF k = n + 1 THEN z ELSE a[k]]
<1>4. c \in [0 .. n + 1 -> T] /\ c[n + 1] = z /\ \A k \in 0 .. n : c[k] = a[k]
  BY <1>2
<1> HIDE DEF c
<1>5. ASSUME NEW k \in 1 .. n + 1  PROVE c[k] = f[<<c[k - 1], t[k]>>]
  <2>1. k - 1 \in 0 .. n /\ c[k - 1] = a[k - 1]
    BY <1>4
  <2>2. CASE k = n + 1
    <3>1. k - 1 = n
      BY <2>2
    <3> QED
      BY <1>3, <1>4, <2>1, <2>2, <3>1
  <2>3. CASE k # n + 1
    BY <1>2, <1>4, <2>1, <2>3
  <2> QED
    BY <2>2, <2>3
<1>6. c[0] = b
  BY <1>2, <1>4
<1> QED
  BY <1>3, <1>4, <1>5, <1>6 DEF Runs

\* Every fold has a run.
LEMMA RunExists ==
  ASSUME NEW T, NEW X, NEW f, IsStep(f, T, X), NEW b \in T, NEW s \in Seq(X)
  PROVE  \E a : Runs(a, Len(s), T, f, b, s)
<1> DEFINE n == Len(s)
           S == {k \in 0 .. n : \E a : Runs(a, k, T, f, b, s)}
<1>1. n \in Nat
  OBVIOUS
<1>2. 0 \in S
  <2>1. Runs([i \in 0 .. 0 |-> b], 0, T, f, b, s)
    BY DEF Runs
  <2>2. 0 \in 0 .. n
    BY <1>1
  <2> QED
    BY <2>1, <2>2
<1>3. ASSUME NEW k \in 1 .. n, k - 1 \in S  PROVE k \in S
  <2>1. PICK a : Runs(a, k - 1, T, f, b, s)
    BY <1>3
  <2>2. k - 1 \in Nat /\ (k - 1) + 1 = k /\ s[k] \in X /\ k \in 0 .. n
    BY <1>1
  <2>3. \E c : Runs(c, (k - 1) + 1, T, f, b, s)
    BY <2>1, <2>2, RunStep
  <2> QED
    BY <2>2, <2>3
<1> HIDE DEF S
<1>4. 0 .. n \subseteq S
  BY <1>1, <1>2, <1>3, InductionUpTo
<1>5. n \in 0 .. n
  BY <1>1
<1> QED
  BY <1>4, <1>5 DEF S

\* And only one.
LEMMA RunUnique ==
  ASSUME NEW n \in Nat, NEW T, NEW f, NEW b, NEW s,
         NEW a, Runs(a, n, T, f, b, s), NEW c, Runs(c, n, T, f, b, s)
  PROVE  a = c
<1> DEFINE S == {k \in 0 .. n : a[k] = c[k]}
<1>1. 0 \in S /\ \A k \in 1 .. n : k - 1 \in S => k \in S
  <2>1. 0 \in 0 .. n /\ \A k \in 1 .. n : k \in 0 .. n
    OBVIOUS
  <2>2. a[0] = c[0] /\ \A k \in 1 .. n : a[k - 1] = c[k - 1] => a[k] = c[k]
    BY DEF Runs
  <2> QED
    BY <2>1, <2>2
<1>2. 0 .. n \subseteq S
  <2> HIDE DEF S
  <2> QED
    BY <1>1, InductionUpTo
<1> QED
  BY <1>2 DEF Runs

\* The fold is the last element of its run.
LEMMA FoldRun ==
  ASSUME NEW T, NEW X, NEW f, IsStep(f, T, X), NEW b \in T, NEW s \in Seq(X)
  PROVE  /\ Runs(Run(T, f, b, s), Len(s), T, f, b, s)
         /\ Fold(T, f, b, s) \in T
<1>1. Runs(Run(T, f, b, s), Len(s), T, f, b, s)
  BY RunExists DEF Run
<1>2. Len(s) \in 0 .. Len(s)
  OBVIOUS
<1> QED
  BY <1>1, <1>2 DEF Fold, Runs

\* The laws of a fold from the left.
LEMMA FoldLaws ==
  ASSUME NEW T, NEW X, NEW f, IsStep(f, T, X), NEW b \in T
  PROVE  /\ Fold(T, f, b, <<>>) = b
         /\ \A s \in Seq(X), x \in X :
              Fold(T, f, b, Append(s, x)) = f[<<Fold(T, f, b, s), x>>]
<1>1. Fold(T, f, b, <<>>) = b
  <2>1. <<>> \in Seq(X) /\ Len(<<>>) = 0
    OBVIOUS
  <2>2. Runs(Run(T, f, b, <<>>), Len(<<>>), T, f, b, <<>>)
    BY <2>1, FoldRun
  <2> QED
    BY <2>1, <2>2 DEF Fold, Runs
<1>2. ASSUME NEW s \in Seq(X), NEW x \in X
      PROVE  Fold(T, f, b, Append(s, x)) = f[<<Fold(T, f, b, s), x>>]
  <2> DEFINE t == Append(s, x)
  <2>1. /\ t \in Seq(X) /\ Len(t) = Len(s) + 1 /\ Len(s) \in Nat
        /\ t[Len(s) + 1] = x /\ \A k \in 1 .. Len(s) : t[k] = s[k]
    OBVIOUS
  <2> HIDE DEF t
  <2>2. Runs(Run(T, f, b, s), Len(s), T, f, b, s) /\ Runs(Run(T, f, b, t), Len(t), T, f, b, t)
    BY <2>1, FoldRun
  <2>5. PICK n, a : n \in Nat /\ n = Len(s) /\ a = Run(T, f, b, s)
    BY <2>1
  <2>6. Runs(a, n, T, f, b, t)
    BY <2>1, <2>2, <2>5 DEF Runs
  <2>7. t[n + 1] \in X
    BY <2>1, <2>5
  <2>8. n \in Nat
    BY <2>5
  <2>3. PICK c : /\ Runs(c, n + 1, T, f, b, t)
                 /\ c[n + 1] = f[<<a[n], t[n + 1]>>]
    BY <2>6, <2>7, <2>8, RunStep
  <2>4. c = Run(T, f, b, t)
    BY <2>1, <2>2, <2>3, <2>5, RunUnique
  <2> QED
    BY <2>1, <2>3, <2>4, <2>5 DEF Fold, t
<1> QED
  BY <1>1, <1>2

\* FoldLeft recurses over the sets of positions, taking the largest out first.
Iterates(g, D, b, f, s) ==
  \A S \in SUBSET D : g[S] = IF S = {} THEN b ELSE f[<<g[S \ {Max(S)}], s[Max(S)]>>]

\* The largest of the first n positions, when n is one of them.
LEMMA MaxFacts ==
  ASSUME NEW n \in Nat, NEW S \in SUBSET (1 .. n), n \in S
  PROVE  Max(S) = n
<1>1. \A x \in S : n >= x /\ (x >= n => x = n)
  OBVIOUS
<1> QED
  BY <1>1 DEF Max

\* There is such a function.
LEMMA IterExists ==
  ASSUME NEW T, NEW X, NEW f, IsStep(f, T, X), NEW b \in T, NEW s \in Seq(X)
  PROVE  \E g \in [SUBSET DOMAIN s -> T] : Iterates(g, DOMAIN s, b, f, s)
<1> DEFINE n == Len(s)
           Q == {k \in 0 .. n : \E g \in [SUBSET (1 .. k) -> T] : Iterates(g, 1 .. k, b, f, s)}
<1>1. n \in Nat /\ DOMAIN s = 1 .. n
  OBVIOUS
<1>2. 0 \in Q
  <2>1. SUBSET (1 .. 0) = {{}} /\ 0 \in 0 .. n
    BY <1>1
  <2> DEFINE g == [S \in SUBSET (1 .. 0) |-> b]
  <2>2. g \in [SUBSET (1 .. 0) -> T] /\ Iterates(g, 1 .. 0, b, f, s)
    BY <2>1 DEF Iterates
  <2> QED
    BY <2>1, <2>2
<1>3. ASSUME NEW k \in 1 .. n, k - 1 \in Q  PROVE k \in Q
  <2>1. PICK g \in [SUBSET (1 .. k - 1) -> T] : Iterates(g, 1 .. k - 1, b, f, s)
    BY <1>3
  <2>2. s[k] \in X /\ k \in 0 .. n /\ k \in Nat
    BY <1>1
  <2> DEFINE c == [S \in SUBSET (1 .. k) |-> IF k \in S THEN f[<<g[S \ {k}], s[k]>>] ELSE g[S]]
  <2>3. \A S \in SUBSET (1 .. k) :
          S \ {k} \in SUBSET (1 .. k - 1) /\ (k \notin S => S \in SUBSET (1 .. k - 1))
    OBVIOUS
  <2>4. c \in [SUBSET (1 .. k) -> T]
    BY <2>1, <2>2, <2>3 DEF IsStep
  <2>5. \A S \in SUBSET (1 .. k) :
          c[S] = IF k \in S THEN f[<<g[S \ {k}], s[k]>>] ELSE g[S]
    OBVIOUS
  <2> HIDE DEF c
  <2>6. ASSUME NEW S \in SUBSET (1 .. k)
        PROVE  c[S] = IF S = {} THEN b ELSE f[<<c[S \ {Max(S)}], s[Max(S)]>>]
    <3>1. CASE k \in S
      <4>1. Max(S) = k
        BY <2>2, <3>1, MaxFacts
      <4>2. S \ {k} \in SUBSET (1 .. k) /\ k \notin S \ {k} /\ S # {}
        BY <3>1
      <4>3. c[S \ {k}] = g[S \ {k}]
        BY <2>5, <4>2
      <4> QED
        BY <2>5, <3>1, <4>1, <4>2, <4>3
    <3>2. CASE k \notin S
      <4>1. S \in SUBSET (1 .. k - 1)
        BY <2>3, <3>2
      <4>2. S \ {Max(S)} \in SUBSET (1 .. k) /\ k \notin S \ {Max(S)}
        BY <3>2
      <4>3. c[S] = g[S] /\ c[S \ {Max(S)}] = g[S \ {Max(S)}]
        BY <2>5, <3>2, <4>2
      <4>4. g[S] = IF S = {} THEN b ELSE f[<<g[S \ {Max(S)}], s[Max(S)]>>]
        BY <2>1, <4>1 DEF Iterates
      <4> QED
        BY <4>3, <4>4
    <3> QED
      BY <3>1, <3>2
  <2>7. Iterates(c, 1 .. k, b, f, s)
    BY <2>6 DEF Iterates
  <2> QED
    BY <2>2, <2>4, <2>7
<1> HIDE DEF Q
<1>4. 0 .. n \subseteq Q
  BY <1>1, <1>2, <1>3, InductionUpTo
<1>5. n \in 0 .. n
  BY <1>1
<1> QED
  BY <1>1, <1>4, <1>5 DEF Q

\* On the prefixes of s, h is the run of the fold.
Follows(h, T, f, b, s) ==
  /\ h[{}] = b
  /\ \A k \in 1 .. Len(s) :
       h[1 .. k - 1] = Run(T, f, b, s)[k - 1] => h[1 .. k] = f[<<h[1 .. k - 1], s[k]>>]

\* What it is on the whole sequence is the fold.
LEMMA IterRun ==
  ASSUME NEW T, NEW X, NEW f, IsStep(f, T, X), NEW b \in T, NEW s \in Seq(X), NEW h,
         Follows(h, T, f, b, s)
  PROVE  h[DOMAIN s] = Fold(T, f, b, s)
<1> DEFINE n == Len(s)
           a == Run(T, f, b, s)
           S == {k \in 0 .. n : h[1 .. k] = a[k]}
<1>1. n \in Nat /\ DOMAIN s = 1 .. n
  OBVIOUS
<1>2. Runs(a, n, T, f, b, s)
  BY FoldRun
<1> HIDE DEF a
<1>3. 0 \in S
  <2>1. 1 .. 0 = {} /\ 0 \in 0 .. n
    BY <1>1
  <2> QED
    BY <1>2, <2>1 DEF Runs, Follows
<1>4. ASSUME NEW k \in 1 .. n, k - 1 \in S  PROVE k \in S
  <2>1. a[k] = f[<<a[k - 1], s[k]>>]
    BY <1>2 DEF Runs
  <2>2. h[1 .. k] = f[<<a[k - 1], s[k]>>]
    BY <1>4 DEF a, Follows
  <2>3. k \in 0 .. n
    OBVIOUS
  <2> QED
    BY <2>1, <2>2, <2>3
<1> HIDE DEF S
<1>5. 0 .. n \subseteq S
  BY <1>1, <1>3, <1>4, InductionUpTo
<1>6. n \in 0 .. n
  BY <1>1
<1> QED
  BY <1>1, <1>5, <1>6 DEF S, a, Fold

\* The largest position is a position.
LEMMA MaxIn ==
  ASSUME NEW s, NEW X, s \in Seq(X), NEW S \in SUBSET DOMAIN s, S # {}
  PROVE  Max(S) \in S
<1> SUFFICES ASSUME \A x \in S : \E y \in S : ~(x >= y)  PROVE FALSE
  BY DEF Max
<1> DEFINE n == Len(s)
           B == {j \in Nat : \E x \in S : j = n - x}
<1>1. n \in Nat /\ S \subseteq 1 .. n
  OBVIOUS
<1>8. \A x \in S : n - x \in Nat
  <2>1. \A x \in 1 .. n : n - x \in Nat
    BY <1>1
  <2> HIDE DEF n
  <2> QED
    BY <1>1, <2>1
<1>2. B \in SUBSET Nat /\ \A x \in S : n - x \in B
  BY <1>8
<1>9. B # {}
  BY <1>2
<1>3. PICK j \in B : \A i \in B : ~(i < j)
  BY <1>2, <1>9, Least
<1>4. PICK x \in S : j = n - x
  OBVIOUS
<1>5. PICK y \in S : ~(x >= y)
  OBVIOUS
<1>6. x \in 1 .. n /\ y \in 1 .. n /\ n - y \in B
  BY <1>1, <1>2
<1>7. n - y < n - x
  BY <1>1, <1>5, <1>6
<1> QED
  BY <1>3, <1>4, <1>6, <1>7

\* A prefix, and the prefix before it.
LEMMA FirstPositions ==
  ASSUME NEW X, NEW s \in Seq(X), NEW k \in 1 .. Len(s)
  PROVE  /\ 1 .. k \in SUBSET DOMAIN s /\ 1 .. k # {} /\ Max(1 .. k) = k
         /\ (1 .. k) \ {Max(1 .. k)} = 1 .. k - 1
<1>1. k \in Nat /\ k \in 1 .. k /\ 1 .. k \in SUBSET DOMAIN s /\ (1 .. k) \ {k} = 1 .. k - 1
  OBVIOUS
<1>2. Max(1 .. k) = k
  BY <1>1, MaxFacts
<1> QED
  BY <1>1, <1>2

\* The elements and the results of a run.
LEMMA RunTypes ==
  ASSUME NEW T, NEW X, NEW f, IsStep(f, T, X), NEW b \in T, NEW s \in Seq(X),
         NEW k \in 1 .. Len(s)
  PROVE  s[k] \in X /\ Run(T, f, b, s)[k - 1] \in T
<1>1. k - 1 \in 0 .. Len(s) /\ s[k] \in X
  OBVIOUS
<1>2. Run(T, f, b, s) \in [0 .. Len(s) -> T]
  BY FoldRun DEF Runs
<1> QED
  BY <1>1, <1>2

\* Folding over a concatenation.
LEMMA FoldConcat ==
  ASSUME NEW T, NEW X, NEW f, IsStep(f, T, X), NEW b \in T, NEW s \in Seq(X), NEW t \in Seq(X)
  PROVE  Fold(T, f, b, s \o t) = Fold(T, f, Fold(T, f, b, s), t)
<1>1. /\ s \o t \in Seq(X) /\ Len(s \o t) = Len(s) + Len(t) /\ Len(s) \in Nat /\ Len(t) \in Nat
      /\ \A k \in 1 .. Len(s) : (s \o t)[k] = s[k]
      /\ \A k \in 1 .. Len(t) : (s \o t)[Len(s) + k] = t[k]
  OBVIOUS
<1>2. PICK n, m, u : n = Len(s) /\ m = Len(t) /\ u = s \o t
  OBVIOUS
<1>3. PICK a, z : a = Run(T, f, b, s) /\ z = Fold(T, f, b, s)
  OBVIOUS
<1>4. Runs(a, n, T, f, b, s) /\ z = a[n] /\ z \in T
  BY <1>2, <1>3, FoldRun DEF Fold
<1>5. PICK d : d = Run(T, f, z, t)
  OBVIOUS
<1>6. Runs(d, m, T, f, z, t)
  BY <1>2, <1>4, <1>5, FoldRun
<1>7. n \in Nat /\ m \in Nat
  BY <1>1, <1>2
<1> DEFINE e == [k \in 0 .. n + m |-> IF k <= n THEN a[k] ELSE d[k - n]]
<1>8. /\ e \in [0 .. n + m -> T] /\ e[0] = b
      /\ \A k \in 0 .. n : e[k] = a[k]
      /\ \A k \in 0 .. m : n + k \in 0 .. n + m /\ e[n + k] = d[k]
  <2>1. \A k \in 0 .. n + m : k <= n \/ k - n \in 0 .. m
    BY <1>7
  <2>2. a \in [0 .. n -> T] /\ d \in [0 .. m -> T] /\ d[0] = a[n] /\ a[0] = b
    BY <1>4, <1>6 DEF Runs
  <2>3. \A k \in 0 .. m : n + k \in 0 .. n + m /\ (n + k <= n => k = 0) /\ (n + k) - n = k
    BY <1>7
  <2>4. \A k \in 0 .. n : k \in 0 .. n + m /\ k <= n
    BY <1>7
  <2> QED
    BY <1>7, <2>1, <2>2, <2>3, <2>4
<1> HIDE DEF e
<1>9. ASSUME NEW k \in 1 .. n + m  PROVE e[k] = f[<<e[k - 1], u[k]>>]
  <2>1. CASE k <= n
    <3>1. k \in 1 .. n /\ k \in 0 .. n /\ k - 1 \in 0 .. n
      BY <1>7, <2>1
    <3>2. a[k] = f[<<a[k - 1], s[k]>>] /\ u[k] = s[k]
      BY <1>1, <1>2, <1>4, <3>1 DEF Runs
    <3> QED
      BY <1>8, <3>1, <3>2
  <2>2. CASE ~(k <= n)
    <3>1. PICK j \in 1 .. m : k = n + j
      <4>1. k - n \in 1 .. m /\ k = n + (k - n)
        BY <1>7, <2>2
      <4> QED
        BY <4>1
    <3>2. j \in 0 .. m /\ j - 1 \in 0 .. m /\ k - 1 = n + (j - 1)
      BY <1>7, <3>1
    <3>3. d[j] = f[<<d[j - 1], t[j]>>] /\ u[k] = t[j]
      BY <1>1, <1>2, <1>6, <3>1 DEF Runs
    <3> QED
      BY <1>8, <3>1, <3>2, <3>3
  <2> QED
    BY <2>1, <2>2
<1>10. Runs(e, Len(u), T, f, b, u)
  BY <1>1, <1>2, <1>8, <1>9 DEF Runs
<1>11. u \in Seq(X) /\ Len(u) \in Nat /\ Len(u) = n + m
  BY <1>1, <1>2, <1>7
<1>12. e = Run(T, f, b, u)
  BY <1>10, <1>11, FoldRun, RunUnique
<1>13. m \in 0 .. m
  BY <1>7
<1>14. e[Len(u)] = d[m]
  BY <1>8, <1>11, <1>13
<1> QED
  BY <1>2, <1>3, <1>5, <1>12, <1>14 DEF Fold


-----------------------------------------------------------------------------
(* What the tasks of a transaction write.                                  *)

Rows == [Msg -> Content \cup {Absent}]
Tables == [Key -> Rows]
Writes == [msg : Msg, content : Content]
Distinct(ws) == \A i, j \in DOMAIN ws : i # j => ws[i].msg # ws[j].msg
Tasks == {p \in [key : Key \cup {"meta"}, writes : Seq(Writes)] : Distinct(p.writes)}

WriteStep == [q \in Rows \X Writes |-> Log!Write(q[1], q[2])]
ApplyStep == [q \in Tables \X Tasks |-> Log!Apply(q[1], q[2])]
CountStep == [q \in Nat \X Tasks |-> q[1] + Count(q[2])]

\* A write changes a row.
LEMMA WriteStepFacts ==
  /\ IsStep(WriteStep, Rows, Writes)
  /\ \A r \in Rows, w \in Writes : /\ WriteStep[<<r, w>>] = [r EXCEPT ![w.msg] = w.content]
                                   /\ [r EXCEPT ![w.msg] = w.content] \in Rows
<1>1. \A r \in Rows, w \in Writes : [r EXCEPT ![w.msg] = w.content] \in Rows
  BY DEF Rows, Writes
<1> QED
  BY <1>1 DEF IsStep, WriteStep, Log!Write

\* The writes of a task, one after the other.
LEMMA WriteFold ==
  ASSUME NEW row \in Rows, NEW s \in Seq(Writes)
  PROVE  Log!FoldLeft(Log!Write, row, s) = Fold(Rows, WriteStep, row, s)
<1> DEFINE D == DOMAIN s
           E(g) == [S \in SUBSET D |->
                      IF S = {} THEN row ELSE Log!Write(g[S \ {Max(S)}], s[Max(S)])]
<1>1. PICK f : f = WriteStep
  OBVIOUS
<1>2. /\ IsStep(f, Rows, Writes)
      /\ \A r \in Rows, w \in Writes : f[<<r, w>>] = Log!Write(r, w)
  BY <1>1, WriteStepFacts DEF Log!Write
<1>3. PICK g \in [SUBSET D -> Rows] : Iterates(g, D, row, f, s)
  BY <1>2, IterExists
<1>4. PICK h : h = (CHOOSE k : k = E(k)) /\ Log!FoldLeft(Log!Write, row, s) = h[D]
  BY DEF Log!FoldLeft, Log!MapThenFoldSet, Log!Max, Max
<1>5. g = E(g)
  <2>1. \A S \in SUBSET D : S # {} => S \ {Max(S)} \in SUBSET D /\ s[Max(S)] \in Writes
    BY MaxIn
  <2>2. \A S \in SUBSET D : g[S] = E(g)[S]
    BY <1>2, <1>3, <2>1 DEF Iterates
  <2> QED
    BY <1>3, <2>2
<1>6. h = E(h)
  BY <1>4, <1>5
<1>7. ASSUME NEW k \in 1 .. Len(s), h[1 .. k - 1] = Run(Rows, f, row, s)[k - 1]
      PROVE  h[1 .. k] = f[<<h[1 .. k - 1], s[k]>>]
  <2>1. /\ 1 .. k \in SUBSET D /\ 1 .. k # {} /\ Max(1 .. k) = k
        /\ (1 .. k) \ {Max(1 .. k)} = 1 .. k - 1
    BY FirstPositions
  <2>2. h[1 .. k] = Log!Write(h[1 .. k - 1], s[k])
    <3>1. \A S \in SUBSET D : S # {} => h[S] = Log!Write(h[S \ {Max(S)}], s[Max(S)])
      BY <1>6
    <3> QED
      BY <2>1, <3>1
  <2>3. s[k] \in Writes /\ Run(Rows, f, row, s)[k - 1] \in Rows
    BY <1>2, RunTypes
  <2> QED
    BY <1>2, <1>7, <2>2, <2>3
<1>8. h[{}] = row
  BY <1>6
<1>9. Follows(h, Rows, f, row, s)
  BY <1>7, <1>8 DEF Follows
<1>10. h[DOMAIN s] = Fold(Rows, f, row, s)
  BY <1>2, <1>9, IterRun
<1> QED
  BY <1>1, <1>4, <1>10

\* The writes of a task, repeats dropped: what Upsert does to the row it finds.
FreshStep(row) ==
  [q \in Rows \X Writes |->
     IF row[q[2].msg] = q[2].content THEN q[1] ELSE [q[1] EXCEPT ![q[2].msg] = q[2].content]]

\* The same, with the repeats dropped.
LEMMA FreshFold ==
  ASSUME NEW row \in Rows, NEW s \in Seq(Writes)
  PROVE  FoldLeft(LAMBDA r, w : IF row[w.msg] = w.content THEN r
                                ELSE [r EXCEPT ![w.msg] = w.content], row, s)
           = Fold(Rows, FreshStep(row), row, s)
<1> DEFINE D == DOMAIN s
           Op(r, w) == IF row[w.msg] = w.content THEN r ELSE [r EXCEPT ![w.msg] = w.content]
           E(g) == [S \in SUBSET D |->
                      IF S = {} THEN row ELSE Op(g[S \ {Max(S)}], s[Max(S)])]
<1>1. PICK f : f = FreshStep(row)
  OBVIOUS
<1>2. IsStep(f, Rows, Writes) /\ \A r \in Rows, w \in Writes : f[<<r, w>>] = Op(r, w)
  BY <1>1, WriteStepFacts DEF IsStep, FreshStep
<1>3. PICK g \in [SUBSET D -> Rows] : Iterates(g, D, row, f, s)
  BY <1>2, IterExists
<1>4. PICK h : h = (CHOOSE k : k = E(k)) /\ FoldLeft(Op, row, s) = h[D]
  BY DEF FoldLeft, MapThenFoldSet
<1>11. FoldLeft(LAMBDA r, w : IF row[w.msg] = w.content THEN r
                              ELSE [r EXCEPT ![w.msg] = w.content], row, s) = FoldLeft(Op, row, s)
  OBVIOUS
<1> HIDE DEF Op
<1>5. g = E(g)
  <2>1. \A S \in SUBSET D : S # {} => S \ {Max(S)} \in SUBSET D /\ s[Max(S)] \in Writes
    BY MaxIn
  <2>2. \A S \in SUBSET D : g[S] = E(g)[S]
    BY <1>2, <1>3, <2>1 DEF Iterates
  <2> QED
    BY <1>3, <2>2
<1>6. h = E(h)
  BY <1>4, <1>5
<1>7. ASSUME NEW k \in 1 .. Len(s), h[1 .. k - 1] = Run(Rows, f, row, s)[k - 1]
      PROVE  h[1 .. k] = f[<<h[1 .. k - 1], s[k]>>]
  <2>1. /\ 1 .. k \in SUBSET D /\ 1 .. k # {} /\ Max(1 .. k) = k
        /\ (1 .. k) \ {Max(1 .. k)} = 1 .. k - 1
    BY FirstPositions
  <2>2. h[1 .. k] = Op(h[1 .. k - 1], s[k])
    <3>1. \A S \in SUBSET D : S # {} => h[S] = Op(h[S \ {Max(S)}], s[Max(S)])
      BY <1>6
    <3> QED
      BY <2>1, <3>1
  <2>3. s[k] \in Writes /\ Run(Rows, f, row, s)[k - 1] \in Rows
    BY <1>2, RunTypes
  <2> QED
    BY <1>2, <1>7, <2>2, <2>3
<1>8. h[{}] = row
  BY <1>6
<1>9. Follows(h, Rows, f, row, s)
  BY <1>7, <1>8 DEF Follows
<1>10. h[DOMAIN s] = Fold(Rows, f, row, s)
  BY <1>2, <1>9, IterRun
<1> QED
  BY <1>1, <1>4, <1>10, <1>11

\* Repeats do not matter when the writes are of different messages: the message
\* of a write is still the one of the row that was found.
LEMMA FreshIsWrite ==
  ASSUME NEW row \in Rows, NEW s \in Seq(Writes), Distinct(s)
  PROVE  Fold(Rows, FreshStep(row), row, s) = Fold(Rows, WriteStep, row, s)
<1>1. PICK f, e : f = FreshStep(row) /\ e = WriteStep
  OBVIOUS
<1>2. PICK a, c, n : a = Run(Rows, e, row, s) /\ c = Run(Rows, f, row, s) /\ n = Len(s)
  OBVIOUS
<1>3. IsStep(f, Rows, Writes) /\ IsStep(e, Rows, Writes)
  BY <1>1, WriteStepFacts DEF IsStep, FreshStep
<1>4. Runs(a, n, Rows, e, row, s) /\ Runs(c, n, Rows, f, row, s) /\ n \in Nat
  BY <1>2, <1>3, FoldRun
<1> DEFINE Other(k, m) == \A i \in 1 .. k : s[i].msg # m
           S == {k \in 0 .. n : c[k] = a[k] /\ \A m \in Msg : Other(k, m) => a[k][m] = row[m]}
<1>5. 0 \in S
  BY <1>4 DEF Runs
<1>6. ASSUME NEW k \in 1 .. n, k - 1 \in S  PROVE k \in S
  <2>1. PICK r \in Rows : r = a[k - 1] /\ r = c[k - 1]
    BY <1>4, <1>6 DEF Runs
  <2>2. PICK w \in Writes : w = s[k]
    BY <1>2
  <2>3. a[k] = e[<<r, w>>] /\ c[k] = f[<<r, w>>]
    BY <1>4, <2>1, <2>2 DEF Runs
  <2>4. a[k] = [r EXCEPT ![w.msg] = w.content]
    BY <1>1, <2>3, WriteStepFacts
  <2>5. c[k] = IF row[w.msg] = w.content THEN r ELSE [r EXCEPT ![w.msg] = w.content]
    BY <1>1, <2>3 DEF FreshStep
  <2>6. w.msg \in Msg /\ Other(k - 1, w.msg)
    <3>1. \A i \in 1 .. k - 1 : i \in DOMAIN s /\ k \in DOMAIN s /\ i # k
      BY <1>2, <1>4
    <3> QED
      BY <2>2, <3>1 DEF Distinct, Writes
  <2>7. r[w.msg] = row[w.msg]
    BY <1>6, <2>1, <2>6
  <2>8. c[k] = a[k]
    BY <2>4, <2>5, <2>7 DEF Rows
  <2>9. ASSUME NEW m \in Msg, Other(k, m)  PROVE a[k][m] = row[m]
    <3>1. Other(k - 1, m) /\ w.msg # m
      BY <1>4, <2>2, <2>9
    <3>2. r[m] = row[m]
      BY <1>6, <2>1, <3>1
    <3> QED
      BY <2>4, <3>1, <3>2 DEF Rows
  <2>10. k \in 0 .. n
    OBVIOUS
  <2> QED
    BY <2>8, <2>9, <2>10
<1> HIDE DEF S
<1>7. 0 .. n \subseteq S
  BY <1>4, <1>5, <1>6, InductionUpTo
<1>8. n \in S
  BY <1>4, <1>7
<1> QED
  BY <1>1, <1>2, <1>8 DEF S, Fold

\* What a task writes, merged or not, repeats dropped or not.
LEMMA ApplyFacts ==
  /\ IsStep(ApplyStep, Tables, Tasks)
  /\ \A t \in Tables, p \in Tasks :
       /\ ApplyStep[<<t, p>>] = Log!Apply(t, p)
       /\ ApplyStep[<<t, p>>] = Upsert(t, p)
       /\ ApplyStep[<<t, p>>] =
            IF p.key = "meta" THEN t
            ELSE [t EXCEPT ![p.key] = Fold(Rows, WriteStep, t[p.key], p.writes)]
<1>1. ASSUME NEW t \in Tables, NEW p \in Tasks
      PROVE  /\ Log!Apply(t, p) = IF p.key = "meta" THEN t
                  ELSE [t EXCEPT ![p.key] = Fold(Rows, WriteStep, t[p.key], p.writes)]
             /\ Upsert(t, p) = IF p.key = "meta" THEN t
                  ELSE [t EXCEPT ![p.key] = Fold(Rows, WriteStep, t[p.key], p.writes)]
             /\ Log!Apply(t, p) \in Tables
  <2>1. CASE p.key = "meta"
    BY <2>1 DEF Log!Apply, Upsert
  <2>2. CASE p.key # "meta"
    <3>1. p.key \in Key /\ p.writes \in Seq(Writes) /\ Distinct(p.writes)
      BY <2>2 DEF Tasks
    <3>2. PICK row \in Rows : row = t[p.key]
      BY <3>1 DEF Tables
    <3>3. Log!FoldLeft(Log!Write, t[p.key], p.writes) = Fold(Rows, WriteStep, t[p.key], p.writes)
      BY <3>1, <3>2, WriteFold
    <3>4. Upsert(t, p) = [t EXCEPT ![p.key] = Fold(Rows, FreshStep(row), row, p.writes)]
      <4>1. Upsert(t, p) =
              [t EXCEPT ![p.key] =
                 FoldLeft(LAMBDA r, w : IF row[w.msg] = w.content THEN r
                                        ELSE [r EXCEPT ![w.msg] = w.content], row, p.writes)]
        BY <2>2, <3>2 DEF Upsert
      <4> QED
        BY <3>1, <4>1, FreshFold
    <3>5. Fold(Rows, FreshStep(row), row, p.writes) = Fold(Rows, WriteStep, row, p.writes)
      BY <3>1, FreshIsWrite
    <3>6. Fold(Rows, WriteStep, row, p.writes) \in Rows
      BY <3>1, WriteStepFacts, FoldRun
    <3>7. Log!Apply(t, p) =
            [t EXCEPT ![p.key] = Log!FoldLeft(Log!Write, t[p.key], p.writes)]
      BY <2>2 DEF Log!Apply
    <3>8. [t EXCEPT ![p.key] = Fold(Rows, WriteStep, row, p.writes)] \in Tables
      BY <3>1, <3>6 DEF Tables
    <3> QED
      BY <2>2, <3>2, <3>3, <3>4, <3>5, <3>7, <3>8
  <2> QED
    BY <2>1, <2>2
<1>2. \A t \in Tables, p \in Tasks : ApplyStep[<<t, p>>] = Log!Apply(t, p)
  BY DEF ApplyStep
<1>3. IsStep(ApplyStep, Tables, Tasks)
  BY <1>1 DEF IsStep, ApplyStep
<1> QED
  BY <1>1, <1>2, <1>3

\* Tasks, one after the other, as the log writes them.
LEMMA ApplyFold ==
  ASSUME NEW t0 \in Tables, NEW s \in Seq(Tasks)
  PROVE  Log!FoldLeft(Log!Apply, t0, s) = Fold(Tables, ApplyStep, t0, s)
<1> DEFINE D == DOMAIN s
           E(g) == [S \in SUBSET D |->
                      IF S = {} THEN t0 ELSE Log!Apply(g[S \ {Max(S)}], s[Max(S)])]
<1>1. PICK f : f = ApplyStep
  OBVIOUS
<1>2. /\ IsStep(f, Tables, Tasks)
      /\ \A t \in Tables, p \in Tasks : f[<<t, p>>] = Log!Apply(t, p)
  BY <1>1, ApplyFacts
<1>3. PICK g \in [SUBSET D -> Tables] : Iterates(g, D, t0, f, s)
  BY <1>2, IterExists
<1>4. PICK h : h = (CHOOSE k : k = E(k)) /\ Log!FoldLeft(Log!Apply, t0, s) = h[D]
  BY DEF Log!FoldLeft, Log!MapThenFoldSet, Log!Max, Max
<1>5. g = E(g)
  <2>1. \A S \in SUBSET D : S # {} => S \ {Max(S)} \in SUBSET D /\ s[Max(S)] \in Tasks
    BY MaxIn
  <2>2. \A S \in SUBSET D : g[S] = E(g)[S]
    BY <1>2, <1>3, <2>1 DEF Iterates
  <2> QED
    BY <1>3, <2>2
<1>6. h = E(h)
  BY <1>4, <1>5
<1>7. ASSUME NEW k \in 1 .. Len(s), h[1 .. k - 1] = Run(Tables, f, t0, s)[k - 1]
      PROVE  h[1 .. k] = f[<<h[1 .. k - 1], s[k]>>]
  <2>1. /\ 1 .. k \in SUBSET D /\ 1 .. k # {} /\ Max(1 .. k) = k
        /\ (1 .. k) \ {Max(1 .. k)} = 1 .. k - 1
    BY FirstPositions
  <2>2. h[1 .. k] = Log!Apply(h[1 .. k - 1], s[k])
    <3>1. \A S \in SUBSET D : S # {} => h[S] = Log!Apply(h[S \ {Max(S)}], s[Max(S)])
      BY <1>6
    <3> QED
      BY <2>1, <3>1
  <2>3. s[k] \in Tasks /\ Run(Tables, f, t0, s)[k - 1] \in Tables
    BY <1>2, RunTypes
  <2> QED
    BY <1>2, <1>7, <2>2, <2>3
<1>8. h[{}] = t0
  BY <1>6
<1>9. Follows(h, Tables, f, t0, s)
  BY <1>7, <1>8 DEF Follows
<1>10. h[DOMAIN s] = Fold(Tables, f, t0, s)
  BY <1>2, <1>9, IterRun
<1> QED
  BY <1>1, <1>4, <1>10

\* Tasks, one after the other, as the transaction writes them.
LEMMA UpsertFold ==
  ASSUME NEW t0 \in Tables, NEW s \in Seq(Tasks)
  PROVE  FoldLeft(Upsert, t0, s) = Fold(Tables, ApplyStep, t0, s)
<1> DEFINE D == DOMAIN s
           E(g) == [S \in SUBSET D |->
                      IF S = {} THEN t0 ELSE Upsert(g[S \ {Max(S)}], s[Max(S)])]
<1>1. PICK f : f = ApplyStep
  OBVIOUS
<1>2. /\ IsStep(f, Tables, Tasks)
      /\ \A t \in Tables, p \in Tasks : f[<<t, p>>] = Upsert(t, p)
  BY <1>1, ApplyFacts
<1>3. PICK g \in [SUBSET D -> Tables] : Iterates(g, D, t0, f, s)
  BY <1>2, IterExists
<1>4. PICK h : h = (CHOOSE k : k = E(k)) /\ FoldLeft(Upsert, t0, s) = h[D]
  BY DEF FoldLeft, MapThenFoldSet
<1>5. g = E(g)
  <2>1. \A S \in SUBSET D : S # {} => S \ {Max(S)} \in SUBSET D /\ s[Max(S)] \in Tasks
    BY MaxIn
  <2>2. \A S \in SUBSET D : g[S] = E(g)[S]
    BY <1>2, <1>3, <2>1 DEF Iterates
  <2> QED
    BY <1>3, <2>2
<1>6. h = E(h)
  BY <1>4, <1>5
<1>7. ASSUME NEW k \in 1 .. Len(s), h[1 .. k - 1] = Run(Tables, f, t0, s)[k - 1]
      PROVE  h[1 .. k] = f[<<h[1 .. k - 1], s[k]>>]
  <2>1. /\ 1 .. k \in SUBSET D /\ 1 .. k # {} /\ Max(1 .. k) = k
        /\ (1 .. k) \ {Max(1 .. k)} = 1 .. k - 1
    BY FirstPositions
  <2>2. h[1 .. k] = Upsert(h[1 .. k - 1], s[k])
    <3>1. \A S \in SUBSET D : S # {} => h[S] = Upsert(h[S \ {Max(S)}], s[Max(S)])
      BY <1>6
    <3> QED
      BY <2>1, <3>1
  <2>3. s[k] \in Tasks /\ Run(Tables, f, t0, s)[k - 1] \in Tables
    BY <1>2, RunTypes
  <2> QED
    BY <1>2, <1>7, <2>2, <2>3
<1>8. h[{}] = t0
  BY <1>6
<1>9. Follows(h, Tables, f, t0, s)
  BY <1>7, <1>8 DEF Follows
<1>10. h[DOMAIN s] = Fold(Tables, f, t0, s)
  BY <1>2, <1>9, IterRun
<1> QED
  BY <1>1, <1>4, <1>10

JoinStep == [q \in Seq(Tasks) \X Tasks |-> Join(q[1], q[2])]

\* A nonempty sequence is its front and its last element.
LEMMA FrontLast ==
  ASSUME NEW X, NEW d \in Seq(X), d # <<>>
  PROVE  Front(d) \in Seq(X) /\ Last(d) \in X /\ d = Append(Front(d), Last(d))
<1>1. Len(d) \in Nat /\ Len(d) >= 1 /\ d \in [1 .. Len(d) -> X]
  BY EmptySeq, LenProperties
<1>2. Front(d) = SubSeq(d, 1, Len(d) - 1) /\ Last(d) = d[Len(d)]
  BY DEF Front, Last
<1>3. /\ Front(d) \in Seq(X) /\ Len(Front(d)) = Len(d) - 1
      /\ \A i \in 1 .. Len(d) - 1 : Front(d)[i] = d[i]
  BY <1>1, <1>2, SubSeqProperties
<1>4. Last(d) \in X
  BY <1>1, <1>2
<1>5. PICK e, x, n : e = Front(d) /\ x = Last(d) /\ n = Len(d)
  OBVIOUS
<1>6. /\ Append(e, x) \in Seq(X) /\ Len(Append(e, x)) = n
      /\ \A i \in 1 .. n : Append(e, x)[i] = d[i]
  <2>1. /\ e \in Seq(X) /\ x \in X /\ Len(e) = n - 1 /\ n \in Nat /\ x = d[n]
        /\ \A i \in 1 .. n - 1 : e[i] = d[i]
    BY <1>1, <1>2, <1>3, <1>4, <1>5
  <2>2. /\ Append(e, x) \in Seq(X) /\ Len(Append(e, x)) = n
        /\ \A i \in 1 .. n : Append(e, x)[i] = IF i = n THEN x ELSE e[i]
    BY <2>1, AppendProperties
  <2> QED
    BY <2>1, <2>2
<1>7. Append(e, x) = d
  BY <1>1, <1>5, <1>6, SeqEqual
<1> QED
  BY <1>3, <1>4, <1>5, <1>7

\* Two tasks in one: the writes of both, in order.
LEMMA Merged ==
  ASSUME NEW u \in Tasks, NEW p \in Tasks, Mergeable(u, p)
  PROVE  /\ [p EXCEPT !.writes = u.writes \o @] \in Tasks
         /\ \A t \in Tables :
              ApplyStep[<<t, [p EXCEPT !.writes = u.writes \o @]>>]
                = ApplyStep[<<ApplyStep[<<t, u>>], p>>]
<1>1. PICK k, v, w : k = p.key /\ v = u.writes /\ w = p.writes
  OBVIOUS
<1>2. /\ k = u.key /\ k # "meta" /\ k \in Key
      /\ v \in Seq(Writes) /\ w \in Seq(Writes) /\ Distinct(v) /\ Distinct(w)
  BY <1>1 DEF Mergeable, Tasks
<1>3. PICK m : m = [p EXCEPT !.writes = u.writes \o @]
  OBVIOUS
<1>4. m.key = k /\ m.writes = v \o w /\ m = [key |-> k, writes |-> v \o w]
  BY <1>1, <1>3 DEF Tasks
<1>5. \A i \in DOMAIN v, j \in DOMAIN w : v[i].msg # w[j].msg
  <2>1. ASSUME NEW i \in DOMAIN v, NEW j \in DOMAIN w, v[i].msg = w[j].msg  PROVE FALSE
    <3>1. v[i].msg \in Ids(u) /\ w[j].msg \in Ids(p)
      BY <1>1 DEF Ids, Range
    <3> QED
      BY <2>1, <3>1 DEF Mergeable
  <2> QED
    BY <2>1
<1>6. Distinct(v \o w)
  <2>1. /\ DOMAIN v = 1 .. Len(v) /\ DOMAIN w = 1 .. Len(w)
        /\ DOMAIN (v \o w) = 1 .. Len(v) + Len(w) /\ Len(v) \in Nat /\ Len(w) \in Nat
        /\ \A i \in DOMAIN (v \o w) : (v \o w)[i] = IF i <= Len(v) THEN v[i] ELSE w[i - Len(v)]
    BY <1>2
  <2> SUFFICES ASSUME NEW i \in DOMAIN (v \o w), NEW j \in DOMAIN (v \o w), i # j,
                      (v \o w)[i].msg = (v \o w)[j].msg
               PROVE  FALSE
    BY DEF Distinct
  <2>2. \A x \in DOMAIN (v \o w) :
          \/ x \in DOMAIN v /\ (v \o w)[x] = v[x]
          \/ x - Len(v) \in DOMAIN w /\ (v \o w)[x] = w[x - Len(v)]
    BY <2>1
  <2>3. CASE i \in DOMAIN v /\ (v \o w)[i] = v[i] /\ j \in DOMAIN v /\ (v \o w)[j] = v[j]
    BY <1>2, <2>3 DEF Distinct
  <2>4. CASE /\ i - Len(v) \in DOMAIN w /\ (v \o w)[i] = w[i - Len(v)]
             /\ j - Len(v) \in DOMAIN w /\ (v \o w)[j] = w[j - Len(v)]
    <3>1. i - Len(v) # j - Len(v)
      BY <2>1
    <3> QED
      BY <1>2, <2>4, <3>1 DEF Distinct
  <2> QED
    BY <1>5, <2>2, <2>3, <2>4
<1>7. m \in Tasks
  <2>1. v \o w \in Seq(Writes)
    BY <1>2
  <2> QED
    BY <1>2, <1>4, <1>6, <2>1 DEF Tasks
<1>8. ASSUME NEW t \in Tables  PROVE ApplyStep[<<t, m>>] = ApplyStep[<<ApplyStep[<<t, u>>], p>>]
  <2>1. PICK row \in Rows : row = t[k]
    BY <1>2 DEF Tables
  <2>2. PICK new \in Rows : new = Fold(Rows, WriteStep, row, v)
    BY <1>2, WriteStepFacts, FoldRun
  <2>3. PICK r \in Tables : r = ApplyStep[<<t, u>>]
    BY ApplyFacts DEF IsStep
  <2>4. r = [t EXCEPT ![k] = new]
    BY <1>1, <1>2, <2>1, <2>2, <2>3, ApplyFacts
  <2>5. ApplyStep[<<r, p>>] = [r EXCEPT ![k] = Fold(Rows, WriteStep, r[k], w)]
    <3>1. ApplyStep[<<r, p>>] =
            IF p.key = "meta" THEN r
            ELSE [r EXCEPT ![p.key] = Fold(Rows, WriteStep, r[p.key], p.writes)]
      BY ApplyFacts
    <3> QED
      BY <1>1, <1>2, <3>1
  <2>6. r[k] = new
    BY <1>2, <2>4 DEF Tables
  <2>7. PICK last : last = Fold(Rows, WriteStep, new, w)
    OBVIOUS
  <2>8. Fold(Rows, WriteStep, row, v \o w) = last
    BY <1>2, <2>2, <2>7, WriteStepFacts, FoldConcat
  <2>9. ApplyStep[<<t, m>>] = [t EXCEPT ![k] = last]
    BY <1>2, <1>4, <1>7, <2>1, <2>8, ApplyFacts
  <2>10. ApplyStep[<<r, p>>] = [r EXCEPT ![k] = last]
    BY <2>5, <2>6, <2>7
  <2>11. [r EXCEPT ![k] = last] = [t EXCEPT ![k] = last]
    BY <1>2, <2>4 DEF Tables
  <2> QED
    BY <2>3, <2>9, <2>10, <2>11
<1> QED
  BY <1>3, <1>7, <1>8

\* One more task, merged with the one before it or not.
LEMMA JoinFacts ==
  /\ IsStep(JoinStep, Seq(Tasks), Tasks)
  /\ \A d \in Seq(Tasks), p \in Tasks :
       /\ JoinStep[<<d, p>>] = Join(d, p)
       /\ \A t \in Tables :
            Fold(Tables, ApplyStep, t, Join(d, p))
              = ApplyStep[<<Fold(Tables, ApplyStep, t, d), p>>]
<1>1. ASSUME NEW d \in Seq(Tasks), NEW p \in Tasks
      PROVE  /\ Join(d, p) \in Seq(Tasks)
             /\ \A t \in Tables :
                  Fold(Tables, ApplyStep, t, Join(d, p))
                    = ApplyStep[<<Fold(Tables, ApplyStep, t, d), p>>]
  <2>1. CASE d # <<>> /\ Mergeable(Last(d), p)
    <3>1. PICK e, u : e = Front(d) /\ u = Last(d)
      OBVIOUS
    <3>2. e \in Seq(Tasks) /\ u \in Tasks /\ d = Append(e, u)
      BY <2>1, <3>1, FrontLast
    <3>3. PICK m : m = [p EXCEPT !.writes = u.writes \o @]
      OBVIOUS
    <3>4. Join(d, p) = Append(e, m)
      BY <2>1, <3>1, <3>3 DEF Join
    <3>5. /\ m \in Tasks
          /\ \A t \in Tables : ApplyStep[<<t, m>>] = ApplyStep[<<ApplyStep[<<t, u>>], p>>]
      BY <2>1, <3>1, <3>2, <3>3, Merged
    <3>6. ASSUME NEW t \in Tables
          PROVE  Fold(Tables, ApplyStep, t, Append(e, m))
                   = ApplyStep[<<Fold(Tables, ApplyStep, t, d), p>>]
      <4>1. PICK r \in Tables : r = Fold(Tables, ApplyStep, t, e)
        BY <3>2, ApplyFacts, FoldRun
      <4>2. /\ Fold(Tables, ApplyStep, t, Append(e, m)) = ApplyStep[<<r, m>>]
            /\ Fold(Tables, ApplyStep, t, Append(e, u)) = ApplyStep[<<r, u>>]
        BY <3>2, <3>5, <4>1, ApplyFacts, FoldLaws
      <4> QED
        BY <3>2, <3>5, <4>2
    <3> QED
      BY <3>2, <3>4, <3>5, <3>6
  <2>2. CASE ~(d # <<>> /\ Mergeable(Last(d), p))
    <3>1. Join(d, p) = Append(d, p)
      BY <2>2 DEF Join
    <3>2. \A t \in Tables : Fold(Tables, ApplyStep, t, Append(d, p))
                              = ApplyStep[<<Fold(Tables, ApplyStep, t, d), p>>]
      BY ApplyFacts, FoldLaws
    <3> QED
      BY <3>1, <3>2
  <2> QED
    BY <2>1, <2>2
<1>2. \A d \in Seq(Tasks), p \in Tasks : JoinStep[<<d, p>>] = Join(d, p)
  BY DEF JoinStep
<1>3. IsStep(JoinStep, Seq(Tasks), Tasks)
  BY <1>1 DEF IsStep, JoinStep
<1> QED
  BY <1>1, <1>2, <1>3

\* Neighbours are merged from the left.
LEMMA JoinFold ==
  ASSUME NEW s \in Seq(Tasks)
  PROVE  FoldLeft(Join, <<>>, s) = Fold(Seq(Tasks), JoinStep, <<>>, s)
<1> DEFINE D == DOMAIN s
           E(g) == [S \in SUBSET D |->
                      IF S = {} THEN <<>> ELSE Join(g[S \ {Max(S)}], s[Max(S)])]
<1>0. PICK T, b, f : T = Seq(Tasks) /\ b = <<>> /\ f = JoinStep
  OBVIOUS
<1>1. b \in T /\ IsStep(f, T, Tasks)
  BY <1>0, JoinFacts
<1>2. \A d \in T, p \in Tasks : f[<<d, p>>] = Join(d, p)
  BY <1>0, JoinFacts
<1>3. PICK g \in [SUBSET D -> T] : Iterates(g, D, b, f, s)
  BY <1>1, IterExists
<1>4. PICK h : h = (CHOOSE k : k = E(k)) /\ FoldLeft(Join, <<>>, s) = h[D]
  BY DEF FoldLeft, MapThenFoldSet
<1>5. g = E(g)
  <2>1. \A S \in SUBSET D : S # {} => S \ {Max(S)} \in SUBSET D /\ s[Max(S)] \in Tasks
    BY MaxIn
  <2>2. \A S \in SUBSET D : g[S] = E(g)[S]
    BY <1>0, <1>2, <1>3, <2>1 DEF Iterates
  <2> QED
    BY <1>3, <2>2
<1>6. h = E(h)
  BY <1>4, <1>5
<1>7. ASSUME NEW k \in 1 .. Len(s), h[1 .. k - 1] = Run(T, f, b, s)[k - 1]
      PROVE  h[1 .. k] = f[<<h[1 .. k - 1], s[k]>>]
  <2>1. /\ 1 .. k \in SUBSET D /\ 1 .. k # {} /\ Max(1 .. k) = k
        /\ (1 .. k) \ {Max(1 .. k)} = 1 .. k - 1
    BY FirstPositions
  <2>2. h[1 .. k] = Join(h[1 .. k - 1], s[k])
    <3>1. \A S \in SUBSET D : S # {} => h[S] = Join(h[S \ {Max(S)}], s[Max(S)])
      BY <1>6
    <3> QED
      BY <2>1, <3>1
  <2>3. s[k] \in Tasks /\ Run(T, f, b, s)[k - 1] \in T
    BY <1>1, RunTypes
  <2> QED
    BY <1>2, <1>7, <2>2, <2>3
<1>8. h[{}] = b
  BY <1>0, <1>6
<1>9. Follows(h, T, f, b, s)
  BY <1>7, <1>8 DEF Follows
<1>10. h[DOMAIN s] = Fold(T, f, b, s)
  BY <1>1, <1>9, IterRun
<1> QED
  BY <1>0, <1>4, <1>10

\* Merging neighbours and dropping repeats do not show in the database.
LEMMA CoalesceFold ==
  ASSUME NEW t \in Tables, NEW s \in Seq(Tasks)
  PROVE  /\ FoldLeft(Upsert, t, Coalesce(s)) = Log!FoldLeft(Log!Apply, t, s)
         /\ FoldLeft(Upsert, t, Coalesce(s)) \in Tables
<1>0. PICK Q, b, f, e : /\ Q = Seq(Tasks) /\ b = <<>> /\ f = JoinStep
                        /\ e = ApplyStep
  OBVIOUS
<1>1. PICK a, c, n : a = Run(Q, f, b, s) /\ c = Run(Tables, e, t, s) /\ n = Len(s)
  OBVIOUS
<1>2. b \in Q /\ IsStep(f, Q, Tasks) /\ IsStep(e, Tables, Tasks)
  BY <1>0, ApplyFacts, JoinFacts
<1>3. Runs(a, n, Q, f, b, s) /\ Runs(c, n, Tables, e, t, s) /\ Fold(Q, f, b, s) \in Q
  BY <1>1, <1>2, FoldRun
<1>12. n \in Nat /\ \A k \in 1 .. n : s[k] \in Tasks
  BY <1>1
<1> DEFINE S == {k \in 0 .. n : Fold(Tables, e, t, a[k]) = c[k]}
<1>4. 0 \in S
  <2>1. Fold(Tables, e, t, <<>>) = t
    BY <1>2, FoldLaws
  <2> QED
    BY <1>0, <1>3, <1>12, <2>1 DEF Runs
<1>5. ASSUME NEW k \in 1 .. n, k - 1 \in S  PROVE k \in S
  <2>1. a[k - 1] \in Q /\ k \in 0 .. n
    BY <1>3, <1>12 DEF Runs
  <2>2. PICK d \in Seq(Tasks), p \in Tasks : d = a[k - 1] /\ p = s[k]
    BY <1>0, <1>12, <2>1
  <2>3. a[k] = f[<<d, p>>] /\ c[k] = e[<<c[k - 1], p>>]
    BY <1>3, <2>2 DEF Runs
  <2>4. f[<<d, p>>] = Join(d, p)
    BY <1>0, JoinFacts
  <2>5. Fold(Tables, e, t, Join(d, p)) = e[<<Fold(Tables, e, t, d), p>>]
    BY <1>0, JoinFacts
  <2>6. Fold(Tables, e, t, d) = c[k - 1]
    BY <1>5, <2>2
  <2> QED
    BY <2>1, <2>3, <2>4, <2>5, <2>6
<1> HIDE DEF S
<1>6. 0 .. n \subseteq S
  BY <1>4, <1>5, <1>12, InductionUpTo
<1>7. n \in 0 .. n
  BY <1>12
<1>8. Fold(Tables, e, t, Fold(Q, f, b, s)) = Fold(Tables, e, t, s)
  BY <1>1, <1>6, <1>7 DEF S, Fold
<1>9. Coalesce(s) = Fold(Q, f, b, s)
  BY <1>0, JoinFold DEF Coalesce
<1>10. Coalesce(s) \in Seq(Tasks)
  BY <1>0, <1>3, <1>9
<1>11. FoldLeft(Upsert, t, Coalesce(s)) = Fold(Tables, e, t, Coalesce(s))
  BY <1>0, <1>10, UpsertFold
<1>13. Fold(Tables, e, t, Coalesce(s)) \in Tables
  BY <1>2, <1>10, FoldRun
<1> QED
  BY <1>0, <1>8, <1>9, <1>11, <1>13, ApplyFold

-----------------------------------------------------------------------------
(* The bound on a batch.                                                   *)

\* A submitted task is a task with writes of different messages.
LEMMA PayloadTasks == Payloads \subseteq Tasks
  BY QueueAssumption DEF Tasks, Writes, Distinct

\* One more task adds its messages.
LEMMA CountStepFacts ==
  /\ IsStep(CountStep, Nat, Tasks)
  /\ \A n \in Nat, p \in Tasks : CountStep[<<n, p>>] = n + Count(p) /\ Count(p) \in Nat
<1>1. \A p \in Tasks : Count(p) \in Nat
  BY DEF Tasks, Count
<1> QED
  BY <1>1 DEF IsStep, CountStep

\* The messages of tasks, one task after the other.
LEMMA CountFold ==
  ASSUME NEW s \in Seq(Tasks)
  PROVE  FoldLeft(LAMBDA n, p : n + Count(p), 0, s) = Fold(Nat, CountStep, 0, s)
<1> DEFINE D == DOMAIN s
           E(g) == [S \in SUBSET D |->
                      IF S = {} THEN 0 ELSE g[S \ {Max(S)}] + Count(s[Max(S)])]
<1>0. PICK T, b, f : T = Nat /\ b = 0 /\ f = CountStep
  OBVIOUS
<1>1. b \in T /\ IsStep(f, T, Tasks)
  BY <1>0, CountStepFacts
<1>2. \A n \in T, p \in Tasks : f[<<n, p>>] = n + Count(p)
  BY <1>0, CountStepFacts
<1>3. PICK g \in [SUBSET D -> T] : Iterates(g, D, b, f, s)
  BY <1>1, IterExists
<1>4. PICK h : h = (CHOOSE k : k = E(k)) /\ FoldLeft(LAMBDA n, p : n + Count(p), 0, s) = h[D]
  BY DEF FoldLeft, MapThenFoldSet
<1>5. g = E(g)
  <2>1. \A S \in SUBSET D : S # {} => S \ {Max(S)} \in SUBSET D /\ s[Max(S)] \in Tasks
    BY MaxIn
  <2>2. \A S \in SUBSET D : g[S] = E(g)[S]
    BY <1>0, <1>2, <1>3, <2>1 DEF Iterates
  <2> QED
    BY <1>3, <2>2
<1>6. h = E(h)
  BY <1>4, <1>5
<1>7. ASSUME NEW k \in 1 .. Len(s), h[1 .. k - 1] = Run(T, f, b, s)[k - 1]
      PROVE  h[1 .. k] = f[<<h[1 .. k - 1], s[k]>>]
  <2>1. /\ 1 .. k \in SUBSET D /\ 1 .. k # {} /\ Max(1 .. k) = k
        /\ (1 .. k) \ {Max(1 .. k)} = 1 .. k - 1
    BY FirstPositions
  <2>2. h[1 .. k] = h[1 .. k - 1] + Count(s[k])
    <3>1. \A S \in SUBSET D : S # {} => h[S] = h[S \ {Max(S)}] + Count(s[Max(S)])
      BY <1>6
    <3> QED
      BY <2>1, <3>1
  <2>3. s[k] \in Tasks /\ Run(T, f, b, s)[k - 1] \in T
    BY <1>1, RunTypes
  <2> QED
    BY <1>2, <1>7, <2>2, <2>3
<1>8. h[{}] = b
  BY <1>0, <1>6
<1>9. Follows(h, T, f, b, s)
  BY <1>7, <1>8 DEF Follows
<1>10. h[DOMAIN s] = Fold(T, f, b, s)
  BY <1>1, <1>9, IterRun
<1> QED
  BY <1>0, <1>4, <1>10

Total(s) == Fold(Nat, CountStep, 0, s)

\* A task has no more messages than all of them together.
LEMMA TotalFacts ==
  ASSUME NEW s \in Seq(Tasks)
  PROVE  /\ Total(s) \in Nat /\ Total(<<>>) = 0
         /\ \A p \in Tasks : Total(Append(s, p)) = Total(s) + Count(p)
         /\ \A i \in DOMAIN s : Count(s[i]) \in Nat /\ Count(s[i]) <= Total(s)
<1>0. PICK T, b, f : T = Nat /\ b = 0 /\ f = CountStep
  OBVIOUS
<1>1. b \in T /\ IsStep(f, T, Tasks)
  BY <1>0, CountStepFacts
<1>2. PICK a, n : a = Run(T, f, b, s) /\ n = Len(s)
  OBVIOUS
<1>3. Runs(a, n, T, f, b, s) /\ Fold(T, f, b, s) \in T
  BY <1>1, <1>2, FoldRun
<1>4. n \in Nat /\ \A k \in 1 .. n : s[k] \in Tasks
  BY <1>2
<1>5. Fold(T, f, b, <<>>) = b /\ \A p \in Tasks :
        Fold(T, f, b, Append(s, p)) = f[<<Fold(T, f, b, s), p>>]
  BY <1>1, FoldLaws
<1> DEFINE S == {k \in 0 .. n : \A i \in 1 .. k : Count(s[i]) <= a[k]}
<1>6. 0 \in S
  BY <1>4
<1>7. ASSUME NEW k \in 1 .. n, k - 1 \in S  PROVE k \in S
  <2>1. a[k - 1] \in Nat /\ a[k] = a[k - 1] + Count(s[k]) /\ Count(s[k]) \in Nat
    <3>1. a[k] = f[<<a[k - 1], s[k]>>] /\ a[k - 1] \in T
      BY <1>3, <1>4 DEF Runs
    <3> QED
      BY <1>0, <1>4, <3>1, CountStepFacts
  <2>2. ASSUME NEW i \in 1 .. k  PROVE Count(s[i]) <= a[k]
    <3>1. CASE i = k
      BY <2>1, <3>1
    <3>2. CASE i # k
      <4>1. i \in 1 .. k - 1 /\ i \in 1 .. n
        BY <1>4, <3>2
      <4>2. Count(s[i]) <= a[k - 1] /\ Count(s[i]) \in Nat
        BY <1>4, <1>7, <4>1, CountStepFacts
      <4> QED
        BY <2>1, <4>2
    <3> QED
      BY <3>1, <3>2
  <2> QED
    BY <1>4, <2>2
<1> HIDE DEF S
<1>8. 0 .. n \subseteq S
  BY <1>4, <1>6, <1>7, InductionUpTo
<1>9. n \in 0 .. n
  BY <1>4
<1>10. \A i \in 1 .. n : Count(s[i]) <= a[n]
  BY <1>8, <1>9 DEF S
<1>11. Total(s) = a[n] /\ DOMAIN s = 1 .. n
  BY <1>0, <1>2 DEF Total, Fold
<1>12. \A p \in Tasks : Total(Append(s, p)) = Total(s) + Count(p)
  BY <1>0, <1>3, <1>5, CountStepFacts DEF Total
<1>13. Total(<<>>) = 0 /\ Total(s) \in Nat
  BY <1>0, <1>3, <1>5 DEF Total
<1> QED
  BY <1>4, <1>10, <1>11, <1>12, <1>13, CountStepFacts

\* The positions b of the log are the next ones after n, and ts is what l holds there.
IsPiece(l, b, n, ts) ==
  /\ l \in Seq(Payloads) /\ b \in Seq(Nat) /\ n \in Nat
  /\ n + Len(b) <= Len(l)
  /\ \A i \in 1 .. Len(b) : b[i] = n + i
  /\ ts = [i \in DOMAIN b |-> l[b[i]]]

\* A piece of the log, by its positions.
LEMMA Piece ==
  ASSUME NEW l, NEW b, NEW n, NEW ts, IsPiece(l, b, n, ts)
  PROVE  /\ ts \in Seq(Tasks) /\ Len(ts) = Len(b) /\ Len(b) \in Nat
         /\ ts = SubSeq(l, n + 1, n + Len(b))
         /\ Messages(ts) = Total(ts)
<1>0. /\ l \in Seq(Payloads) /\ b \in Seq(Nat) /\ n \in Nat /\ n + Len(b) <= Len(l)
      /\ \A i \in 1 .. Len(b) : b[i] = n + i
      /\ ts = [i \in DOMAIN b |-> l[b[i]]]
  BY DEF IsPiece
<1>1. Len(b) \in Nat /\ Len(l) \in Nat /\ DOMAIN b = 1 .. Len(b)
  BY <1>0
<1>2. \A i \in 1 .. Len(b) : b[i] = n + i /\ b[i] \in 1 .. Len(l)
  BY <1>0, <1>1
<1>3. ts = [i \in 1 .. Len(b) |-> l[n + i]]
  BY <1>0, <1>1, <1>2
<1>4. \A i \in 1 .. Len(b) : l[n + i] \in Tasks
  BY <1>0, <1>1, <1>2, PayloadTasks
<1>5. ts \in Seq(Tasks) /\ Len(ts) = Len(b)
  BY <1>1, <1>3, <1>4
<1>6. ts = SubSeq(l, n + 1, n + Len(b))
  BY <1>0, <1>1, <1>3
<1>7. Messages(ts) = Total(ts)
  BY <1>5, CountFold DEF Messages, Total
<1> QED
  BY <1>1, <1>5, <1>6, <1>7

\* The tasks of the batch are the next ones of the log.
LEMMA BatchIsNext ==
  ASSUME Types, Order
  PROVE  /\ BatchTasks \in Seq(Tasks) /\ Len(BatchTasks) = Len(batch) /\ Len(batch) \in Nat
         /\ BatchTasks = SubSeq(log, settled + 1, settled + Len(batch))
         /\ settled + Len(batch) <= Len(log) /\ Len(log) \in Nat
         /\ BatchCount = Total(BatchTasks)
         /\ \A i \in DOMAIN batch : batch[i] \in 1 .. Len(log)
<1>1. /\ batch \in Seq(Nat) /\ settled \in Nat /\ Len(batch) \in Nat /\ Len(carried) \in Nat
      /\ log \in Seq(Payloads) /\ Len(log) \in Nat
  BY DEF Types
<1>2. settled + Len(batch) <= Len(log)
  BY <1>1 DEF Order, Held
<1>3. \A i \in 1 .. Len(batch) : batch[i] = settled + i
  BY DEF Order
<1>4. /\ BatchTasks \in Seq(Tasks) /\ Len(BatchTasks) = Len(batch)
      /\ BatchTasks = SubSeq(log, settled + 1, settled + Len(batch))
      /\ Messages(BatchTasks) = Total(BatchTasks)
  <2>1. IsPiece(log, batch, settled, BatchTasks)
    BY <1>1, <1>2, <1>3 DEF IsPiece, BatchTasks
  <2> QED
    BY <2>1, Piece
<1>6. \A i \in DOMAIN batch : batch[i] \in 1 .. Len(log)
  BY <1>1, <1>2, <1>3
<1>5. BatchCount = Total(BatchTasks)
  BY <1>4 DEF BatchCount
<1> QED
  BY <1>1, <1>2, <1>4, <1>5, <1>6

\* The same, of the next state.
LEMMA BatchIsNextAfter ==
  ASSUME Types', Order'
  PROVE  /\ BatchTasks' \in Seq(Tasks) /\ Len(BatchTasks') = Len(batch')
         /\ BatchCount' = Total(BatchTasks')
<1>1. /\ batch' \in Seq(Nat) /\ settled' \in Nat /\ Len(batch') \in Nat /\ Len(carried') \in Nat
      /\ log' \in Seq(Payloads) /\ Len(log') \in Nat
  BY DEF Types
<1>2. settled' + Len(batch') <= Len(log')
  BY <1>1 DEF Order, Held
<1>3. \A i \in 1 .. Len(batch') : batch'[i] = settled' + i
  BY DEF Order
<1>4. /\ BatchTasks' \in Seq(Tasks) /\ Len(BatchTasks') = Len(batch')
      /\ Messages(BatchTasks') = Total(BatchTasks')
  <2>1. IsPiece(log', batch', settled', BatchTasks')
    BY <1>1, <1>2, <1>3 DEF IsPiece, BatchTasks
  <2> QED
    BY <2>1, Piece
<1>5. BatchCount' = Total(BatchTasks')
  BY <1>4 DEF BatchCount
<1> QED
  BY <1>4, <1>5

\* While tasks join or wait, the batch keeps to its bounds: beyond MaxMessages only
\* one of its tasks has messages.
Batches ==
  /\ Len(batch) <= MaxTasks
  /\ BatchCount > MaxMessages =>
       \E i \in DOMAIN batch : \A j \in DOMAIN batch : Count(BatchTasks[j]) > 0 <=> j = i

\* The bounds hold for the batch of the next state by its tasks.
LEMMA BatchesBy ==
  ASSUME Types', Order',
         Len(batch') <= MaxTasks,
         Total(BatchTasks') > MaxMessages =>
           \E i \in DOMAIN BatchTasks' :
             \A j \in DOMAIN BatchTasks' : Count(BatchTasks'[j]) > 0 <=> j = i
  PROVE  Batches'
<1>1. Total(BatchTasks') = BatchCount'
  BY BatchIsNextAfter
<1>2. DOMAIN BatchTasks' = DOMAIN batch'
  BY DEF BatchTasks
<1> QED
  BY <1>1, <1>2 DEF Batches

\* The batch keeps to its bounds.
LEMMA BatchesKept ==
  ASSUME IInv, Batches, [Next]_vars
  PROVE  Batches'
<1>1. Types /\ Where /\ Order /\ Types' /\ Order'
  BY TypesKept, OrderKept DEF IInv
<1>2. /\ MaxTasks \in Nat /\ MaxTasks >= 1 /\ MaxMessages \in Nat /\ MaxMessages >= 1
      /\ Len(batch) \in Nat
  BY <1>1, QueueAssumption DEF Types
<1>3. ASSUME batch' = <<>>  PROVE Batches'
  <2>1. BatchTasks' = <<>>
    BY <1>3 DEF BatchTasks
  <2>2. Total(<<>>) = 0
    <3>1. <<>> \in Seq(Tasks)
      OBVIOUS
    <3> QED
      BY <3>1, TotalFacts
  <2> QED
    BY <1>1, <1>2, <1>3, <2>1, <2>2, BatchesBy
<1>4. ASSUME NEW n \in Nat, batch' = <<n>>  PROVE Batches'
  <2>1. BatchTasks' \in Seq(Tasks) /\ Len(BatchTasks') = Len(batch')
    BY <1>1, BatchIsNextAfter
  <2>2. Len(batch') = 1
    BY <1>4
  <2>3. PICK p \in Tasks : BatchTasks' = <<p>>
    <3>1. BatchTasks'[1] \in Tasks /\ BatchTasks' = <<BatchTasks'[1]>>
      BY <2>1, <2>2
    <3> QED
      BY <3>1
  <2>4. Total(<<p>>) = Count(p) /\ Count(p) \in Nat
    <3>0. PICK e : e = <<>>
      OBVIOUS
    <3>1. e \in Seq(Tasks) /\ e = <<>>
      BY <3>0
    <3>2. Total(e) = 0 /\ Total(Append(e, p)) = Total(e) + Count(p) /\ Count(p) \in Nat
      BY <3>1, TotalFacts, CountStepFacts
    <3>3. Append(e, p) = <<p>>
      BY <3>1
    <3> QED
      BY <3>2, <3>3
  <2>5. DOMAIN BatchTasks' = {1} /\ BatchTasks'[1] = p
    BY <2>3
  <2> QED
    BY <1>1, <1>2, <2>2, <2>3, <2>4, <2>5, BatchesBy
<1>5. ASSUME UNCHANGED batch, Batches, log' = log \/ \E p \in Payloads : log' = Append(log, p)
      PROVE  Batches'
  <2>1. BatchTasks' = BatchTasks
    <3>1. \A i \in DOMAIN batch : batch[i] \in 1 .. Len(log)
      BY <1>1, BatchIsNext
    <3>2. \A k \in 1 .. Len(log) : log'[k] = log[k]
      <4>1. log \in Seq(Payloads)
        BY <1>1 DEF Types
      <4> QED
        BY <1>5, <4>1, AppendProperties
    <3> QED
      BY <1>5, <3>1, <3>2 DEF BatchTasks
  <2> QED
    BY <1>1, <1>5, <2>1, BatchIsNext, BatchIsNextAfter DEF Batches
<1>6. ASSUME TakeFirst  PROVE Batches'
  <2>1. CASE carried # <<>>
    <3>1. Len(carried) = 1 /\ carried \in Seq(Nat)
      <4>1. carried \in Seq(Nat) /\ Len(carried) <= 1
        BY <1>1 DEF Where, Types
      <4>2. PICK k \in Nat : k = Len(carried)
        BY <4>1
      <4>3. k # 0
        BY <2>1, <4>1, <4>2, EmptySeq
      <4>4. k = 1
        BY <4>1, <4>2, <4>3
      <4> QED
        BY <4>1, <4>2, <4>4
    <3>2. batch' = <<carried[1]>> /\ carried[1] \in Nat
      BY <1>6, <2>1, <3>1 DEF TakeFirst
    <3> QED
      BY <1>4, <3>2
  <2>2. CASE carried = <<>>
    <3>1. Head(chan) \in Item /\ ~IsFlush(Head(chan))
      BY <1>1, <1>6, <2>2, ItemOut DEF Types, TakeFirst
    <3>2. Head(chan).task \in Nat /\ batch' = <<Head(chan).task>>
      BY <1>6, <2>2, <3>1, ItemFacts DEF TakeFirst
    <3> QED
      BY <1>4, <3>2
  <2> QED
    BY <2>1, <2>2
<1>7. ASSUME Collect, ~UNCHANGED batch  PROVE Batches'
  <2>1. PICK x \in Item : x = Head(chan) /\ ~IsFlush(x) /\ ~TooMuch(Count(log[x.task]))
                          /\ batch' = Append(batch, x.task)
    BY <1>1, <1>7, ItemOut DEF Types, Collect
  <2>2. x.task \in Nat /\ UNCHANGED log /\ MayCollect
    BY <1>7, <2>1, ItemFacts DEF Collect
  <2>3. PICK p : p = log[x.task]
    OBVIOUS
  <2>4. /\ BatchTasks \in Seq(Tasks) /\ Len(BatchTasks) = Len(batch)
        /\ BatchCount = Total(BatchTasks)
        /\ BatchTasks' \in Seq(Tasks) /\ Len(BatchTasks') = Len(batch')
    BY <1>1, BatchIsNext, BatchIsNextAfter
  <2>5. Len(batch') = Len(batch) + 1
    BY <1>1, <2>1, <2>2 DEF Types
  <2>6. /\ \A i \in 1 .. Len(batch) : BatchTasks'[i] = BatchTasks[i]
        /\ BatchTasks'[Len(batch) + 1] = p
    BY <1>1, <1>2, <2>1, <2>2, <2>3 DEF BatchTasks, Types
  <2>7. PICK s, t, n : s = BatchTasks /\ t = BatchTasks' /\ n = Len(batch)
    OBVIOUS
  <2>8. /\ s \in Seq(Tasks) /\ Len(s) = n /\ t \in Seq(Tasks) /\ Len(t) = n + 1 /\ n \in Nat
        /\ t[n + 1] = p /\ \A i \in 1 .. n : t[i] = s[i]
    BY <1>2, <2>4, <2>5, <2>6, <2>7
  <2>9. p \in Tasks
    <3>1. n + 1 \in 1 .. Len(t)
      BY <2>8
    <3>2. t[n + 1] \in Tasks
      BY <2>8, <3>1
    <3> QED
      BY <2>8, <3>2
  <2>10. t = Append(s, p)
    <3>1. /\ Append(s, p) \in Seq(Tasks) /\ Len(Append(s, p)) = n + 1
          /\ \A i \in 1 .. n + 1 : Append(s, p)[i] = IF i = n + 1 THEN p ELSE s[i]
      BY <2>8, <2>9, AppendProperties
    <3>2. \A i \in 1 .. n + 1 : Append(s, p)[i] = t[i]
      BY <2>8, <3>1
    <3> QED
      BY <2>8, <3>1, <3>2, SeqEqual
  <2>11. /\ Total(s) \in Nat /\ Total(t) = Total(s) + Count(p) /\ Count(p) \in Nat
         /\ \A i \in 1 .. n : Count(s[i]) \in Nat /\ Count(s[i]) <= Total(s)
    <3>1. DOMAIN s = 1 .. n
      BY <2>8
    <3>2. s \in Seq(Tasks) /\ p \in Tasks
      BY <2>8, <2>9
    <3> QED
      BY <2>10, <3>1, <3>2, TotalFacts, CountStepFacts
  <2>12. /\ Total(s) < MaxMessages
         /\ ~(Count(p) > 0 /\ Total(s) > 0 /\ Total(s) + Count(p) > MaxMessages)
    BY <2>1, <2>2, <2>3, <2>4, <2>7 DEF MayCollect, TooMuch
  <2>13. ASSUME Total(t) > MaxMessages
         PROVE  \E i \in DOMAIN t : \A j \in DOMAIN t : Count(t[j]) > 0 <=> j = i
    <3>1. Count(p) > 0 /\ Total(s) = 0
      BY <1>2, <2>11, <2>12, <2>13
    <3>2. DOMAIN t = 1 .. n + 1 /\ n + 1 \in 1 .. n + 1
      BY <2>8
    <3>3. ASSUME NEW j \in 1 .. n + 1  PROVE Count(t[j]) > 0 <=> j = n + 1
      <4>1. CASE j = n + 1
        BY <2>8, <3>1, <4>1
      <4>2. CASE j # n + 1
        <5>1. j \in 1 .. n /\ t[j] = s[j]
          BY <2>8, <4>2
        <5>2. Count(s[j]) \in Nat /\ Count(s[j]) <= 0
          BY <2>11, <3>1, <5>1
        <5> QED
          BY <4>2, <5>1, <5>2
      <4> QED
        BY <4>1, <4>2
    <3> QED
      BY <3>2, <3>3
  <2>14. Len(batch') <= MaxTasks
    BY <1>2, <2>2, <2>5 DEF MayCollect
  <2> QED
    BY <1>1, <2>7, <2>13, <2>14, BatchesBy
<1>8. ASSUME NEW c \in Caller, Enqueue(c)
      PROVE  UNCHANGED batch /\ (log' = log \/ \E p \in Payloads : log' = Append(log, p))
  <2>1. UNCHANGED batch
    BY <1>8 DEF Enqueue, workerVars
  <2>2. CASE call[c].item = <<>>
    BY <1>8, <2>1, <2>2 DEF Enqueue
  <2>3. CASE call[c].item # <<>>
    <3>1. PICK p \in Payloads : call[c].item = <<p>>
      BY <1>1, <2>3 DEF Types, CallTypes, Calls
    <3>2. log' = log \o <<p>> /\ log \in Seq(Payloads)
      BY <1>1, <1>8, <3>1 DEF Enqueue, Types
    <3>3. log' = Append(log, p)
      BY <3>2
    <3> QED
      BY <2>1, <3>3
  <2> QED
    BY <2>2, <2>3
<1>9. ASSUME NEW c \in Caller, Submit(c) \/ CallFlush(c) \/ FlushReturns(c) \/ Cancel(c)
      PROVE  UNCHANGED <<batch, log>>
  BY <1>9 DEF Submit, CallFlush, FlushReturns, Cancel, workerVars
<1>10. ASSUME AckFirst \/ CloseBatch \/ AckBatch \/ UNCHANGED vars \/ (Collect /\ UNCHANGED batch)
       PROVE  UNCHANGED <<batch, log>>
  BY <1>10 DEF AckFirst, CloseBatch, AckBatch, Collect, vars
<1>11. ASSUME Transact  PROVE Batches'
  BY <1>3, <1>11 DEF Transact
<1> QED
  BY <1>5, <1>6, <1>7, <1>8, <1>9, <1>10, <1>11 DEF Next, Work, Proceed, Quiet

-----------------------------------------------------------------------------
(* The rest of the state.                                                  *)

Stored ==
  /\ table \in Tables
  /\ Len(chan) <= Capacity
  /\ failed \subseteq Nat /\ told \subseteq Nat /\ heard \subseteq Nat
  /\ flushes \in 0 .. MaxFlush

\* What a transaction leaves in the database is what the log says, and the tasks
\* of a failed one are those of the log.
LEMMA Settled ==
  ASSUME Types, Order, table \in Tables, Transact
  PROVE  /\ settled' = settled + Len(batch) /\ Len(batch) \in Nat /\ settled' <= Len(log)
         /\ UNCHANGED log
         /\ \/ /\ table' = Log!FoldLeft(Log!Apply, table, SubSeq(log, settled + 1, settled'))
               /\ table' \in Tables
               /\ UNCHANGED <<errors, failed>>
            \/ /\ errors' = errors \cup (settled + 1 .. settled')
               /\ failed' = failed \cup (settled + 1 .. settled')
               /\ UNCHANGED table
<1>1. /\ BatchTasks \in Seq(Tasks) /\ Len(batch) \in Nat /\ settled \in Nat
      /\ BatchTasks = SubSeq(log, settled + 1, settled + Len(batch))
      /\ settled + Len(batch) <= Len(log)
  BY BatchIsNext DEF Types
<1>2. settled' = settled + Len(batch) /\ UNCHANGED log
  BY DEF Transact
<1>3. Range(batch) = settled + 1 .. settled + Len(batch)
  <2>1. DOMAIN batch = 1 .. Len(batch) /\ \A i \in 1 .. Len(batch) : batch[i] = settled + i
    BY DEF Types, Order
  <2>2. \A n \in settled + 1 .. settled + Len(batch) :
          n - settled \in 1 .. Len(batch) /\ settled + (n - settled) = n
    BY <1>1
  <2>3. \A i \in 1 .. Len(batch) : settled + i \in settled + 1 .. settled + Len(batch)
    BY <1>1
  <2>4. \A n \in settled + 1 .. settled + Len(batch) : n \in Range(batch)
    BY <2>1, <2>2 DEF Range
  <2>5. \A n \in Range(batch) : n \in settled + 1 .. settled + Len(batch)
    BY <2>1, <2>3 DEF Range
  <2> QED
    BY <2>4, <2>5
<1>4. PICK ok \in BOOLEAN :
        /\ table' = IF ok THEN FoldLeft(Upsert, table, Coalesce(BatchTasks)) ELSE table
        /\ errors' = IF ok THEN errors ELSE errors \cup Range(batch)
        /\ failed' = IF ok THEN failed ELSE failed \cup Range(batch)
  BY DEF Transact
<1>5. CASE ok
  <2>1. table' = FoldLeft(Upsert, table, Coalesce(BatchTasks)) /\ UNCHANGED <<errors, failed>>
    BY <1>4, <1>5
  <2>2. PICK ts \in Seq(Tasks) : ts = BatchTasks
    BY <1>1
  <2>3. /\ FoldLeft(Upsert, table, Coalesce(ts)) = Log!FoldLeft(Log!Apply, table, ts)
        /\ FoldLeft(Upsert, table, Coalesce(ts)) \in Tables
    BY CoalesceFold
  <2>4. ts = SubSeq(log, settled + 1, settled')
    BY <1>1, <1>2, <2>2
  <2> QED
    BY <1>1, <1>2, <2>1, <2>2, <2>3, <2>4
<1>6. CASE ~ok
  BY <1>1, <1>2, <1>3, <1>4, <1>6
<1> QED
  BY <1>5, <1>6

\* The answer to a flush takes the failures or leaves them.
LEMMA DeliverErrors ==
  ASSUME NEW c, Deliver(c)
  PROVE  \/ errors' = {} /\ told' = told \cup errors
         \/ UNCHANGED <<errors, told>>
  BY DEF Deliver

\* The rest of the state keeps its types.
LEMMA StoredKept ==
  ASSUME IInv, Stored, [Next]_vars
  PROVE  Stored'
<1>1. Types /\ CallTypes /\ Order /\ Stored
  BY DEF IInv, Types
<1>2. ASSUME UNCHANGED <<table, failed, told, heard, flushes>>, Len(chan') <= Capacity
      PROVE  Stored'
  BY <1>1, <1>2 DEF Stored
<1>3. ASSUME NEW c \in Caller, Submit(c) \/ Cancel(c)  PROVE Stored'
  BY <1>1, <1>3 DEF Stored, Submit, Cancel, workerVars
<1>4. ASSUME NEW c \in Caller, CallFlush(c)  PROVE Stored'
  BY <1>1, <1>4, QueueAssumption DEF Stored, CallFlush, workerVars
<1>5. ASSUME NEW c \in Caller, Enqueue(c)  PROVE Stored'
  <2>1. UNCHANGED <<table, failed, told, heard, flushes>> /\ Len(chan) < Capacity
    BY <1>5 DEF Enqueue, workerVars
  <2>2. \E x : chan' = Append(chan, x)
    BY <1>5 DEF Enqueue
  <2>3. Len(chan') = Len(chan) + 1 /\ Len(chan) \in Nat /\ Capacity \in Nat
    BY <1>1, <2>2, QueueAssumption DEF Types
  <2> QED
    BY <1>2, <2>1, <2>3
<1>6. ASSUME NEW c \in Caller, FlushReturns(c)  PROVE Stored'
  <2>1. call[c].err \subseteq Nat
    BY <1>1 DEF CallTypes, Calls
  <2> QED
    BY <1>1, <1>6, <2>1 DEF Stored, FlushReturns, workerVars
<1>7. ASSUME chan # <<>>, chan' = Tail(chan)  PROVE Len(chan') <= Capacity
  <2>1. Len(chan') = Len(chan) - 1 /\ Len(chan) \in Nat /\ Capacity \in Nat
    BY <1>1, <1>7, ItemOut, QueueAssumption DEF Types
  <2> QED
    BY <1>1, <2>1 DEF Stored
<1>8. ASSUME AckFirst \/ AckBatch  PROVE Stored'
  <2>1. told' \subseteq Nat
    BY <1>1, <1>8, DeliverErrors DEF AckFirst, AckBatch, Stored, Types
  <2>2. Len(chan') <= Capacity
    BY <1>1, <1>7, <1>8 DEF AckFirst, AckBatch, Stored
  <2>3. UNCHANGED <<table, failed, heard, flushes>>
    BY <1>8 DEF AckFirst, AckBatch
  <2> QED
    BY <1>1, <2>1, <2>2, <2>3 DEF Stored
<1>9. ASSUME TakeFirst \/ Collect \/ CloseBatch \/ UNCHANGED vars  PROVE Stored'
  <2>1. UNCHANGED <<table, failed, told, heard, flushes>>
    BY <1>9 DEF TakeFirst, Collect, CloseBatch, vars
  <2>2. Len(chan') <= Capacity
    BY <1>1, <1>7, <1>9 DEF TakeFirst, Collect, CloseBatch, vars, Stored
  <2> QED
    BY <1>2, <2>1, <2>2
<1>10. ASSUME Transact  PROVE Stored'
  <2>1. UNCHANGED <<chan, told, heard, flushes>>
    BY <1>10 DEF Transact
  <2>2. table' \in Tables /\ failed' \subseteq Nat
    <3>1. settled \in Nat /\ settled' \in Nat
      BY <1>1, <1>10, Settled DEF Types, Stored
    <3>2. settled + 1 .. settled' \subseteq Nat
      BY <3>1
    <3> QED
      BY <1>1, <1>10, <3>2, Settled DEF Stored
  <2> QED
    BY <1>1, <2>1, <2>2 DEF Stored
<1> QED
  BY <1>3, <1>4, <1>5, <1>6, <1>8, <1>9, <1>10 DEF Next, Work, Proceed, Quiet

-----------------------------------------------------------------------------
(* The queue implements the log.                                           *)

\* Every step of the queue is one of the log, or does not show in it.
LEMMA LogStep ==
  ASSUME IInv, table \in Tables, [Next]_vars
  PROVE  [Log!WLNext]_<<log, settled, table, errors>>
<1>1. Types /\ Order
  BY DEF IInv
<1> DEFINE LogVars == <<log, settled, table, errors>>
<1>2. ASSUME NEW c \in Caller, Enqueue(c)  PROVE Log!Accept \/ UNCHANGED LogVars
  <2>1. UNCHANGED <<settled, table, errors>>
    BY <1>2 DEF Enqueue, workerVars
  <2>2. CASE call[c].item = <<>>
    BY <1>2, <2>1, <2>2 DEF Enqueue
  <2>3. CASE call[c].item # <<>>
    <3>1. PICK p \in Payloads : call[c].item = <<p>>
      BY <1>1, <2>3 DEF Types, CallTypes, Calls
    <3>2. log' = log \o <<p>> /\ log \in Seq(Payloads)
      BY <1>1, <1>2, <3>1 DEF Enqueue, Types
    <3>3. log' = Append(log, p)
      BY <3>2
    <3> QED
      BY <2>1, <3>3 DEF Log!Accept
  <2> QED
    BY <2>2, <2>3
<1>3. ASSUME Transact  PROVE Log!Settle \/ UNCHANGED LogVars
  <2>1. PICK n \in Nat : n = Len(batch) /\ settled' = settled + n /\ settled' <= Len(log)
    BY <1>1, <1>3, Settled
  <2>2. settled \in Nat /\ Len(log) \in Nat /\ UNCHANGED log
    BY <1>1, <1>3, BatchIsNext, Settled DEF Types
  <2>3. CASE n = 0
    <3>1. settled' = settled /\ settled + 1 .. settled' = {}
      BY <2>1, <2>2, <2>3
    <3>2. SubSeq(log, settled + 1, settled') = <<>>
      BY <2>2, <3>1
    <3>3. Log!FoldLeft(Log!Apply, table, <<>>) = table
      <4>1. PICK e \in Seq(Tasks) : e = <<>>
        <5>1. <<>> \in Seq(Tasks)
          OBVIOUS
        <5> QED
          BY <5>1
      <4>2. Log!FoldLeft(Log!Apply, table, e) = Fold(Tables, ApplyStep, table, e)
        BY ApplyFold
      <4> QED
        BY <4>1, <4>2, ApplyFacts, FoldLaws
    <3> QED
      BY <1>1, <1>3, <2>2, <3>1, <3>2, <3>3, Settled
  <2>4. CASE n # 0
    <3>1. settled' \in settled + 1 .. Len(log)
      BY <2>1, <2>2, <2>4
    <3>2. PICK m \in settled + 1 .. Len(log) : m = settled'
      BY <3>1
    <3>3. \/ /\ table' = Log!FoldLeft(Log!Apply, table, SubSeq(log, settled + 1, m))
             /\ UNCHANGED errors
          \/ /\ errors' = errors \cup (settled + 1 .. m)
             /\ UNCHANGED table
      BY <1>1, <1>3, <3>2, Settled
    <3> QED
      BY <2>2, <3>2, <3>3 DEF Log!Settle
  <2> QED
    BY <2>3, <2>4
<1>4. ASSUME AckFirst \/ AckBatch  PROVE Log!Report \/ UNCHANGED LogVars
  <2>1. UNCHANGED <<log, settled, table>>
    BY <1>4 DEF AckFirst, AckBatch
  <2> QED
    BY <1>4, <2>1, DeliverErrors DEF AckFirst, AckBatch, Log!Report
<1>5. ASSUME NEW c \in Caller, Submit(c) \/ CallFlush(c) \/ FlushReturns(c) \/ Cancel(c)
      PROVE  UNCHANGED LogVars
  BY <1>5 DEF Submit, CallFlush, FlushReturns, Cancel, workerVars
<1>6. ASSUME TakeFirst \/ Collect \/ CloseBatch \/ UNCHANGED vars  PROVE UNCHANGED LogVars
  BY <1>6 DEF TakeFirst, Collect, CloseBatch, vars
<1> QED
  BY <1>2, <1>3, <1>4, <1>5, <1>6 DEF Next, Work, Proceed, Quiet, Log!WLNext

-----------------------------------------------------------------------------
(* Theorems.                                                               *)

\* The queue starts empty.
LEMMA InitInv ==
  ASSUME Init
  PROVE  IInv
<1>1. CallTypes
  BY DEF Init, Idle, CallTypes, Calls
<1>2. Types /\ Where
  BY <1>1 DEF Init, Types, Where
<1>3. Order
  BY DEF Init, Order, Held, InOrder
<1>4. \A c \in Caller : call[c].pc = "idle"
  BY DEF Init, Idle
<1>5. Waiting
  BY <1>4, NoneAssumption DEF Init, Waiting, WaitingOf
<1>6. Barrier /\ Failures
  BY <1>4 DEF Init, Barrier, BarrierOf, Failures, OkHidesNothing
<1> QED
  BY <1>2, <1>3, <1>5, <1>6 DEF IInv

\* The inductive invariant: the worker's tasks and those of the channel are the
\* part of the log that is not settled, in order, and what a flush waits for is
\* before it.
THEOREM Invariance == Spec => []IInv
<1>1. IInv /\ [Next]_vars => IInv'
  BY TypesKept, WhereKept, OrderKept, WaitingKept, BarrierKept, FailuresKept DEF IInv
<1> QED
  BY InitInv, <1>1, PTL DEF Spec

\* A flush is a barrier: when its caller has the answer, every task that the
\* channel accepted before it was committed or failed.
THEOREM FlushBarrier == Spec => []FlushIsBarrier
<1>1. IInv => FlushIsBarrier
  BY DEF IInv, Barrier, BarrierOf, FlushIsBarrier
<1> QED
  BY Invariance, <1>1, PTL

\* An answer without failures hides none: every failed task that was accepted
\* before the flush was in the answer of some flush.
THEOREM NothingHidden == Spec => []OkHidesNothing
<1>1. IInv => OkHidesNothing
  BY DEF IInv, Failures
<1> QED
  BY Invariance, <1>1, PTL

\* The tasks and messages of a batch, and the types of all the rest, by the same steps.
THEOREM BatchesAndTypes == Spec => [](Batches /\ Stored)
<1>1. Init => Batches /\ Stored
  <2> SUFFICES ASSUME Init  PROVE Batches /\ Stored
    OBVIOUS
  <2>1. Types /\ Order
    BY InitInv DEF IInv
  <2>2. Stored
    BY QueueAssumption DEF Init, Stored, Tables, Rows
  <2>3. BatchTasks = <<>> /\ BatchCount = Total(BatchTasks)
    BY <2>1, BatchIsNext DEF Init, BatchTasks
  <2>4. Total(<<>>) = 0
    <3>1. <<>> \in Seq(Tasks)
      OBVIOUS
    <3> QED
      BY <3>1, TotalFacts
  <2>5. Len(batch) <= MaxTasks /\ ~(BatchCount > MaxMessages)
    BY <2>3, <2>4, QueueAssumption DEF Init
  <2> QED
    BY <2>2, <2>5 DEF Batches
<1>2. IInv /\ Batches /\ Stored /\ [Next]_vars => Batches' /\ Stored'
  BY BatchesKept, StoredKept
<1> QED
  BY Invariance, <1>1, <1>2, PTL DEF Spec

\* A transaction carries at most MaxTasks tasks, and more than MaxMessages messages only
\* when they are those of a single task.
THEOREM TransactionBound == Spec => []BatchBound
<1>1. IInv /\ Batches => BatchBound
  <2> SUFFICES ASSUME IInv, Batches, BatchCount > MaxMessages
               PROVE  Cardinality({i \in DOMAIN batch : Count(BatchTasks[i]) > 0}) = 1
    BY DEF Batches, BatchBound
  <2>1. PICK i \in DOMAIN batch : \A j \in DOMAIN batch : Count(BatchTasks[j]) > 0 <=> j = i
    BY DEF Batches
  <2>2. {j \in DOMAIN batch : Count(BatchTasks[j]) > 0} = {i}
    BY <2>1
  <2> QED
    BY <2>2, FS_Singleton
<1> QED
  BY Invariance, BatchesAndTypes, <1>1, PTL

\* Every variable keeps its type.
THEOREM TypeCorrect == Spec => []TypeOK
<1>1. IInv /\ Stored => TypeOK
  <2> SUFFICES ASSUME IInv, Stored  PROVE TypeOK
    OBVIOUS
  <2>1. Types /\ CallTypes /\ Order
    BY DEF IInv, Types
  <2>2. settled \in 0 .. Len(log)
    <3>1. /\ settled \in Nat /\ settled + Len(batch) <= Len(log)
          /\ Len(batch) \in Nat /\ Len(log) \in Nat
      BY <2>1, BatchIsNext DEF Types
    <3> QED
      BY <3>1
  <2>3. \A i \in DOMAIN chan : chan[i] \in [flush : Caller] \cup [task : Nat]
    BY <2>1 DEF Types, Item
  <2> QED
    BY <2>1, <2>2, <2>3 DEF TypeOK, Types, Stored, CallTypes, Calls, Tables, Rows
<1> QED
  BY Invariance, BatchesAndTypes, <1>1, PTL

\* The queue implements the log: the channel, the batches, the carried task, the merging of
\* neighbours and the dropping of repeats do not show in the database, where the tasks
\* are written in the order they were accepted, and the failures of a transaction stay
\* reported or all go with the answer to one flush.
THEOREM ImplementsLog == Spec => IsALog
<1>1. Init => Log!WLInit
  BY DEF Init, Log!WLInit, Absent, Log!Absent
<1>2. IInv /\ Stored /\ [Next]_vars => [Log!WLNext]_<<log, settled, table, errors>>
  BY LogStep DEF Stored
<1> QED
  BY Invariance, BatchesAndTypes, <1>1, <1>2, PTL DEF Spec, IsALog, Log!WLSpec
=============================================================================
