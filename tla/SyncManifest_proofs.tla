-------------------------- MODULE SyncManifest_proofs --------------------------
(***************************************************************************)
(* Proofs about SyncManifest.                                              *)
(*                                                                         *)
(* Whatever the desktop answers, the frames of the phases go out in the    *)
(* order of the phases and none goes out twice.  The counter, the wave     *)
(* barrier and the order of deletions need a hypothesis of their own:      *)
(* OneOwnerTask, that an owner result starts one task.  Where a result     *)
(* starts two, the run SyncManifest_barrier shows that they fail.          *)
(***************************************************************************)
EXTENDS SyncManifest, FiniteSetTheorems, TLAPS

\* The commands whose obeying sends a frame.
Meta == {"StartAvatarMetadata", "StartTopicMetadata", "StartTopicValidation"}

Box(s) == {s[i] : i \in 1 .. Len(s)}
In(c) == c \in Box(rx)
Failing == In("FailFatal") \/ In("FailRestart")

\* An operation task: what is left of it, and where it may be.
IsTask(t) ==
  /\ t \in [pc : {"idle", "run", "subbed", "zero", "done"}, left : Nat, dels : Nat]
  /\ t.dels <= t.left
  /\ t.pc = "run" => t.left > 0
  /\ t.left > 0 => t.pc \in {"run", "subbed", "zero"}

Types == TypeOK /\ \A k \in Worker : IsTask(work[k])

\* Before the owner wave nothing has happened, but that the attempt may be over.
Fresh ==
  kickoff =>
    /\ phase = Owner /\ armed = 0 /\ pending = 0 /\ wire = {} /\ gate = {} /\ rx = <<>>
    /\ sent = <<>> /\ deleted = 0 /\ failed = 0 /\ ~dirty
    /\ work = [k \in Worker |-> Idle] /\ deadline = [r \in Request |-> "off"]

\* A phase is reached, and the next one asked for, only after the phases before it.
Gates ==
  /\ "StartTopicMetadata" \in gate => "StartAvatarMetadata" \in gate
  /\ "StartTopicValidation" \in gate => "StartTopicMetadata" \in gate
  /\ phase = Avatar => "StartAvatarMetadata" \in gate
  /\ phase = Topic => "StartTopicMetadata" \in gate
  /\ In("StartTopicMetadata") => "StartAvatarMetadata" \in gate
  /\ In("StartTopicValidation") => "StartTopicMetadata" \in gate

\* The places of the frames that the gate g has let through, and sequences of frames
\* that keep to them.
Reached(g) ==
  IF "StartAvatarMetadata" \notin g THEN 1
  ELSE IF "StartTopicMetadata" \notin g THEN 2
  ELSE IF "StartTopicValidation" \notin g THEN 4
  ELSE 6
UpTo(s, n) == \A i \in 1 .. Len(s) : s[i] # "Delete" => Place(s[i]) <= n
Ordered(s) ==
  \A i, j \in 1 .. Len(s) :
    i < j /\ "Delete" \notin {s[i], s[j]} => Place(s[i]) < Place(s[j])

Frames == UpTo(sent, Reached(gate)) /\ Ordered(sent)

\* A deletion the desktop has not heard of is in the channel.
Told == deleted = Times(sent, "Delete") + Times(rx, "NotifyDelete")

IInv == Types /\ Fresh /\ Gates /\ Frames /\ Told

-----------------------------------------------------------------------------
(* With one task per owner result.                                         *)

\* An owner result asks for pulls or for other operations, not for both.
OneOwnerTask == \A p \in Plans[Owner] : p.pull = 0 \/ p.other = 0

Quiet == \A k \in Worker : ~Busy(k)
Counted == pending = Outstanding + failed
Seen == \A k \in Worker : work[k].pc = "zero" => pending = 0
Waiting == armed # 0 => pending = 0 /\ Quiet

\* Two tasks at a time only in the topic wave and after it.
Alone == phase \in {Owner, Avatar} => \A k, l \in Worker : Busy(k) /\ Busy(l) => k = l

\* A phase that is asked for and not yet begun: the wave before it is over.
Advance ==
  \A c \in Meta : In(c) /\ c \notin gate =>
    /\ pending = 0 /\ armed = 0
    /\ c # "StartTopicValidation" => Quiet

\* No deletion is queued behind the phase command it belongs before.
NoneBehind(s, g) ==
  \A i, j \in 1 .. Len(s) : i < j /\ s[i] \in Meta \ g => s[j] # "NotifyDelete"
Behind == NoneBehind(rx, gate)

\* A wave that is over has asked for the next phase, or a task is about to.
Following(p) == {NextCommand(p)[i] : i \in 1 .. Len(NextCommand(p))}
Carried ==
  ~kickoff /\ armed = 0 /\ phase \in Wave /\ pending = 0 =>
    \/ Following(phase) \subseteq gate \cup Box(rx)
    \/ Failing
    \/ \E k \in Worker : work[k].pc \in {"subbed", "zero"}

Waves == Counted /\ Seen /\ Waiting /\ Alone /\ Advance /\ Behind /\ Carried
Serial == outcome = "none" => Waves

\* The desktop answers what was asked last.
Asked ==
  /\ \A w \in wire \cap Wave : armed = w /\ phase = w
  /\ Hash \in wire => hashExpected /\ armed = 0 /\ "StartTopicValidation" \in gate

\* Without a disturbance nothing fails.
Peace ==
  /\ ~Failing /\ failed = 0 /\ outcome \in {"none", "messages"}
  /\ \A r \in Request : deadline[r] # "expired"

Calm == ~disturbed => Peace /\ Asked

SInv == IInv /\ Serial /\ Calm

-----------------------------------------------------------------------------
(* The counter wraps at CounterMod.                                        *)

\* A counter that is not zero is lowered by one.
LEMMA Lower ==
  ASSUME NEW m \in Nat \ {0}, NEW n \in 0 .. (m - 1), n # 0
  PROVE  (n + m - 1) % m = n - 1
  OBVIOUS

\* A number below the bound stays as it is.
LEMMA Raise ==
  ASSUME NEW m \in Nat \ {0}, NEW n \in 0 .. (m - 1)
  PROVE  n % m = n
  OBVIOUS

\* A counter stays below the bound.
LEMMA Wrap ==
  ASSUME NEW m \in Nat \ {0}, NEW n \in Nat
  PROVE  n % m \in 0 .. (m - 1)
  OBVIOUS

-----------------------------------------------------------------------------
(* Channels and histories: what is in them, and how often.                 *)

\* The empty sequence, a command added at the end, and the first one taken away.
LEMMA BoxEmpty == ASSUME NEW s, s = <<>> PROVE Box(s) = {}
  BY DEF Box

LEMMA BoxAppend ==
  ASSUME NEW T, NEW s \in Seq(T), NEW c
  PROVE  Box(Append(s, c)) = Box(s) \cup {c}
<1>1. /\ Len(Append(s, c)) = Len(s) + 1 /\ Len(s) \in Nat
      /\ Append(s, c)[Len(s) + 1] = c
      /\ \A i \in 1 .. Len(s) : Append(s, c)[i] = s[i]
  OBVIOUS
<1>2. ASSUME NEW x \in Box(Append(s, c))  PROVE x \in Box(s) \cup {c}
  <2>1. PICK i \in 1 .. Len(s) + 1 : x = Append(s, c)[i]
    BY <1>1, <1>2 DEF Box
  <2>2. CASE i = Len(s) + 1
    BY <1>1, <2>1, <2>2
  <2>3. CASE i \in 1 .. Len(s)
    BY <1>1, <2>1, <2>3 DEF Box
  <2> QED
    BY <1>1, <2>2, <2>3
<1>3. ASSUME NEW x \in Box(s) \cup {c}  PROVE x \in Box(Append(s, c))
  <2>1. CASE x = c
    <3>1. Len(s) + 1 \in 1 .. Len(s) + 1
      BY <1>1
    <3> QED
      BY <1>1, <2>1, <3>1 DEF Box
  <2>2. CASE x \in Box(s)
    <3>1. PICK i \in 1 .. Len(s) : x = s[i]
      BY <2>2 DEF Box
    <3>2. i \in 1 .. Len(s) + 1
      BY <1>1
    <3> QED
      BY <1>1, <3>1, <3>2 DEF Box
  <2> QED
    BY <1>3, <2>1, <2>2
<1> QED
  BY <1>2, <1>3

LEMMA BoxTail ==
  ASSUME NEW T, NEW s \in Seq(T), s # <<>>
  PROVE  Box(s) = Box(Tail(s)) \cup {Head(s)}
<1>1. /\ Len(Tail(s)) = Len(s) - 1 /\ Len(s) \in Nat \ {0}
      /\ \A i \in 1 .. Len(s) - 1 : Tail(s)[i] = s[i + 1]
      /\ Head(s) = s[1]
  OBVIOUS
<1>2. ASSUME NEW x \in Box(s)  PROVE x \in Box(Tail(s)) \cup {Head(s)}
  <2>1. PICK i \in 1 .. Len(s) : x = s[i]
    BY <1>2 DEF Box
  <2>2. CASE i = 1
    BY <1>1, <2>1, <2>2
  <2>3. CASE i # 1
    <3>1. i - 1 \in 1 .. Len(s) - 1 /\ Tail(s)[i - 1] = s[i]
      BY <1>1, <2>3
    <3> QED
      BY <1>1, <2>1, <3>1 DEF Box
  <2> QED
    BY <2>2, <2>3
<1>3. ASSUME NEW x \in Box(Tail(s)) \cup {Head(s)}  PROVE x \in Box(s)
  <2>1. CASE x = Head(s)
    <3>1. 1 \in 1 .. Len(s)
      BY <1>1
    <3> QED
      BY <1>1, <2>1, <3>1 DEF Box
  <2>2. CASE x \in Box(Tail(s))
    <3>1. PICK i \in 1 .. Len(s) - 1 : x = Tail(s)[i]
      BY <1>1, <2>2 DEF Box
    <3>2. i + 1 \in 1 .. Len(s) /\ x = s[i + 1]
      BY <1>1, <3>1
    <3> QED
      BY <3>2 DEF Box
  <2> QED
    BY <1>3, <2>1, <2>2
<1> QED
  BY <1>2, <1>3

\* The places of x in s are finitely many.
LEMMA TimesType ==
  ASSUME NEW T, NEW s \in Seq(T), NEW x
  PROVE  Times(s, x) \in Nat /\ IsFiniteSet({i \in 1 .. Len(s) : s[i] = x})
<1>1. IsFiniteSet(1 .. Len(s)) /\ DOMAIN s = 1 .. Len(s)
  BY FS_Interval
<1>2. {i \in 1 .. Len(s) : s[i] = x} \in SUBSET (1 .. Len(s))
  OBVIOUS
<1>3. IsFiniteSet({i \in 1 .. Len(s) : s[i] = x})
  BY <1>1, <1>2, FS_Subset
<1> QED
  BY <1>1, <1>3, FS_CardinalityType DEF Times

\* What does not occur, and the empty sequence.
LEMMA TimesNone ==
  ASSUME NEW s, NEW x, \A i \in DOMAIN s : s[i] # x
  PROVE  Times(s, x) = 0
<1>1. {i \in DOMAIN s : s[i] = x} = {}
  OBVIOUS
<1> QED
  BY <1>1, FS_EmptySet DEF Times

\* One more at the end.
LEMMA TimesAppend ==
  ASSUME NEW T, NEW s \in Seq(T), NEW y, NEW x
  PROVE  Times(Append(s, y), x) = Times(s, x) + (IF y = x THEN 1 ELSE 0)
<1> DEFINE A == {i \in 1 .. Len(s) : s[i] = x}
           B == {i \in 1 .. Len(s) + 1 : Append(s, y)[i] = x}
<1>1. /\ Len(Append(s, y)) = Len(s) + 1 /\ Len(s) \in Nat
      /\ Append(s, y)[Len(s) + 1] = y /\ DOMAIN s = 1 .. Len(s)
      /\ \A i \in 1 .. Len(s) : Append(s, y)[i] = s[i]
      /\ DOMAIN Append(s, y) = 1 .. Len(s) + 1
  OBVIOUS
<1>2. IsFiniteSet(A) /\ Cardinality(A) = Times(s, x) /\ Times(s, x) \in Nat
  BY <1>1, TimesType DEF Times
<1>3. Times(Append(s, y), x) = Cardinality(B)
  BY <1>1 DEF Times
<1>4. CASE y = x
  <2>1. B = A \cup {Len(s) + 1} /\ Len(s) + 1 \notin A
    BY <1>1, <1>4
  <2>2. Cardinality(B) = Cardinality(A) + 1
    BY <1>2, <2>1, FS_AddElement
  <2> QED
    BY <1>2, <1>3, <1>4, <2>2
<1>5. CASE y # x
  <2>1. B = A
    BY <1>1, <1>5
  <2> HIDE DEF A, B
  <2> QED
    BY <1>2, <1>3, <1>5, <2>1
<1> QED
  BY <1>4, <1>5

\* One less at the front.
LEMMA TimesTail ==
  ASSUME NEW T, NEW s \in Seq(T), s # <<>>, NEW x
  PROVE  Times(s, x) = Times(Tail(s), x) + (IF Head(s) = x THEN 1 ELSE 0)
<1> DEFINE A == {i \in 1 .. Len(s) - 1 : Tail(s)[i] = x}
           B == {i \in 2 .. Len(s) : s[i] = x}
           C == {i \in 1 .. Len(s) : s[i] = x}
           f == [i \in A |-> i + 1]
<1>1. /\ Len(Tail(s)) = Len(s) - 1 /\ Len(s) \in Nat \ {0} /\ DOMAIN s = 1 .. Len(s)
      /\ \A i \in 1 .. Len(s) - 1 : Tail(s)[i] = s[i + 1]
      /\ Head(s) = s[1] /\ Tail(s) \in Seq(T) /\ DOMAIN Tail(s) = 1 .. Len(s) - 1
  OBVIOUS
<1>2. IsFiniteSet(A) /\ Cardinality(A) = Times(Tail(s), x) /\ Times(Tail(s), x) \in Nat
  BY <1>1, TimesType DEF Times
<1>3. Times(s, x) = Cardinality(C)
  BY <1>1 DEF Times
<1>4. ExistsBijection(A, B)
  <2>1. f \in [A -> B]
    BY <1>1
  <2>2. \A i, j \in A : f[i] = f[j] => i = j
    BY <1>1
  <2>3. ASSUME NEW j \in B  PROVE \E i \in A : f[i] = j
    <3>1. j - 1 \in A /\ f[j - 1] = j
      BY <1>1
    <3> QED
      BY <3>1
  <2> HIDE DEF f, A, B
  <2>4. f \in Bijection(A, B)
    BY <2>1, <2>2, <2>3 DEF Bijection, Injection, Surjection, IsInjective
  <2> QED
    BY <2>4 DEF ExistsBijection
<1>5. IsFiniteSet(B) /\ Cardinality(B) = Cardinality(A)
  BY <1>2, <1>4, FS_Bijection
<1>6. CASE Head(s) = x
  <2>1. C = B \cup {1} /\ 1 \notin B
    BY <1>1, <1>6
  <2>2. Cardinality(C) = Cardinality(B) + 1
    BY <1>5, <2>1, FS_AddElement
  <2> QED
    BY <1>2, <1>3, <1>5, <1>6, <2>2
<1>7. CASE Head(s) # x
  <2>1. C = B
    BY <1>1, <1>7
  <2> HIDE DEF A, B, C
  <2> QED
    BY <1>2, <1>3, <1>5, <1>7, <2>1
<1> QED
  BY <1>6, <1>7

\* Nothing, one or two more at the end.
LEMMA Concat ==
  ASSUME NEW T, NEW s \in Seq(T), NEW x \in T, NEW y \in T
  PROVE  /\ s \o <<>> = s
         /\ s \o <<x>> = Append(s, x)
         /\ s \o <<x, y>> = Append(Append(s, x), y)
         /\ (s \o <<x>>) \o <<y>> = Append(Append(s, x), y)
  OBVIOUS

-----------------------------------------------------------------------------
(* The parameters, the tasks and the commands of a phase.                  *)

LEMMA Numbers ==
  /\ Owner = 1 /\ Avatar = 2 /\ Topic = 3 /\ Hash = 4
  /\ Wave = {1, 2, 3} /\ Request = {1, 2, 3, 4}
  BY DEF Owner, Avatar, Topic, Hash, Wave, Request

\* What a plan may be.
LEMMA PlanFacts ==
  ASSUME NEW w \in Wave, NEW p \in Plans[w]
  PROVE  /\ p.pull \in Nat /\ p.push \in Nat /\ p.other \in Nat /\ p.dels \in Nat
         /\ p.mark \in BOOLEAN
         /\ p.dels <= p.other /\ Size(p) \in Nat /\ Size(p) < CounterMod
         /\ w # Topic => p.push = 0
         /\ w = Avatar => p.pull = 0
<1>1. p \in Plan
  BY PlansAssumption
<1>2. p.pull \in Nat /\ p.push \in Nat /\ p.other \in Nat /\ p.dels \in Nat /\ p.mark \in BOOLEAN
  BY <1>1 DEF Plan
<1> QED
  BY <1>2, PlansAssumption DEF Size

\* A task that is spawned, or not, and one that goes on.
LEMMA TaskFacts ==
  ASSUME NEW n \in Nat, NEW d \in Nat, d <= n
  PROVE  IsTask(Task(n, d)) /\ Task(n, d).left = n
  BY DEF Task, Idle, IsTask

LEMMA IdleFacts == IsTask(Idle) /\ Idle.left = 0 /\ Idle.pc = "idle"
  BY DEF Idle, IsTask

LEMMA ResumeFacts ==
  ASSUME NEW t, IsTask(t)
  PROVE  IsTask(Resume(t)) /\ Resume(t).left = t.left /\ Resume(t).pc \in {"run", "done"}
  BY DEF Resume, IsTask

\* The command that follows a wave; none follows the last.
LEMMA NextFacts ==
  /\ NextCommand(Owner) = <<"StartAvatarMetadata">>
  /\ NextCommand(Avatar) = <<"StartTopicMetadata">>
  /\ NextCommand(Topic) = <<"StartTopicValidation">>
  /\ NextCommand(4) = <<>>
  /\ \A p \in Request : NextCommand(p) \in Seq(Command)
<1>1. /\ NextCommand(1) = <<"StartAvatarMetadata">>
      /\ NextCommand(2) = <<"StartTopicMetadata">>
      /\ NextCommand(3) = <<"StartTopicValidation">>
      /\ NextCommand(4) = <<>>
  BY DEF NextCommand, Owner, Avatar, Topic
<1>2. ASSUME NEW c \in Command  PROVE <<c>> \in Seq(Command)
  OBVIOUS
<1>3. <<>> \in Seq(Command)
  OBVIOUS
<1>4. Meta \subseteq Command
  BY DEF Command, PhaseCommand, Meta
<1>5. \A p \in Request : NextCommand(p) \in Seq(Command)
  BY <1>1, <1>2, <1>3, <1>4, Numbers, Zenon DEF Meta
<1> QED
  BY <1>1, <1>5, Numbers

\* What it adds to the channel.
LEMMA NextAdded ==
  ASSUME NEW p \in Request, NEW s \in Seq(Command)
  PROVE  /\ p = Owner => s \o NextCommand(p) = Append(s, "StartAvatarMetadata")
         /\ p = Avatar => s \o NextCommand(p) = Append(s, "StartTopicMetadata")
         /\ p = Topic => s \o NextCommand(p) = Append(s, "StartTopicValidation")
         /\ p = 4 => s \o NextCommand(p) = s
<1>1. /\ s \o <<>> = s
      /\ \A c \in Command : s \o <<c>> = Append(s, c)
  OBVIOUS
<1>2. Meta \subseteq Command
  BY DEF Command, PhaseCommand, Meta
<1> QED
  BY <1>1, <1>2, NextFacts, Zenon DEF Meta

-----------------------------------------------------------------------------
(* Types.                                                                  *)

LEMMA StepCases ==
  ASSUME [Next]_vars
  PROVE  \/ OwnerKickoff \/ RepeatedPhase \/ DrainFails \/ StartAvatarMetadata
         \/ StartTopicMetadata \/ StartTopicValidation \/ StartMessages \/ NotifyDelete
         \/ FailAttempt
         \/ \E k \in Worker : OperationDone(k)
         \/ \E k \in Worker : ReadPending(k)
         \/ \E k \in Worker : AskNextPhase(k)
         \/ \E k \in Worker : OperationFails(k)
         \/ \E r \in Request : DeadlineExpires(r)
         \/ \E r \in Request : DeadlineChecks(r)
         \/ \E w \in Wave : ManifestResult(w)
         \/ TopicDiffResult \/ StrayResult \/ ConnectionEnds \/ UNCHANGED vars
  BY DEF Next, Loop, Task_, Watchdog, Environment, Left

\* The tasks a result of wave w starts.
Spawned(w, p) ==
  [work EXCEPT ![<<w, "pull">>]  = Task(p.pull, 0),
               ![<<w, "push">>]  = Task(p.push, 0),
               ![<<w, "other">>] = Task(p.other, p.dels)]

\* Every task is replaced or kept.
LEMMA SpawnedFacts ==
  ASSUME TypeOK, NEW w \in Wave, NEW p \in Plans[w]
  PROVE  /\ DOMAIN Spawned(w, p) = Worker
         /\ Spawned(w, p)[<<w, "pull">>] = Task(p.pull, 0)
         /\ Spawned(w, p)[<<w, "push">>] = Task(p.push, 0)
         /\ Spawned(w, p)[<<w, "other">>] = Task(p.other, p.dels)
         /\ \A k \in Worker : k[1] # w => Spawned(w, p)[k] = work[k]
         /\ \A k \in Worker : k[1] = w => k \in {<<w, "pull">>, <<w, "push">>, <<w, "other">>}
  BY DEF TypeOK, Spawned, Worker, Kind

\* The first manifest is asked for, or a wave begins.
LEMMA OpenTypes ==
  ASSUME Types, NEW w \in Wave, NEW rest \in Seq(Command), NEW frames \in Seq(Frame),
         NEW request \in Frame, OpenWave(w, rest, frames, request)
  PROVE  /\ phase' \in Request /\ armed' \in Wave \cup {0} /\ pending' \in 0 .. (CounterMod - 1)
         /\ rx' \in Seq(Command) /\ wire' \subseteq Request /\ sent' \in Seq(Frame)
         /\ deadline' \in [Request -> {"off", "armed", "expired"}]
<1>1. /\ armed \in Wave \cup {0} /\ pending \in 0 .. (CounterMod - 1) /\ wire \subseteq Request
      /\ sent \in Seq(Frame) /\ deadline \in [Request -> {"off", "armed", "expired"}]
  BY DEF Types, TypeOK
<1>2. 0 \in 0 .. (CounterMod - 1) /\ w \in Request
  BY BoundAssumption DEF Request
<1>3. "FailFatal" \in Command
  BY DEF Command
<1>4. sent \o frames \in Seq(Frame) /\ (sent \o frames) \o <<request>> \in Seq(Frame)
  BY <1>1
<1>5. CASE armed = 0
  BY <1>1, <1>2, <1>4, <1>5 DEF OpenWave
<1>6. CASE armed # 0
  <2>1. /\ phase' = w /\ rx' = Append(rest, "FailFatal") /\ sent' = sent \o frames
        /\ armed' = armed /\ pending' = pending /\ wire' = wire /\ deadline' = deadline
    BY <1>6 DEF OpenWave
  <2>2. Append(rest, "FailFatal") \in Seq(Command)
    BY <1>3
  <2> QED
    BY <1>1, <1>2, <1>4, <2>1, <2>2
<1> QED
  BY <1>5, <1>6

\* What a command was read from.
LEMMA ReceiveFacts ==
  ASSUME TypeOK, NEW c, Receive(c)
  PROVE  /\ outcome = "none" /\ ~kickoff /\ rx # <<>> /\ rx \in Seq(Command) /\ Head(rx) = c
         /\ c \in Command /\ Tail(rx) \in Seq(Command)
         /\ Box(rx) = Box(Tail(rx)) \cup {c} /\ In(c)
<1>1. /\ outcome = "none" /\ ~kickoff /\ rx # <<>> /\ Head(rx) = c /\ rx \in Seq(Command)
  BY DEF Receive, TypeOK
<1>2. c \in Command /\ Tail(rx) \in Seq(Command)
  BY <1>1
<1>3. Box(rx) = Box(Tail(rx)) \cup {c}
  BY <1>1, BoxTail
<1> QED
  BY <1>1, <1>2, <1>3 DEF In

\* The tasks keep their type when the one at k is replaced by t.
LEMMA OneTask ==
  ASSUME TypeOK, \A k \in Worker : IsTask(work[k]), NEW k \in Worker, NEW t, IsTask(t),
         NEW w, w = [work EXCEPT ![k] = t]
  PROVE  /\ w \in [Worker -> [pc : {"idle", "run", "subbed", "zero", "done"},
                              left : Nat, dels : Nat]]
         /\ \A l \in Worker : IsTask(w[l])
         /\ w[k] = t /\ \A l \in Worker : l # k => w[l] = work[l]
<1>1. /\ work \in [Worker -> [pc : {"idle", "run", "subbed", "zero", "done"},
                              left : Nat, dels : Nat]]
      /\ t \in [pc : {"idle", "run", "subbed", "zero", "done"}, left : Nat, dels : Nat]
  BY DEF TypeOK, IsTask
<1>2. w[k] = t /\ \A l \in Worker : l # k => w[l] = work[l]
  BY <1>1
<1> QED
  BY <1>1, <1>2

\* What an operation that ends leaves of its task.
Ended(t, del) ==
  [pc |-> "subbed", left |-> t.left - 1, dels |-> IF del THEN t.dels - 1 ELSE t.dels]
LEMMA EndedFacts ==
  ASSUME NEW t, IsTask(t), t.pc = "run", NEW del \in BOOLEAN,
         del => t.dels > 0, t.dels = t.left => del
  PROVE  IsTask(Ended(t, del)) /\ Ended(t, del).left = t.left - 1 /\ Ended(t, del).pc = "subbed"
<1>1. t.left \in Nat /\ t.dels \in Nat /\ t.left > 0 /\ t.dels <= t.left
  BY DEF IsTask
<1>2. /\ Ended(t, del).left = t.left - 1 /\ Ended(t, del).pc = "subbed"
      /\ Ended(t, del).dels = IF del THEN t.dels - 1 ELSE t.dels
      /\ Ended(t, del) \in [pc : {"subbed"}, left : {Ended(t, del).left},
                            dels : {Ended(t, del).dels}]
  BY DEF Ended
<1>3. Ended(t, del).dels \in Nat /\ Ended(t, del).dels <= t.left - 1 /\ t.left - 1 \in Nat
  <2>1. CASE del
    BY <1>1, <1>2, <2>1
  <2>2. CASE ~del
    BY <1>1, <1>2, <2>2
  <2> QED
    BY <2>1, <2>2
<1> QED
  BY <1>2, <1>3 DEF IsTask

\* What is left of a task one of whose operations fails.
Given(k, t) ==
  IF k[2] = "other" /\ t.left > 1
  THEN [pc |-> "run", left |-> t.left - 1, dels |-> IF t.dels = t.left THEN t.dels - 1 ELSE t.dels]
  ELSE [pc |-> "done", left |-> 0, dels |-> 0]
LEMMA GivenFacts ==
  ASSUME NEW k \in Worker, NEW t, IsTask(t), t.pc = "run"
  PROVE  /\ IsTask(Given(k, t)) /\ Given(k, t).pc \in {"run", "done"}
         /\ Given(k, t).left = t.left - (IF k[2] = "other" THEN 1 ELSE t.left)
         /\ t.left \in Nat
<1>1. t.left \in Nat /\ t.dels \in Nat /\ t.left > 0 /\ t.dels <= t.left
  BY DEF IsTask
<1>2. CASE k[2] = "other" /\ t.left > 1
  <2>1. PICK d : d = IF t.dels = t.left THEN t.dels - 1 ELSE t.dels
    OBVIOUS
  <2>2. d \in Nat /\ d <= t.left - 1 /\ t.left - 1 \in Nat /\ t.left - 1 > 0
    BY <1>1, <1>2, <2>1
  <2>3. Given(k, t) = [pc |-> "run", left |-> t.left - 1, dels |-> d]
    BY <1>2, <2>1 DEF Given
  <2> QED
    BY <1>1, <1>2, <2>2, <2>3 DEF IsTask
<1>3. CASE ~(k[2] = "other" /\ t.left > 1)
  <2>1. Given(k, t) = [pc |-> "done", left |-> 0, dels |-> 0]
    BY <1>3 DEF Given
  <2>2. 0 = t.left - (IF k[2] = "other" THEN 1 ELSE t.left)
    BY <1>1, <1>3
  <2> QED
    BY <1>1, <2>1, <2>2 DEF IsTask
<1> QED
  BY <1>2, <1>3

\* The frames a phase command sends.
LEMMA FrameFacts ==
  /\ Frame = {"OwnerRequest", "AvatarRequest", "OwnerCompleted", "TopicRequest",
              "TopicCompleted", "HashRequest", "Delete"}
  /\ \A x, y \in Frame : <<x>> \in Seq(Frame) /\ <<x, y>> \in Seq(Frame)
  /\ <<>> \in Seq(Frame)
  BY DEF Frame

LEMMA FrameNames ==
  /\ "OwnerRequest" \in Frame /\ "AvatarRequest" \in Frame /\ "OwnerCompleted" \in Frame
  /\ "TopicRequest" \in Frame /\ "TopicCompleted" \in Frame /\ "HashRequest" \in Frame
  /\ "Delete" \in Frame
  BY DEF Frame

LEMMA FrameAdded ==
  ASSUME NEW s \in Seq(Frame), NEW x \in Frame, NEW y \in Frame
  PROVE  /\ <<x>> \in Seq(Frame) /\ Append(s, x) \in Seq(Frame)
         /\ s \o <<x>> \in Seq(Frame) /\ s \o <<x, y>> \in Seq(Frame)
  OBVIOUS

\* Every step keeps the types.
LEMMA TypesKept ==
  ASSUME Types, [Next]_vars
  PROVE  Types'
<1>1. /\ TypeOK /\ \A k \in Worker : IsTask(work[k])
      /\ phase \in Request /\ pending \in 0 .. (CounterMod - 1) /\ gate \subseteq PhaseCommand
      /\ rx \in Seq(Command) /\ sent \in Seq(Frame) /\ wire \subseteq Request
      /\ deleted \in Nat /\ failed \in Nat /\ stray \in 0 .. MaxStray
      /\ deadline \in [Request -> {"off", "armed", "expired"}]
      /\ CounterMod \in Nat \ {0} /\ MaxStray \in Nat
  BY BoundAssumption DEF Types, TypeOK
<1>2. /\ \A c \in Command : Append(rx, c) \in Seq(Command) /\ <<c>> \in Seq(Command)
      /\ {"NotifyDelete", "FailFatal", "FailRestart"} \subseteq Command
      /\ PhaseCommand \subseteq Command /\ Meta \cup {"StartMessages"} \subseteq PhaseCommand
  BY <1>1 DEF Command, PhaseCommand, Meta
<1>3. ASSUME NEW c \in Command, Receive(c), gate' \in {gate, gate \cup {c}}
      PROVE  /\ Tail(rx) \in Seq(Command)
             /\ \A d \in Command : Append(Tail(rx), d) \in Seq(Command)
             /\ c \in PhaseCommand => gate' \subseteq PhaseCommand
  BY <1>1, <1>3, ReceiveFacts
<1>4. ASSUME NEW w \in Wave, NEW p \in Plans[w], HandleDiff(w, p)
      PROVE  /\ armed' \in Wave \cup {0} /\ pending' \in 0 .. (CounterMod - 1)
             /\ rx' \in Seq(Command) /\ changed' \in BOOLEAN
             /\ work' \in [Worker -> [pc : {"idle", "run", "subbed", "zero", "done"},
                                      left : Nat, dels : Nat]]
             /\ \A k \in Worker : IsTask(work'[k])
  <2>1. CASE armed = w /\ phase = w
    <3>1. /\ armed' = 0 /\ pending' = (pending + Size(p)) % CounterMod
          /\ rx' = IF pending' = 0 THEN NextCommand(phase) ELSE rx
          /\ changed' = (changed \/ (w = Owner /\ p.mark))
          /\ work' = Spawned(w, p)
      BY <1>4, <2>1 DEF HandleDiff, Spawned
    <3>2. pending' \in 0 .. (CounterMod - 1)
      <4>1. pending + Size(p) \in Nat
        BY <1>1, PlanFacts
      <4> QED
        BY <1>1, <3>1, <4>1, Wrap
    <3>3. rx' \in Seq(Command)
      BY <1>1, <3>1, NextFacts
    <3>4. \A k \in Worker : IsTask(work'[k])
      <4>1. IsTask(Task(p.pull, 0)) /\ IsTask(Task(p.push, 0)) /\ IsTask(Task(p.other, p.dels))
        BY PlanFacts, TaskFacts
      <4>2. ASSUME NEW k \in Worker  PROVE IsTask(Spawned(w, p)[k])
        <5>1. CASE k[1] = w
          <6>1. k \in {<<w, "pull">>, <<w, "push">>, <<w, "other">>}
            BY <1>1, <5>1, SpawnedFacts
          <6>2. /\ Spawned(w, p)[<<w, "pull">>] = Task(p.pull, 0)
                /\ Spawned(w, p)[<<w, "push">>] = Task(p.push, 0)
                /\ Spawned(w, p)[<<w, "other">>] = Task(p.other, p.dels)
            BY <1>1, SpawnedFacts
          <6> QED
            BY <4>1, <6>1, <6>2, Zenon
        <5>2. CASE k[1] # w
          BY <1>1, <5>2, SpawnedFacts
        <5> QED
          BY <5>1, <5>2
      <4> QED
        BY <3>1, <4>2
    <3>5. DOMAIN work' = Worker /\ work' = [k \in Worker |-> work'[k]]
      BY <1>1, <3>1, SpawnedFacts DEF Spawned
    <3>6. work' \in [Worker -> [pc : {"idle", "run", "subbed", "zero", "done"},
                                left : Nat, dels : Nat]]
      BY <3>4, <3>5 DEF IsTask
    <3> QED
      BY <3>1, <3>2, <3>3, <3>4, <3>6, PlanFacts
  <2>2. CASE ~(armed = w /\ phase = w)
    BY <1>1, <1>2, <1>4, <2>2 DEF HandleDiff, TypeOK
  <2> QED
    BY <2>1, <2>2
<1>5. CASE OwnerKickoff
  <2>1. CASE OpenWave(Owner, rx, <<>>, "OwnerRequest") /\ UNCHANGED <<hashExpected, disturbed>>
    <3>1. Owner \in Wave /\ "OwnerRequest" \in Frame
      BY DEF Wave, Frame
    <3> QED
      BY <1>1, <1>5, <2>1, <3>1, OpenTypes, FrameFacts DEF OwnerKickoff, Types, TypeOK
  <2>2. CASE BuildFails(rx, <<>>)
    <3>1. sent \o <<>> \in Seq(Frame)
      BY <1>1
    <3> QED
      BY <1>1, <1>2, <1>5, <2>2, <3>1 DEF OwnerKickoff, BuildFails, Types, TypeOK
  <2> QED
    BY <1>5, <2>1, <2>2 DEF OwnerKickoff
<1>6. CASE RepeatedPhase
  BY <1>1, <1>2, <1>3, <1>6 DEF RepeatedPhase, Types, TypeOK
<1>7. CASE DrainFails
  BY <1>1, <1>2, <1>3, <1>7 DEF DrainFails, First, Types, TypeOK
<1>8. CASE StartAvatarMetadata
  <2>1. /\ Tail(rx) \in Seq(Command) /\ gate' \subseteq PhaseCommand
        /\ Append(Tail(rx), "FailFatal") \in Seq(Command)
    BY <1>2, <1>3, <1>8 DEF StartAvatarMetadata, First, Meta
  <2>2. CASE /\ OpenWave(Avatar, Tail(rx), <<>>, "AvatarRequest")
             /\ UNCHANGED <<hashExpected, disturbed>>
    <3>1. Avatar \in Wave /\ "AvatarRequest" \in Frame
      BY DEF Wave, Frame
    <3> QED
      BY <1>1, <1>8, <2>1, <2>2, <3>1, OpenTypes, FrameFacts
      DEF StartAvatarMetadata, Types, TypeOK
  <2>3. CASE BuildFails(Tail(rx), <<>>)
    <3>1. sent \o <<>> \in Seq(Frame)
      BY <1>1
    <3> QED
      BY <1>1, <1>8, <2>1, <2>3, <3>1 DEF StartAvatarMetadata, BuildFails, Types, TypeOK
  <2> QED
    BY <1>8, <2>2, <2>3 DEF StartAvatarMetadata
<1>9. CASE StartTopicMetadata
  <2>1. /\ Tail(rx) \in Seq(Command) /\ gate' \subseteq PhaseCommand
        /\ Append(Tail(rx), "FailFatal") \in Seq(Command)
        /\ Append(Tail(rx), "StartTopicValidation") \in Seq(Command)
    BY <1>2, <1>3, <1>9 DEF StartTopicMetadata, First, Meta
  <2>2. /\ <<"OwnerCompleted">> \in Seq(Frame) /\ sent \o <<"OwnerCompleted">> \in Seq(Frame)
        /\ Append(sent, "OwnerCompleted") \in Seq(Frame)
    <3>1. "OwnerCompleted" \in Frame
      BY DEF Frame
    <3> QED
      BY <1>1, <3>1, FrameAdded
  <2>3. CASE OpenWave(Topic, Tail(rx), <<"OwnerCompleted">>, "TopicRequest")
             /\ UNCHANGED <<hashExpected, disturbed>>
    <3>1. Topic \in Wave /\ "TopicRequest" \in Frame
      BY DEF Wave, Frame
    <3> QED
      BY <1>1, <1>9, <2>1, <2>2, <2>3, <3>1, OpenTypes
      DEF StartTopicMetadata, Types, TypeOK
  <2>4. CASE BuildFails(Tail(rx), <<"OwnerCompleted">>)
    BY <1>1, <1>9, <2>1, <2>2, <2>4 DEF StartTopicMetadata, BuildFails, Types, TypeOK
  <2>5. CASE /\ rx' = Append(Tail(rx), "StartTopicValidation")
             /\ sent' = Append(sent, "OwnerCompleted")
             /\ UNCHANGED <<phase, pending, armed, wire, deadline, hashExpected, disturbed>>
    BY <1>1, <1>9, <2>1, <2>2, <2>5 DEF StartTopicMetadata, Types, TypeOK
  <2> QED
    BY <1>9, <2>3, <2>4, <2>5 DEF StartTopicMetadata
<1>10. CASE StartTopicValidation
  <2>1. /\ Tail(rx) \in Seq(Command) /\ gate' \subseteq PhaseCommand
        /\ Append(Tail(rx), "FailFatal") \in Seq(Command)
        /\ Append(Tail(rx), "StartMessages") \in Seq(Command)
    BY <1>2, <1>3, <1>10 DEF StartTopicValidation, First, Meta
  <2>2. /\ sent \o <<"TopicCompleted">> \in Seq(Frame)
        /\ sent \o <<"TopicCompleted", "HashRequest">> \in Seq(Frame)
        /\ Append(sent, "TopicCompleted") \in Seq(Frame)
    <3>1. "TopicCompleted" \in Frame /\ "HashRequest" \in Frame
      BY DEF Frame
    <3> QED
      BY <1>1, <3>1, FrameAdded
  <2>3. 4 \in Request /\ Hash \in Request /\ \A r \in Request :
          [deadline EXCEPT ![r] = "armed"] \in [Request -> {"off", "armed", "expired"}]
    BY <1>1, Numbers
  <2>4. CASE /\ phase' = 4
             /\ rx' = Append(Tail(rx), "StartMessages")
             /\ sent' = Append(sent, "TopicCompleted")
             /\ UNCHANGED <<wire, deadline, hashExpected, disturbed, pending, armed>>
    BY <1>1, <1>10, <2>1, <2>2, <2>3, <2>4 DEF StartTopicValidation, Types, TypeOK
  <2>5. CASE /\ hashExpected' = TRUE
             /\ wire' = wire \cup {Hash}
             /\ deadline' = [deadline EXCEPT ![Hash] = "armed"]
             /\ rx' = Tail(rx)
             /\ sent' = sent \o <<"TopicCompleted", "HashRequest">>
             /\ UNCHANGED <<phase, disturbed, pending, armed>>
    BY <1>1, <1>10, <2>1, <2>2, <2>3, <2>5 DEF StartTopicValidation, Types, TypeOK
  <2>6. CASE BuildFails(Tail(rx), <<"TopicCompleted">>)
    BY <1>1, <1>10, <2>1, <2>2, <2>6 DEF StartTopicValidation, BuildFails, Types, TypeOK
  <2> QED
    BY <1>10, <2>4, <2>5, <2>6 DEF StartTopicValidation
<1>11. CASE StartMessages
  <2>1. Tail(rx) \in Seq(Command) /\ gate' \subseteq PhaseCommand
    BY <1>2, <1>3, <1>11 DEF StartMessages, First
  <2>2. outcome' = "messages" /\ rx' = Tail(rx)
    BY <1>11 DEF StartMessages
  <2>3. UNCHANGED <<kickoff, phase, pending, armed, wire, changed, hashExpected, work,
                    deadline, dirty, stray, sent, deleted, failed, disturbed>>
    BY <1>11 DEF StartMessages
  <2> QED
    BY <1>1, <2>1, <2>2, <2>3 DEF Types, TypeOK
<1>12. CASE NotifyDelete
  <2>1. "Delete" \in Frame
    BY DEF Frame
  <2>2. Append(sent, "Delete") \in Seq(Frame)
    BY <1>1, <2>1
  <2>3. Tail(rx) \in Seq(Command)
    BY <1>1, <1>12, ReceiveFacts DEF NotifyDelete
  <2>4. rx' = Tail(rx) /\ sent' = Append(sent, "Delete")
    BY <1>12 DEF NotifyDelete
  <2>5. UNCHANGED <<kickoff, phase, pending, armed, gate, wire, changed, hashExpected, work,
                    deadline, dirty, outcome, stray, deleted, failed, disturbed>>
    BY <1>12 DEF NotifyDelete
  <2> QED
    BY <1>1, <2>2, <2>3, <2>4, <2>5 DEF Types, TypeOK
<1>13. CASE FailAttempt
  <2>1. Tail(rx) \in Seq(Command)
    BY <1>1, <1>13, ReceiveFacts DEF FailAttempt
  <2> QED
    BY <1>1, <1>13, <2>1 DEF FailAttempt, Types, TypeOK
<1>14. ASSUME NEW k \in Worker, OperationDone(k)  PROVE Types'
  <2>1. PICK del \in BOOLEAN, wrote \in BOOLEAN :
          /\ del => work[k].dels > 0
          /\ work[k].dels = work[k].left => del
          /\ work' = [work EXCEPT ![k] = Ended(work[k], del)]
          /\ rx' = IF del THEN Append(rx, "NotifyDelete") ELSE rx
          /\ deleted' = IF del THEN deleted + 1 ELSE deleted
          /\ dirty' = (dirty \/ wrote)
    BY <1>1, <1>14 DEF OperationDone, Ended, TypeOK
  <2>2. IsTask(Ended(work[k], del))
    BY <1>1, <1>14, <2>1, EndedFacts DEF OperationDone, Working
  <2>3. /\ work' \in [Worker -> [pc : {"idle", "run", "subbed", "zero", "done"},
                                 left : Nat, dels : Nat]]
        /\ \A l \in Worker : IsTask(work'[l])
    BY <1>1, <2>1, <2>2, OneTask
  <2>4. pending' \in 0 .. (CounterMod - 1)
    <3>1. pending + CounterMod - 1 \in Nat
      BY <1>1
    <3> QED
      BY <1>1, <1>14, <3>1, Wrap DEF OperationDone
  <2>5. rx' \in Seq(Command) /\ deleted' \in Nat /\ dirty' \in BOOLEAN
    BY <1>1, <1>2, <2>1 DEF TypeOK
  <2> QED
    BY <1>1, <1>14, <2>3, <2>4, <2>5 DEF OperationDone, Types, TypeOK
<1>15. ASSUME NEW k \in Worker, ReadPending(k)  PROVE Types'
  <2>1. PICK t : /\ work' = [work EXCEPT ![k] = t]
                 /\ \/ t = [work[k] EXCEPT !.pc = "zero"]
                    \/ t = Resume(work[k])
    BY <1>1, <1>15 DEF ReadPending
  <2>2. IsTask(t)
    <3>1. work[k].pc = "subbed" /\ IsTask(work[k])
      BY <1>1, <1>15 DEF ReadPending, Working
    <3>2. IsTask([work[k] EXCEPT !.pc = "zero"])
      BY <3>1 DEF IsTask
    <3> QED
      BY <2>1, <3>1, <3>2, ResumeFacts
  <2> QED
    BY <1>1, <1>15, <2>1, <2>2, OneTask DEF ReadPending, Types, TypeOK
<1>16. ASSUME NEW k \in Worker, AskNextPhase(k)  PROVE Types'
  <2>1. IsTask(Resume(work[k])) /\ work' = [work EXCEPT ![k] = Resume(work[k])]
    BY <1>1, <1>16, ResumeFacts DEF AskNextPhase
  <2>2. rx' \in Seq(Command)
    BY <1>1, <1>16, NextFacts DEF AskNextPhase
  <2> QED
    BY <1>1, <1>16, <2>1, <2>2, OneTask DEF AskNextPhase, Types, TypeOK
<1>17. ASSUME NEW k \in Worker, OperationFails(k)  PROVE Types'
  <2>1. work' = [work EXCEPT ![k] = Given(k, work[k])]
    BY <1>1, <1>17 DEF OperationFails, Given, TypeOK
  <2>2. IsTask(Given(k, work[k])) /\ work[k].left \in Nat
    BY <1>1, <1>17, GivenFacts DEF OperationFails, Working
  <2>3. rx' \in Seq(Command) /\ failed' \in Nat
    BY <1>1, <1>2, <1>17, <2>2 DEF OperationFails
  <2> QED
    BY <1>1, <1>17, <2>1, <2>2, <2>3, OneTask DEF OperationFails, Types, TypeOK
<1>18. ASSUME NEW r \in Request, DeadlineExpires(r)  PROVE Types'
  BY <1>1, <1>18 DEF DeadlineExpires, Types, TypeOK
<1>19. ASSUME NEW r \in Request, DeadlineChecks(r)  PROVE Types'
  <2>1. rx' \in Seq(Command)
    BY <1>1, <1>2, <1>19 DEF DeadlineChecks
  <2> QED
    BY <1>1, <1>19, <2>1 DEF DeadlineChecks, Types, TypeOK
<1>20. ASSUME NEW w \in Wave, ManifestResult(w)  PROVE Types'
  <2>1. PICK p \in Plans[w] : HandleDiff(w, p)
    BY <1>20 DEF ManifestResult
  <2> QED
    BY <1>1, <1>4, <1>20, <2>1 DEF ManifestResult, Types, TypeOK
<1>21. CASE TopicDiffResult
  <2>1. rx' \in Seq(Command) /\ phase' \in Request
    BY <1>2, <1>21, Numbers DEF TopicDiffResult, HandleTopicDiff
  <2> QED
    BY <1>1, <1>21, <2>1 DEF TopicDiffResult, HandleTopicDiff, Types, TypeOK
<1>22. CASE StrayResult
  <2>1. stray' \in 0 .. MaxStray
    BY <1>1, <1>22 DEF StrayResult
  <2>2. CASE /\ \E w \in Wave : \E p \in Plans[w] : HandleDiff(w, p)
             /\ UNCHANGED <<phase, hashExpected>>
    <3>1. PICK w \in Wave : \E p \in Plans[w] : HandleDiff(w, p)
      BY <2>2
    <3>2. PICK p \in Plans[w] : HandleDiff(w, p)
      BY <3>1
    <3> QED
      BY <1>1, <1>4, <1>22, <2>1, <2>2, <3>2 DEF StrayResult, Types, TypeOK
  <2>3. CASE HandleTopicDiff /\ UNCHANGED <<armed, pending, changed, work>>
    <3>1. rx' \in Seq(Command) /\ phase' \in Request
      BY <1>2, <2>3, Numbers DEF HandleTopicDiff
    <3> QED
      BY <1>1, <1>22, <2>1, <2>3, <3>1 DEF StrayResult, HandleTopicDiff, Types, TypeOK
  <2> QED
    BY <1>22, <2>2, <2>3 DEF StrayResult
<1>23. CASE ConnectionEnds
  BY <1>1, <1>23 DEF ConnectionEnds, Types, TypeOK
<1>24. CASE UNCHANGED vars
  BY <1>1, <1>24 DEF vars, Types, TypeOK
<1> QED
  BY <1>5, <1>6, <1>7, <1>8, <1>9, <1>10, <1>11, <1>12, <1>13, <1>14, <1>15, <1>16, <1>17,
     <1>18, <1>19, <1>20, <1>21, <1>22, <1>23, <1>24, StepCases

-----------------------------------------------------------------------------
(* What a step does to the channel: it may take the first command away and *)
(* it may add one at the end.                                              *)

Fatal == {"FailFatal"}
IsPush(r, s, C) == r = s \/ \E c \in C : r = Append(s, c)

LEMMA FollowingFacts ==
  /\ Following(Owner) = {"StartAvatarMetadata"}
  /\ Following(Avatar) = {"StartTopicMetadata"}
  /\ Following(Topic) = {"StartTopicValidation"}
  /\ Following(4) = {}
  /\ \A p \in Request : Following(p) \subseteq Meta
<1>1. ASSUME NEW p, NEW c, NextCommand(p) = <<c>>  PROVE Following(p) = {c}
  BY <1>1 DEF Following
<1>2. ASSUME NEW p, NextCommand(p) = <<>>  PROVE Following(p) = {}
  BY <1>2 DEF Following
<1>3. /\ Following(Owner) = {"StartAvatarMetadata"}
      /\ Following(Avatar) = {"StartTopicMetadata"}
      /\ Following(Topic) = {"StartTopicValidation"}
      /\ Following(4) = {}
  BY <1>1, <1>2, NextFacts, Zenon
<1> QED
  BY <1>3, Numbers DEF Meta

\* The command that follows is added to s.
LEMMA FollowingAdded ==
  ASSUME NEW p \in Request, NEW s \in Seq(Command)
  PROVE  /\ IsPush(s \o NextCommand(p), s, Following(p))
         /\ Following(p) \subseteq Box(s \o NextCommand(p))
<1>1. CASE p = 4
  BY <1>1, NextAdded, FollowingFacts DEF IsPush
<1>2. CASE p # 4
  <2>1. PICK c : s \o NextCommand(p) = Append(s, c) /\ Following(p) = {c}
    BY <1>2, NextAdded, FollowingFacts, Numbers
  <2> QED
    BY <2>1, BoxAppend DEF IsPush
<1> QED
  BY <1>1, <1>2

\* What is in a channel to which a command of C was added.
LEMMA Pushed ==
  ASSUME NEW s \in Seq(Command), NEW C, NEW r, IsPush(r, s, C)
  PROVE  /\ Box(s) \subseteq Box(r) /\ Box(r) \subseteq Box(s) \cup C
         /\ \A x : x \notin C => Times(r, x) = Times(s, x)
<1>1. CASE r = s
  BY <1>1
<1>2. ASSUME NEW c \in C, r = Append(s, c)
      PROVE  /\ Box(s) \subseteq Box(r) /\ Box(r) \subseteq Box(s) \cup C
             /\ \A x : x \notin C => Times(r, x) = Times(s, x)
  <2>1. Box(r) = Box(s) \cup {c}
    <3>1. Box(Append(s, c)) = Box(s) \cup {c}
      BY BoxAppend
    <3> QED
      BY <1>2, <3>1
  <2>2. ASSUME NEW x, x \notin C  PROVE Times(r, x) = Times(s, x)
    <3>1. Times(Append(s, c), x) = Times(s, x) + (IF c = x THEN 1 ELSE 0)
      BY TimesAppend
    <3>2. Times(s, x) \in Nat /\ c # x
      BY <1>2, <2>2, TimesType
    <3> QED
      BY <1>2, <3>1, <3>2
  <2> QED
    BY <2>1, <2>2
<1> QED
  BY <1>1, <1>2 DEF IsPush

\* The steps of the loop that take a command.
LEMMA LoopMoves ==
  /\ RepeatedPhase =>
       rx' = Tail(rx) /\ gate' = gate /\ \E c \in PhaseCommand : Receive(c) /\ c \in gate
  /\ DrainFails => rx' = Tail(rx) /\ \E c \in Meta : First(c)
  /\ StartAvatarMetadata => IsPush(rx', Tail(rx), Fatal)
  /\ StartTopicMetadata => IsPush(rx', Tail(rx), {"FailFatal", "StartTopicValidation"})
  /\ StartTopicValidation => IsPush(rx', Tail(rx), {"FailFatal", "StartMessages"})
  /\ StartMessages => rx' = Tail(rx) /\ First("StartMessages")
  /\ NotifyDelete => rx' = Tail(rx) /\ gate' = gate /\ Receive("NotifyDelete")
  /\ FailAttempt =>
       rx' = Tail(rx) /\ gate' = gate /\ \E c \in {"FailFatal", "FailRestart"} : Receive(c)
<1>1. RepeatedPhase =>
        rx' = Tail(rx) /\ gate' = gate /\ \E c \in PhaseCommand : Receive(c) /\ c \in gate
  BY DEF RepeatedPhase
<1>2. DrainFails => rx' = Tail(rx) /\ \E c \in Meta : First(c)
  <2>1. PhaseCommand \ {"StartMessages"} = Meta
    BY DEF PhaseCommand, Meta
  <2> QED
    BY <2>1 DEF DrainFails
<1>3. StartAvatarMetadata => IsPush(rx', Tail(rx), Fatal)
  BY DEF StartAvatarMetadata, OpenWave, BuildFails, IsPush, Fatal
<1>4. StartTopicMetadata => IsPush(rx', Tail(rx), {"FailFatal", "StartTopicValidation"})
  BY DEF StartTopicMetadata, OpenWave, BuildFails, IsPush
<1>5. StartTopicValidation => IsPush(rx', Tail(rx), {"FailFatal", "StartMessages"})
  BY DEF StartTopicValidation, BuildFails, IsPush
<1>6. StartMessages => rx' = Tail(rx) /\ First("StartMessages")
  BY DEF StartMessages
<1>7. NotifyDelete => rx' = Tail(rx) /\ gate' = gate /\ Receive("NotifyDelete")
  BY DEF NotifyDelete
<1>8. FailAttempt =>
        rx' = Tail(rx) /\ gate' = gate /\ \E c \in {"FailFatal", "FailRestart"} : Receive(c)
  BY DEF FailAttempt
<1> QED
  BY <1>1, <1>2, <1>3, <1>4, <1>5, <1>6, <1>7, <1>8

\* A result that is accepted, or not.
LEMMA DiffMoves ==
  ASSUME TypeOK, rx = <<>>, NEW w, NEW p, HandleDiff(w, p)
  PROVE  IsPush(rx', rx, Fatal \cup Following(phase))
<1>0. phase \in Request /\ rx \in Seq(Command)
  BY DEF TypeOK
<1>1. CASE rx' = rx
  BY <1>1 DEF IsPush
<1>2. CASE rx' = NextCommand(phase)
  <2>1. rx \o NextCommand(phase) = NextCommand(phase)
    BY <1>0, NextFacts
  <2> QED
    BY <1>0, <1>2, <2>1, FollowingAdded DEF IsPush
<1>3. CASE rx' = <<"FailFatal">>
  <2>1. rx' = Append(rx, "FailFatal")
    BY <1>3
  <2> QED
    BY <2>1 DEF IsPush, Fatal
<1> QED
  BY <1>1, <1>2, <1>3 DEF HandleDiff

\* A topic comparison.
LEMMA TopicMoves ==
  ASSUME rx = <<>>, HandleTopicDiff
  PROVE  IsPush(rx', rx, {"FailFatal", "StartMessages"})
<1>1. rx' = Append(rx, "FailFatal") \/ rx' = Append(rx, "StartMessages")
  BY DEF HandleTopicDiff
<1> QED
  BY <1>1 DEF IsPush

\* The steps of the tasks, of the watchdogs and of the environment.
LEMMA OtherMoves ==
  ASSUME TypeOK
  PROVE  /\ OwnerKickoff => IsPush(rx', rx, Fatal)
         /\ \A k \in Worker : OperationDone(k) => IsPush(rx', rx, {"NotifyDelete"})
         /\ \A k \in Worker : ReadPending(k) => rx' = rx
         /\ \A k \in Worker : AskNextPhase(k) =>
              IsPush(rx', rx, Following(phase)) /\ Following(phase) \subseteq Box(rx')
         /\ \A k \in Worker : OperationFails(k) => IsPush(rx', rx, {"FailFatal", "FailRestart"})
         /\ \A r \in Request : DeadlineExpires(r) => rx' = rx
         /\ \A r \in Request : DeadlineChecks(r) => IsPush(rx', rx, Fatal)
         /\ \A w \in Wave : ManifestResult(w) => IsPush(rx', rx, Fatal \cup Following(phase))
         /\ TopicDiffResult => IsPush(rx', rx, {"FailFatal", "StartMessages"})
         /\ StrayResult =>
              IsPush(rx', rx, {"FailFatal", "StartMessages"} \cup Following(phase))
<1>0. phase \in Request /\ rx \in Seq(Command)
  BY DEF TypeOK
<1>1. OwnerKickoff => IsPush(rx', rx, Fatal)
  BY DEF OwnerKickoff, OpenWave, BuildFails, IsPush, Fatal
<1>2. \A k \in Worker : OperationDone(k) => IsPush(rx', rx, {"NotifyDelete"})
  BY DEF OperationDone, IsPush
<1>3. \A k \in Worker : ReadPending(k) => rx' = rx
  BY DEF ReadPending
<1>4. \A k \in Worker : AskNextPhase(k) =>
        IsPush(rx', rx, Following(phase)) /\ Following(phase) \subseteq Box(rx')
  BY <1>0, FollowingAdded DEF AskNextPhase
<1>5. \A k \in Worker : OperationFails(k) => IsPush(rx', rx, {"FailFatal", "FailRestart"})
  BY DEF OperationFails, IsPush
<1>6. \A r \in Request : DeadlineExpires(r) => rx' = rx
  BY DEF DeadlineExpires
<1>7. \A r \in Request : DeadlineChecks(r) => IsPush(rx', rx, Fatal)
  BY DEF DeadlineChecks, IsPush, Fatal
<1>8. \A w \in Wave : ManifestResult(w) => IsPush(rx', rx, Fatal \cup Following(phase))
  BY DiffMoves DEF ManifestResult, ReadFrame
<1>9. TopicDiffResult => IsPush(rx', rx, {"FailFatal", "StartMessages"})
  BY TopicMoves DEF TopicDiffResult, ReadFrame
<1>10. StrayResult => IsPush(rx', rx, {"FailFatal", "StartMessages"} \cup Following(phase))
  <2>1. ASSUME ReadFrame, NEW w \in Wave, NEW p \in Plans[w], HandleDiff(w, p)
        PROVE  IsPush(rx', rx, {"FailFatal", "StartMessages"} \cup Following(phase))
    BY <2>1, DiffMoves DEF ReadFrame, IsPush, Fatal
  <2>2. ASSUME ReadFrame, HandleTopicDiff
        PROVE  IsPush(rx', rx, {"FailFatal", "StartMessages"} \cup Following(phase))
    BY <2>2, TopicMoves DEF ReadFrame, IsPush
  <2> QED
    BY <2>1, <2>2 DEF StrayResult
<1> QED
  BY <1>1, <1>2, <1>3, <1>4, <1>5, <1>6, <1>7, <1>8, <1>9, <1>10

-----------------------------------------------------------------------------
(* What holds for every plan: the beginning, the gate, the order of the    *)
(* frames and the count of the deletions.                                  *)

\* Before the owner wave there is nothing to do but to begin it, or to end.
LEMMA FreshKept ==
  ASSUME Types, Fresh, [Next]_vars
  PROVE  Fresh'
<1>1. SUFFICES ASSUME kickoff'  PROVE Fresh'
  BY DEF Fresh
<1>2. CASE ConnectionEnds
  BY <1>1, <1>2 DEF ConnectionEnds, Fresh
<1>3. CASE UNCHANGED vars
  BY <1>1, <1>3 DEF vars, Fresh
<1>4. ASSUME kickoff  PROVE ConnectionEnds \/ OwnerKickoff \/ UNCHANGED vars
  <2>1. /\ rx = <<>> /\ \A r \in Request : deadline[r] = "off"
        /\ \A k \in Worker : work[k].pc = "idle"
    BY <1>4, IdleFacts DEF Fresh
  <2>2. \A c : ~Receive(c)
    BY <1>4 DEF Receive
  <2>3. /\ ~RepeatedPhase /\ ~DrainFails /\ ~StartAvatarMetadata /\ ~StartTopicMetadata
        /\ ~StartTopicValidation /\ ~StartMessages /\ ~NotifyDelete /\ ~FailAttempt
    BY <2>2 DEF RepeatedPhase, DrainFails, StartAvatarMetadata, StartTopicMetadata,
                StartTopicValidation, StartMessages, NotifyDelete, FailAttempt, First
  <2>4. \A k \in Worker : /\ ~OperationDone(k) /\ ~ReadPending(k)
                          /\ ~AskNextPhase(k) /\ ~OperationFails(k)
    BY <2>1 DEF OperationDone, ReadPending, AskNextPhase, OperationFails, Working
  <2>5. \A r \in Request : ~DeadlineExpires(r) /\ ~DeadlineChecks(r)
    BY <2>1 DEF DeadlineExpires, DeadlineChecks
  <2>6. ~TopicDiffResult /\ ~StrayResult /\ \A w \in Wave : ~ManifestResult(w)
    BY <1>4 DEF TopicDiffResult, StrayResult, ManifestResult, ReadFrame
  <2> QED
    BY <2>3, <2>4, <2>5, <2>6, StepCases, Zenon
<1>5. CASE ~kickoff
  <2>1. kickoff' \in {kickoff, FALSE}
    BY StepCases
    DEF OwnerKickoff, RepeatedPhase, DrainFails, StartAvatarMetadata, StartTopicMetadata,
        StartTopicValidation, StartMessages, NotifyDelete, FailAttempt, OperationDone,
        ReadPending, AskNextPhase, OperationFails, DeadlineExpires, DeadlineChecks,
        ManifestResult, TopicDiffResult, StrayResult, ConnectionEnds, vars
  <2> QED
    BY <1>1, <1>5, <2>1
<1>6. CASE OwnerKickoff
  BY <1>1, <1>6 DEF OwnerKickoff
<1> QED
  BY <1>2, <1>3, <1>4, <1>5, <1>6

\* The gate is opened only for commands of the channel, and a new phase or a new
\* command in the channel follows one that was let through.
LEMMA GatesBy ==
  ASSUME Gates, gate \subseteq gate', gate' \subseteq gate \cup Box(rx),
         phase' = Avatar => phase = Avatar \/ "StartAvatarMetadata" \in gate',
         phase' = Topic => phase = Topic \/ "StartTopicMetadata" \in gate',
         NEW C, Box(rx') \subseteq Box(rx) \cup C,
         "StartTopicMetadata" \in C => "StartAvatarMetadata" \in gate',
         "StartTopicValidation" \in C => "StartTopicMetadata" \in gate'
  PROVE  Gates'
  BY DEF Gates, In

\* The phase and the gate after a step.
LEMMA PhaseMoves ==
  /\ OwnerKickoff => gate' = gate /\ phase' \in {phase, Owner}
  /\ RepeatedPhase => gate' = gate /\ phase' = phase
  /\ DrainFails => phase' = phase
  /\ StartAvatarMetadata => First("StartAvatarMetadata") /\ phase' \in {phase, Avatar}
  /\ StartTopicMetadata => First("StartTopicMetadata") /\ phase' \in {phase, Topic}
  /\ StartTopicValidation => First("StartTopicValidation") /\ phase' \in {phase, 4}
  /\ StartMessages \/ NotifyDelete \/ FailAttempt => phase' = phase
  /\ \A k \in Worker :
       OperationDone(k) \/ ReadPending(k) \/ AskNextPhase(k) \/ OperationFails(k) =>
         gate' = gate /\ phase' = phase
  /\ \A r \in Request :
       DeadlineExpires(r) \/ DeadlineChecks(r) => gate' = gate /\ phase' = phase
  /\ \A w \in Wave : ManifestResult(w) => gate' = gate /\ phase' = phase
  /\ TopicDiffResult \/ StrayResult => gate' = gate /\ phase' \in {phase, 4}
  /\ ConnectionEnds => gate' = gate /\ phase' = phase /\ rx' = rx
<1>1. /\ OwnerKickoff => gate' = gate /\ phase' \in {phase, Owner}
      /\ RepeatedPhase => gate' = gate /\ phase' = phase
      /\ DrainFails => phase' = phase
  BY DEF OwnerKickoff, OpenWave, BuildFails, RepeatedPhase, DrainFails
<1>2. StartAvatarMetadata => First("StartAvatarMetadata") /\ phase' \in {phase, Avatar}
  BY DEF StartAvatarMetadata, OpenWave, BuildFails
<1>3. StartTopicMetadata => First("StartTopicMetadata") /\ phase' \in {phase, Topic}
  BY DEF StartTopicMetadata, OpenWave, BuildFails
<1>4. StartTopicValidation => First("StartTopicValidation") /\ phase' \in {phase, 4}
  BY DEF StartTopicValidation, BuildFails
<1>5. StartMessages \/ NotifyDelete \/ FailAttempt => phase' = phase
  BY DEF StartMessages, NotifyDelete, FailAttempt
<1>6. \A k \in Worker :
        OperationDone(k) \/ ReadPending(k) \/ AskNextPhase(k) \/ OperationFails(k) =>
          gate' = gate /\ phase' = phase
  BY DEF OperationDone, ReadPending, AskNextPhase, OperationFails
<1>7. \A r \in Request :
        DeadlineExpires(r) \/ DeadlineChecks(r) => gate' = gate /\ phase' = phase
  BY DEF DeadlineExpires, DeadlineChecks
<1>8. \A w \in Wave : ManifestResult(w) => gate' = gate /\ phase' = phase
  BY DEF ManifestResult
<1>9. TopicDiffResult \/ StrayResult => gate' = gate /\ phase' \in {phase, 4}
  BY DEF TopicDiffResult, StrayResult, HandleTopicDiff
<1>10. ConnectionEnds => gate' = gate /\ phase' = phase /\ rx' = rx
  BY DEF ConnectionEnds
<1> QED
  BY <1>1, <1>2, <1>3, <1>4, <1>5, <1>6, <1>7, <1>8, <1>9, <1>10

\* A command of the loop: what was in the channel stays in it or went through the gate.
LEMMA TakenFacts ==
  ASSUME Types, NEW c, First(c)
  PROVE  /\ rx # <<>> /\ rx \in Seq(Command) /\ Tail(rx) \in Seq(Command) /\ c \in Command
         /\ Box(rx) = Box(Tail(rx)) \cup {c} /\ In(c)
         /\ c \notin gate /\ gate' = gate \cup {c} /\ outcome = "none" /\ ~kickoff
         /\ Head(rx) = c
  BY ReceiveFacts DEF First, Types

\* A phase is reached in its turn.
LEMMA GatesKept ==
  ASSUME Types, Fresh, Gates, [Next]_vars
  PROVE  Gates'
<1>0. TypeOK /\ rx \in Seq(Command) /\ phase \in Request
  BY DEF Types, TypeOK
<1>1. Avatar # Owner /\ Topic # Owner /\ Avatar # 4 /\ Topic # 4 /\ Avatar # Topic
  BY Numbers
<1>2. ASSUME NEW C, IsPush(rx', rx, C), gate' = gate, phase' \in {phase, Owner, 4},
             C \cap Meta \subseteq Following(phase)
      PROVE  Gates'
  <2>1. Box(rx') \subseteq Box(rx) \cup C
    BY <1>0, <1>2, Pushed
  <2>2. /\ "StartTopicMetadata" \in C => "StartAvatarMetadata" \in gate'
        /\ "StartTopicValidation" \in C => "StartTopicMetadata" \in gate'
    BY <1>0, <1>1, <1>2, FollowingFacts, Numbers DEF Meta, Gates
  <2> QED
    BY <1>1, <1>2, <2>1, <2>2, GatesBy
<1>3. ASSUME NEW c, First(c), NEW C, IsPush(rx', Tail(rx), C),
             phase' = Avatar => phase = Avatar \/ "StartAvatarMetadata" \in gate',
             phase' = Topic => phase = Topic \/ "StartTopicMetadata" \in gate',
             "StartTopicMetadata" \notin C,
             "StartTopicValidation" \in C => "StartTopicMetadata" \in gate'
      PROVE  Gates'
  <2>1. /\ Box(rx') \subseteq Box(rx) \cup C
        /\ gate \subseteq gate' /\ gate' \subseteq gate \cup Box(rx)
    <3>1. PICK s : s = Tail(rx)
      OBVIOUS
    <3>2. s \in Seq(Command) /\ Box(rx) = Box(s) \cup {c} /\ gate' = gate \cup {c}
      BY <1>3, <3>1, TakenFacts
    <3>3. Box(rx') \subseteq Box(s) \cup C
      BY <1>3, <3>1, <3>2, Pushed
    <3> QED
      BY <3>2, <3>3
  <2>2. /\ phase' = Avatar => phase = Avatar \/ "StartAvatarMetadata" \in gate'
        /\ phase' = Topic => phase = Topic \/ "StartTopicMetadata" \in gate'
        /\ "StartTopicMetadata" \in C => "StartAvatarMetadata" \in gate'
        /\ "StartTopicValidation" \in C => "StartTopicMetadata" \in gate'
    BY <1>3
  <2> QED
    BY <2>1, <2>2, GatesBy
<1>4. ASSUME rx' = Tail(rx), gate' = gate, phase' = phase, NEW c, Receive(c)
      PROVE  Gates'
  <2>1. PICK C : C = {}
    OBVIOUS
  <2>2. /\ Box(rx') \subseteq Box(rx) \cup C
        /\ gate \subseteq gate' /\ gate' \subseteq gate \cup Box(rx)
    BY <1>0, <1>4, ReceiveFacts
  <2> QED
    BY <1>4, <2>1, <2>2, GatesBy
<1>5. CASE OwnerKickoff
  BY <1>2, <1>5, <1>0, OtherMoves, PhaseMoves DEF Fatal, Meta
<1>6. CASE RepeatedPhase \/ NotifyDelete \/ FailAttempt
  BY <1>4, <1>6, LoopMoves, PhaseMoves
<1>7. CASE DrainFails \/ StartMessages
  <2>1. PICK c : First(c) /\ IsPush(rx', Tail(rx), {}) /\ phase' = phase
    BY <1>7, LoopMoves, PhaseMoves DEF IsPush
  <2> QED
    BY <1>3, <2>1
<1>8. CASE StartAvatarMetadata
  <2>1. /\ First("StartAvatarMetadata") /\ phase' \in {phase, Avatar}
        /\ IsPush(rx', Tail(rx), Fatal) /\ "StartAvatarMetadata" \in gate'
    BY <1>8, LoopMoves, PhaseMoves, TakenFacts
  <2> QED
    BY <1>1, <1>3, <2>1 DEF Fatal
<1>9. CASE StartTopicMetadata
  <2>1. /\ First("StartTopicMetadata") /\ phase' \in {phase, Topic}
        /\ IsPush(rx', Tail(rx), {"FailFatal", "StartTopicValidation"})
        /\ "StartTopicMetadata" \in gate'
    BY <1>9, LoopMoves, PhaseMoves, TakenFacts
  <2> QED
    BY <1>1, <1>3, <2>1
<1>10. CASE StartTopicValidation
  <2>1. /\ First("StartTopicValidation") /\ phase' \in {phase, 4}
        /\ IsPush(rx', Tail(rx), {"FailFatal", "StartMessages"})
    BY <1>10, LoopMoves, PhaseMoves
  <2> QED
    BY <1>1, <1>3, <2>1
<1>11. ASSUME NEW k \in Worker,
              OperationDone(k) \/ ReadPending(k) \/ AskNextPhase(k) \/ OperationFails(k)
       PROVE  Gates'
  <2>1. gate' = gate /\ phase' = phase
    BY <1>11, PhaseMoves
  <2>2. PICK C : IsPush(rx', rx, C) /\ C \in {{}, {"NotifyDelete"}, Following(phase),
                                              {"FailFatal", "FailRestart"}}
    BY <1>0, <1>11, OtherMoves DEF IsPush
  <2>3. C \cap Meta \subseteq Following(phase)
    BY <2>2 DEF Meta
  <2> QED
    BY <1>2, <2>1, <2>2, <2>3
<1>12. ASSUME NEW r \in Request, DeadlineExpires(r) \/ DeadlineChecks(r)
       PROVE  Gates'
  <2>1. gate' = gate /\ phase' = phase /\ IsPush(rx', rx, Fatal)
    BY <1>0, <1>12, PhaseMoves, OtherMoves DEF IsPush
  <2> QED
    BY <1>2, <2>1 DEF Fatal, Meta
<1>13. ASSUME NEW w \in Wave, ManifestResult(w)
       PROVE  Gates'
  <2>1. gate' = gate /\ phase' = phase /\ IsPush(rx', rx, Fatal \cup Following(phase))
    BY <1>0, <1>13, PhaseMoves, OtherMoves
  <2>2. PICK C : C = Fatal \cup Following(phase)
    OBVIOUS
  <2>3. C \cap Meta \subseteq Following(phase)
    BY <2>2 DEF Fatal, Meta
  <2> QED
    BY <1>2, <2>1, <2>2, <2>3
<1>14. CASE TopicDiffResult \/ StrayResult
  <2>1. /\ gate' = gate /\ phase' \in {phase, 4}
        /\ IsPush(rx', rx, {"FailFatal", "StartMessages"} \cup Following(phase))
    BY <1>0, <1>14, PhaseMoves, OtherMoves DEF IsPush
  <2>2. PICK C : C = {"FailFatal", "StartMessages"} \cup Following(phase)
    OBVIOUS
  <2>3. C \cap Meta \subseteq Following(phase)
    BY <2>2 DEF Fatal, Meta
  <2> QED
    BY <1>2, <2>1, <2>2, <2>3
<1>15. CASE ConnectionEnds \/ UNCHANGED vars
  <2>1. gate' = gate /\ phase' = phase /\ rx' = rx
    BY <1>15, PhaseMoves DEF vars
  <2> QED
    BY <2>1 DEF Gates, In
<1> QED
  BY <1>5, <1>6, <1>7, <1>8, <1>9, <1>10, <1>11, <1>12, <1>13, <1>14, <1>15, StepCases

-----------------------------------------------------------------------------
(* The order of the frames.                                                *)

LEMMA PlaceFacts ==
  /\ Place("OwnerRequest") = 1 /\ Place("AvatarRequest") = 2
  /\ Place("OwnerCompleted") = 3 /\ Place("TopicRequest") = 4
  /\ Place("TopicCompleted") = 5 /\ Place("HashRequest") = 6
<1>1. /\ DOMAIN PhaseOrder = 1 .. 6
      /\ PhaseOrder[1] = "OwnerRequest" /\ PhaseOrder[2] = "AvatarRequest"
      /\ PhaseOrder[3] = "OwnerCompleted" /\ PhaseOrder[4] = "TopicRequest"
      /\ PhaseOrder[5] = "TopicCompleted" /\ PhaseOrder[6] = "HashRequest"
  BY DEF PhaseOrder
<1>2. \A i \in 1 .. 6 : i \in {1, 2, 3, 4, 5, 6}
  OBVIOUS
<1>3. ASSUME NEW f, NEW n \in 1 .. 6, PhaseOrder[n] = f,
             \A i \in 1 .. 6 : PhaseOrder[i] = f => i = n
      PROVE  Place(f) = n
  BY <1>1, <1>3 DEF Place
<1>4. /\ \A i \in 1 .. 6 : PhaseOrder[i] = "OwnerRequest" => i = 1
      /\ \A i \in 1 .. 6 : PhaseOrder[i] = "AvatarRequest" => i = 2
      /\ \A i \in 1 .. 6 : PhaseOrder[i] = "OwnerCompleted" => i = 3
      /\ \A i \in 1 .. 6 : PhaseOrder[i] = "TopicRequest" => i = 4
      /\ \A i \in 1 .. 6 : PhaseOrder[i] = "TopicCompleted" => i = 5
      /\ \A i \in 1 .. 6 : PhaseOrder[i] = "HashRequest" => i = 6
  BY <1>1, <1>2
<1>5. 1 \in 1 .. 6 /\ 2 \in 1 .. 6 /\ 3 \in 1 .. 6 /\ 4 \in 1 .. 6 /\ 5 \in 1 .. 6 /\ 6 \in 1 .. 6
  OBVIOUS
<1> QED
  BY <1>1, <1>3, <1>4, <1>5, Zenon

LEMMA PlaceType == \A x \in Frame : x # "Delete" => Place(x) \in Nat
<1>1. 1 \in Nat /\ 2 \in Nat /\ 3 \in Nat /\ 4 \in Nat /\ 5 \in Nat /\ 6 \in Nat
  OBVIOUS
<1>2. ASSUME NEW x \in Frame, x # "Delete"
      PROVE  x \in {"OwnerRequest", "AvatarRequest", "OwnerCompleted", "TopicRequest",
                   "TopicCompleted", "HashRequest"}
  BY <1>2 DEF Frame
<1> QED
  BY <1>1, <1>2, PlaceFacts, Zenon

\* Frames in order, none beyond place n, and a frame that may follow them.
IsRow(s, n) == s \in Seq(Frame) /\ n \in Nat /\ Ordered(s) /\ UpTo(s, n)
MayFollow(f, n, m) == f \in Frame /\ (f = "Delete" \/ (n < Place(f) /\ Place(f) <= m))

\* A frame whose place is beyond those of the others goes to the end.
LEMMA FrameNext ==
  ASSUME NEW s, NEW n, NEW f, NEW m \in Nat, n <= m, IsRow(s, n), MayFollow(f, n, m)
  PROVE  IsRow(Append(s, f), m)
<1>0. /\ s \in Seq(Frame) /\ n \in Nat /\ f \in Frame
      /\ Ordered(s) /\ UpTo(s, n)
      /\ f # "Delete" => n < Place(f) /\ Place(f) <= m
  BY DEF IsRow, MayFollow
<1> DEFINE t == Append(s, f)
<1>1. /\ Len(t) = Len(s) + 1 /\ Len(s) \in Nat /\ t[Len(s) + 1] = f
      /\ \A i \in 1 .. Len(s) : t[i] = s[i] /\ s[i] \in Frame
      /\ t \in Seq(Frame)
  BY <1>0
<1>2. \A x \in Frame : x # "Delete" => Place(x) \in Nat
  BY PlaceType
<1> HIDE DEF t
<1>3. ASSUME NEW i \in 1 .. Len(t), t[i] # "Delete"  PROVE Place(t[i]) <= m
  <2>1. CASE i = Len(s) + 1
    BY <1>0, <1>1, <1>3, <2>1
  <2>2. CASE i # Len(s) + 1
    <3>1. i \in 1 .. Len(s)
      BY <1>1, <2>2
    <3>2. Place(s[i]) <= n /\ Place(s[i]) \in Nat
      BY <1>0, <1>1, <1>2, <1>3, <3>1 DEF UpTo
    <3> QED
      BY <1>0, <1>1, <3>1, <3>2
  <2> QED
    BY <2>1, <2>2
<1>4. ASSUME NEW i \in 1 .. Len(t), NEW j \in 1 .. Len(t), i < j, t[i] # "Delete", t[j] # "Delete"
      PROVE  Place(t[i]) < Place(t[j])
  <2>1. i \in 1 .. Len(s) /\ t[i] = s[i]
    BY <1>1, <1>4
  <2>2. CASE j = Len(s) + 1
    <3>1. Place(s[i]) <= n /\ Place(s[i]) \in Nat
      BY <1>0, <1>1, <1>2, <1>4, <2>1 DEF UpTo
    <3> QED
      BY <1>0, <1>1, <1>2, <1>4, <2>1, <2>2, <3>1
  <2>3. CASE j # Len(s) + 1
    <3>1. j \in 1 .. Len(s) /\ t[j] = s[j]
      BY <1>1, <2>3
    <3> QED
      BY <1>0, <1>4, <2>1, <3>1 DEF Ordered
  <2> QED
    BY <2>2, <2>3
<1>5. Ordered(t) /\ UpTo(t, m)
  BY <1>3, <1>4 DEF Ordered, UpTo
<1> QED
  BY <1>1, <1>5 DEF t, IsRow

\* A wave that begins sends a request, after what is sent before it.
LEMMA OpenSent ==
  ASSUME sent \in Seq(Frame), NEW w, NEW rest, NEW x \in Frame, NEW y \in Frame
  PROVE  /\ OpenWave(w, rest, <<>>, y) => sent' \in {sent, Append(sent, y)}
         /\ OpenWave(w, rest, <<x>>, y) =>
              sent' \in {Append(sent, x), Append(Append(sent, x), y)}
         /\ BuildFails(rest, <<>>) => sent' = sent
         /\ BuildFails(rest, <<x>>) => sent' = Append(sent, x)
<1>1. /\ sent \o <<>> = sent /\ sent \o <<x>> = Append(sent, x)
      /\ sent \o <<y>> = Append(sent, y)
      /\ (sent \o <<x>>) \o <<y>> = Append(Append(sent, x), y)
  BY Concat
<1> QED
  BY <1>1 DEF OpenWave, BuildFails

\* What is sent in a step.
LEMMA SentMoves ==
  ASSUME sent \in Seq(Frame), [Next]_vars
  PROVE  \/ sent' = sent
         \/ OwnerKickoff /\ sent' = Append(sent, "OwnerRequest")
         \/ StartAvatarMetadata /\ sent' = Append(sent, "AvatarRequest")
         \/ /\ StartTopicMetadata
            /\ sent' \in {Append(sent, "OwnerCompleted"),
                          Append(Append(sent, "OwnerCompleted"), "TopicRequest")}
         \/ /\ StartTopicValidation
            /\ sent' \in {Append(sent, "TopicCompleted"),
                          Append(Append(sent, "TopicCompleted"), "HashRequest")}
         \/ NotifyDelete /\ sent' = Append(sent, "Delete")
<1>1. OwnerKickoff => sent' \in {sent, Append(sent, "OwnerRequest")}
  BY FrameNames, OpenSent DEF OwnerKickoff
<1>2. StartAvatarMetadata => sent' \in {sent, Append(sent, "AvatarRequest")}
  BY FrameNames, OpenSent DEF StartAvatarMetadata
<1>3. StartTopicMetadata =>
        sent' \in {Append(sent, "OwnerCompleted"),
                   Append(Append(sent, "OwnerCompleted"), "TopicRequest")}
  BY FrameNames, OpenSent DEF StartTopicMetadata
<1>4. StartTopicValidation =>
        sent' \in {Append(sent, "TopicCompleted"),
                   Append(Append(sent, "TopicCompleted"), "HashRequest")}
  <2>1. /\ sent \o <<"TopicCompleted">> = Append(sent, "TopicCompleted")
        /\ sent \o <<"TopicCompleted", "HashRequest">> =
             Append(Append(sent, "TopicCompleted"), "HashRequest")
    BY FrameNames, Concat
  <2> QED
    BY <2>1 DEF StartTopicValidation, BuildFails
<1>5. NotifyDelete => sent' = Append(sent, "Delete")
  BY DEF NotifyDelete
<1>6. RepeatedPhase \/ DrainFails \/ StartMessages \/ FailAttempt => sent' = sent
  BY DEF RepeatedPhase, DrainFails, StartMessages, FailAttempt
<1>7. \A k \in Worker :
        OperationDone(k) \/ ReadPending(k) \/ AskNextPhase(k) \/ OperationFails(k) => sent' = sent
  BY DEF OperationDone, ReadPending, AskNextPhase, OperationFails
<1>8. \A r \in Request : DeadlineExpires(r) \/ DeadlineChecks(r) => sent' = sent
  BY DEF DeadlineExpires, DeadlineChecks
<1>9. \A w \in Wave : ManifestResult(w) => sent' = sent
  BY DEF ManifestResult
<1>10. TopicDiffResult \/ StrayResult \/ ConnectionEnds \/ UNCHANGED vars => sent' = sent
  BY DEF TopicDiffResult, StrayResult, ConnectionEnds, vars
<1> QED
  BY <1>1, <1>2, <1>3, <1>4, <1>5, <1>6, <1>7, <1>8, <1>9, <1>10, StepCases

\* The gate is never closed.
LEMMA GateGrows ==
  ASSUME Types, [Next]_vars
  PROVE  gate \subseteq gate'
<1>1. DrainFails \/ StartMessages \/ StartAvatarMetadata \/ StartTopicMetadata
        \/ StartTopicValidation => gate \subseteq gate'
  BY DEF DrainFails, StartMessages, StartAvatarMetadata, StartTopicMetadata,
         StartTopicValidation, First
<1>2. RepeatedPhase \/ NotifyDelete \/ FailAttempt \/ UNCHANGED vars => gate' = gate
  BY DEF RepeatedPhase, NotifyDelete, FailAttempt, vars
<1> QED
  BY <1>1, <1>2, PhaseMoves, StepCases

LEMMA ReachedFacts ==
  ASSUME NEW g, NEW h
  PROVE  /\ Reached(g) \in 1 .. 6
         /\ g \subseteq h => Reached(g) <= Reached(h)
  BY DEF Reached

\* The frames keep their order.
LEMMA FramesKept ==
  ASSUME Types, Fresh, Gates, Frames, [Next]_vars
  PROVE  Frames'
<1>0. sent \in Seq(Frame) /\ Ordered(sent) /\ UpTo(sent, Reached(gate))
  BY DEF Types, TypeOK, Frames
<1>1. PICK n, m : n = Reached(gate) /\ m = Reached(gate')
  OBVIOUS
<1>2. n \in 1 .. 6 /\ m \in 1 .. 6 /\ n <= m /\ n \in Nat /\ m \in Nat
  BY <1>1, GateGrows, ReachedFacts
<1>3. IsRow(sent, n)
  BY <1>0, <1>1, <1>2 DEF IsRow
<1>4. ASSUME IsRow(sent', m)  PROVE Frames'
  BY <1>1, <1>4 DEF Frames, Ordered, UpTo, IsRow
<1>5. CASE sent' = sent
  <2>1. \A i \in 1 .. Len(sent) : sent[i] \in Frame
    BY <1>0
  <2>2. UpTo(sent, m)
    BY <1>0, <1>1, <1>2, <2>1, PlaceType DEF UpTo
  <2> QED
    BY <1>0, <1>2, <1>4, <1>5, <2>2 DEF IsRow
<1>6. CASE OwnerKickoff /\ sent' = Append(sent, "OwnerRequest")
  <2>1. sent = <<>>
    BY <1>6 DEF OwnerKickoff, Fresh
  <2>2. IsRow(sent, 0)
    BY <1>0, <2>1 DEF UpTo, IsRow
  <2>3. MayFollow("OwnerRequest", 0, m) /\ 0 <= m
    BY <1>2, PlaceFacts, FrameNames DEF MayFollow
  <2> QED
    BY <1>2, <1>4, <1>6, <2>2, <2>3, FrameNext
<1>7. CASE StartAvatarMetadata /\ sent' = Append(sent, "AvatarRequest")
  <2>1. First("StartAvatarMetadata")
    BY <1>7, PhaseMoves
  <2>2. /\ "StartAvatarMetadata" \notin gate /\ "StartAvatarMetadata" \in gate'
    BY <2>1, TakenFacts
  <2>3. n = 1 /\ 2 <= m
    BY <1>1, <2>2 DEF Reached
  <2>4. MayFollow("AvatarRequest", n, m)
    BY <2>3, PlaceFacts, FrameNames DEF MayFollow
  <2> QED
    BY <1>2, <1>3, <1>4, <1>7, <2>4, FrameNext
<1>8. CASE /\ StartTopicMetadata
           /\ sent' \in {Append(sent, "OwnerCompleted"),
                         Append(Append(sent, "OwnerCompleted"), "TopicRequest")}
  <2>1. First("StartTopicMetadata")
    BY <1>8, PhaseMoves
  <2>2. /\ "StartTopicMetadata" \notin gate /\ "StartTopicMetadata" \in gate'
        /\ "StartAvatarMetadata" \in gate /\ "StartAvatarMetadata" \in gate'
    BY <2>1, TakenFacts DEF Gates
  <2>3. n = 2 /\ 4 <= m
    BY <1>1, <2>2 DEF Reached
  <2>4. PICK s : s = Append(sent, "OwnerCompleted")
    OBVIOUS
  <2>5. /\ MayFollow("OwnerCompleted", n, 3) /\ MayFollow("OwnerCompleted", n, m)
        /\ MayFollow("TopicRequest", 3, m)
    BY <1>2, <2>3, PlaceFacts, FrameNames DEF MayFollow
  <2>6. IsRow(s, 3) /\ IsRow(s, m)
    <3>1. IsRow(s, 3)
      <4>1. 3 \in Nat /\ n <= 3
        BY <2>3
      <4> QED
        BY <1>3, <2>4, <2>5, <4>1, FrameNext
    <3>2. IsRow(s, m)
      BY <1>2, <1>3, <2>4, <2>5, FrameNext
    <3> QED
      BY <3>1, <3>2
  <2>7. IsRow(Append(s, "TopicRequest"), m)
    <3>1. 3 <= m
      BY <1>2, <2>3
    <3> QED
      BY <1>2, <2>5, <2>6, <3>1, FrameNext
  <2> QED
    BY <1>4, <1>8, <2>4, <2>6, <2>7
<1>9. CASE /\ StartTopicValidation
           /\ sent' \in {Append(sent, "TopicCompleted"),
                         Append(Append(sent, "TopicCompleted"), "HashRequest")}
  <2>1. First("StartTopicValidation")
    BY <1>9, PhaseMoves
  <2>2. /\ "StartTopicValidation" \notin gate /\ "StartTopicValidation" \in gate'
        /\ "StartTopicMetadata" \in gate /\ "StartTopicMetadata" \in gate'
        /\ "StartAvatarMetadata" \in gate /\ "StartAvatarMetadata" \in gate'
    BY <2>1, TakenFacts DEF Gates
  <2>3. n = 4 /\ m = 6
    BY <1>1, <2>2 DEF Reached
  <2>4. PICK s : s = Append(sent, "TopicCompleted")
    OBVIOUS
  <2>5. /\ MayFollow("TopicCompleted", n, 5) /\ MayFollow("TopicCompleted", n, m)
        /\ MayFollow("HashRequest", 5, m)
    BY <1>2, <2>3, PlaceFacts, FrameNames DEF MayFollow
  <2>6. IsRow(s, 5) /\ IsRow(s, m)
    <3>1. IsRow(s, 5)
      <4>1. 5 \in Nat /\ n <= 5
        BY <2>3
      <4> QED
        BY <1>3, <2>4, <2>5, <4>1, FrameNext
    <3>2. IsRow(s, m)
      BY <1>2, <1>3, <2>4, <2>5, FrameNext
    <3> QED
      BY <3>1, <3>2
  <2>7. IsRow(Append(s, "HashRequest"), m)
    <3>1. 5 <= m
      BY <1>2, <2>3
    <3> QED
      BY <1>2, <2>5, <2>6, <3>1, FrameNext
  <2> QED
    BY <1>4, <1>9, <2>4, <2>6, <2>7
<1>10. CASE NotifyDelete /\ sent' = Append(sent, "Delete")
  <2>1. MayFollow("Delete", n, m)
    BY FrameNames DEF MayFollow
  <2> QED
    BY <1>2, <1>3, <1>4, <1>10, <2>1, FrameNext
<1> QED
  BY <1>0, <1>5, <1>6, <1>7, <1>8, <1>9, <1>10, SentMoves

-----------------------------------------------------------------------------
(* The count of the deletions.                                             *)

\* Only the notification tells the desktop of a deletion.
LEMMA HeardKept ==
  ASSUME Types, [Next]_vars, ~NotifyDelete
  PROVE  Times(sent', "Delete") = Times(sent, "Delete")
<1>0. sent \in Seq(Frame)
  BY DEF Types, TypeOK
<1>1. ASSUME NEW s \in Seq(Frame), NEW f \in Frame, f # "Delete"
      PROVE  Append(s, f) \in Seq(Frame) /\ Times(Append(s, f), "Delete") = Times(s, "Delete")
  <2>1. Times(s, "Delete") \in Nat
    BY TimesType
  <2>2. Times(Append(s, f), "Delete") = Times(s, "Delete") + 0
    BY <1>1, TimesAppend
  <2> QED
    BY <2>1, <2>2
<1>2. /\ \A f \in Frame \ {"Delete"} : Times(Append(sent, f), "Delete") = Times(sent, "Delete")
      /\ \A f, g \in Frame \ {"Delete"} :
           Times(Append(Append(sent, f), g), "Delete") = Times(sent, "Delete")
  BY <1>0, <1>1
<1>3. PICK F : F = Frame \ {"Delete"}
  OBVIOUS
<1>4. /\ "OwnerRequest" \in F /\ "AvatarRequest" \in F /\ "OwnerCompleted" \in F
      /\ "TopicRequest" \in F /\ "TopicCompleted" \in F /\ "HashRequest" \in F
  BY <1>3, FrameNames
<1>5. \/ sent' = sent
      \/ \E f \in F : sent' = Append(sent, f)
      \/ \E f, g \in F : sent' = Append(Append(sent, f), g)
  BY <1>0, <1>4, SentMoves, Zenon
<1>6. ASSUME NEW f \in F, sent' = Append(sent, f)
      PROVE  Times(sent', "Delete") = Times(sent, "Delete")
  BY <1>2, <1>3, <1>6
<1>7. ASSUME NEW f \in F, NEW g \in F, sent' = Append(Append(sent, f), g)
      PROVE  Times(sent', "Delete") = Times(sent, "Delete")
  BY <1>2, <1>3, <1>7
<1> QED
  BY <1>5, <1>6, <1>7

\* A command that is no notification comes and goes without being counted.
LEMMA QueuedKept ==
  ASSUME TypeOK, NEW C, "NotifyDelete" \notin C,
         \/ IsPush(rx', rx, C)
         \/ IsPush(rx', Tail(rx), C) /\ \E c \in Command \ {"NotifyDelete"} : Receive(c)
  PROVE  Times(rx', "NotifyDelete") = Times(rx, "NotifyDelete")
<1>0. rx \in Seq(Command)
  BY DEF TypeOK
<1>1. CASE IsPush(rx', rx, C)
  BY <1>0, <1>1, Pushed
<1>2. ASSUME IsPush(rx', Tail(rx), C), NEW c \in Command \ {"NotifyDelete"}, Receive(c)
      PROVE  Times(rx', "NotifyDelete") = Times(rx, "NotifyDelete")
  <2>1. Head(rx) = c /\ Tail(rx) \in Seq(Command) /\ rx # <<>>
    BY <1>2, ReceiveFacts
  <2>2. Times(rx', "NotifyDelete") = Times(Tail(rx), "NotifyDelete")
    <3>1. PICK s : s = Tail(rx)
      OBVIOUS
    <3>2. s \in Seq(Command) /\ IsPush(rx', s, C)
      BY <1>2, <2>1, <3>1
    <3>3. Times(rx', "NotifyDelete") = Times(s, "NotifyDelete")
      BY <3>2, Pushed
    <3> QED
      BY <3>1, <3>3
  <2>3. /\ Times(rx, "NotifyDelete") = Times(Tail(rx), "NotifyDelete") + 0
        /\ Times(Tail(rx), "NotifyDelete") \in Nat
    BY <1>0, <1>2, <2>1, TimesTail, TimesType
  <2> QED
    BY <2>2, <2>3
<1> QED
  BY <1>1, <1>2

\* A deletion is told, or it is still to be told.
LEMMA ToldKept ==
  ASSUME Types, Fresh, Told, [Next]_vars
  PROVE  Told'
<1>0. /\ TypeOK /\ rx \in Seq(Command) /\ sent \in Seq(Frame) /\ deleted \in Nat
      /\ phase \in Request
  BY DEF Types, TypeOK
<1>1. /\ Times(sent, "Delete") \in Nat /\ Times(rx, "NotifyDelete") \in Nat
      /\ deleted = Times(sent, "Delete") + Times(rx, "NotifyDelete")
  BY <1>0, TimesType DEF Told
<1>2. ASSUME ~NotifyDelete, deleted' = deleted,
             Times(rx', "NotifyDelete") = Times(rx, "NotifyDelete")
      PROVE  Told'
  BY <1>1, <1>2, HeardKept DEF Told
<1>3. Meta \cup PhaseCommand \cup {"FailFatal", "FailRestart"} \subseteq Command \ {"NotifyDelete"}
  BY DEF Meta, PhaseCommand, Command
<1>4. CASE NotifyDelete
  <2>1. /\ rx' = Tail(rx) /\ Head(rx) = "NotifyDelete" /\ rx # <<>>
        /\ sent' = Append(sent, "Delete") /\ deleted' = deleted
        /\ Tail(rx) \in Seq(Command)
    BY <1>0, <1>4, ReceiveFacts DEF NotifyDelete
  <2>2. /\ Times(rx, "NotifyDelete") = Times(Tail(rx), "NotifyDelete") + 1
        /\ Times(Tail(rx), "NotifyDelete") \in Nat
        /\ Times(sent', "Delete") = Times(sent, "Delete") + 1
    <3>1. Times(rx, "NotifyDelete") = Times(Tail(rx), "NotifyDelete") + 1
      BY <1>0, <2>1, TimesTail
    <3>2. Times(Tail(rx), "NotifyDelete") \in Nat
      BY <2>1, TimesType
    <3>3. Times(Append(sent, "Delete"), "Delete") = Times(sent, "Delete") + 1
      BY <1>0, TimesAppend
    <3> QED
      BY <2>1, <3>1, <3>2, <3>3
  <2> QED
    BY <1>1, <2>1, <2>2 DEF Told
<1>5. ASSUME NEW k \in Worker, OperationDone(k), ~NotifyDelete  PROVE Told'
  <2>1. Times(sent', "Delete") = Times(sent, "Delete")
    BY <1>5, HeardKept
  <2>2. CASE rx' = rx /\ deleted' = deleted
    BY <1>1, <2>1, <2>2 DEF Told
  <2>3. CASE rx' = Append(rx, "NotifyDelete") /\ deleted' = deleted + 1
    <3>1. Times(rx', "NotifyDelete") = Times(rx, "NotifyDelete") + 1
      BY <1>0, <2>3, TimesAppend
    <3> QED
      BY <1>1, <2>1, <2>3, <3>1 DEF Told
  <2> QED
    BY <1>5, <2>2, <2>3 DEF OperationDone
<1>6. CASE ~NotifyDelete /\ ~\E k \in Worker : OperationDone(k)
  <2>1. deleted' = deleted
    BY <1>6, StepCases
    DEF OwnerKickoff, RepeatedPhase, DrainFails, StartAvatarMetadata, StartTopicMetadata,
        StartTopicValidation, StartMessages, FailAttempt, ReadPending, AskNextPhase,
        OperationFails, DeadlineExpires, DeadlineChecks,
        ManifestResult, TopicDiffResult, StrayResult, ConnectionEnds, vars
  <2>2. PICK C : C = Command \ {"NotifyDelete"}
    OBVIOUS
  <2>3. \A s : /\ IsPush(s, s, C)
               /\ \A r, D : D \subseteq C /\ IsPush(r, s, D) => IsPush(r, s, C)
    BY DEF IsPush
  <2>4. /\ Fatal \subseteq C /\ Following(phase) \subseteq C
        /\ Fatal \cup Following(phase) \subseteq C
        /\ {"FailFatal", "FailRestart"} \subseteq C
        /\ {"FailFatal", "StartTopicValidation"} \subseteq C
        /\ {"FailFatal", "StartMessages"} \subseteq C
        /\ {"FailFatal", "StartMessages"} \cup Following(phase) \subseteq C
    BY <1>0, <1>3, <2>2, FollowingFacts DEF Fatal, Meta, PhaseCommand
  <2>5. RepeatedPhase \/ DrainFails \/ StartAvatarMetadata \/ StartTopicMetadata
          \/ StartTopicValidation \/ StartMessages \/ FailAttempt =>
          IsPush(rx', Tail(rx), C) /\ \E c \in C : Receive(c)
    <3>1. RepeatedPhase => IsPush(rx', Tail(rx), C) /\ \E c \in C : Receive(c)
      BY <1>3, <2>2, <2>3, LoopMoves
    <3>2. DrainFails => IsPush(rx', Tail(rx), C) /\ \E c \in C : Receive(c)
      BY <1>3, <2>2, <2>3, LoopMoves DEF First
    <3>3. StartAvatarMetadata => IsPush(rx', Tail(rx), C) /\ \E c \in C : Receive(c)
      <4>1. ASSUME StartAvatarMetadata
            PROVE  IsPush(rx', Tail(rx), Fatal) /\ Receive("StartAvatarMetadata")
        BY <4>1, LoopMoves, PhaseMoves DEF First
      <4>2. "StartAvatarMetadata" \in C
        BY <1>3, <2>2 DEF Meta
      <4> QED
        BY <2>3, <2>4, <4>1, <4>2
    <3>4. StartTopicMetadata => IsPush(rx', Tail(rx), C) /\ \E c \in C : Receive(c)
      <4>1. ASSUME StartTopicMetadata
            PROVE  /\ IsPush(rx', Tail(rx), {"FailFatal", "StartTopicValidation"})
                   /\ Receive("StartTopicMetadata")
        BY <4>1, LoopMoves, PhaseMoves DEF First
      <4>2. "StartTopicMetadata" \in C
        BY <1>3, <2>2 DEF Meta
      <4> QED
        BY <2>3, <2>4, <4>1, <4>2
    <3>5. StartTopicValidation => IsPush(rx', Tail(rx), C) /\ \E c \in C : Receive(c)
      <4>1. ASSUME StartTopicValidation
            PROVE  /\ IsPush(rx', Tail(rx), {"FailFatal", "StartMessages"})
                   /\ Receive("StartTopicValidation")
        BY <4>1, LoopMoves, PhaseMoves DEF First
      <4>2. "StartTopicValidation" \in C
        BY <1>3, <2>2 DEF Meta
      <4> QED
        BY <2>3, <2>4, <4>1, <4>2
    <3>6. StartMessages => IsPush(rx', Tail(rx), C) /\ \E c \in C : Receive(c)
      BY <1>3, <2>2, <2>3, LoopMoves DEF First, PhaseCommand
    <3>7. FailAttempt => IsPush(rx', Tail(rx), C) /\ \E c \in C : Receive(c)
      BY <1>3, <2>2, <2>3, LoopMoves
    <3> QED
      BY <3>1, <3>2, <3>3, <3>4, <3>5, <3>6, <3>7
  <2>6. \/ IsPush(rx', rx, C)
        \/ IsPush(rx', Tail(rx), C) /\ \E c \in C : Receive(c)
    <3>1. OwnerKickoff \/ TopicDiffResult \/ StrayResult => IsPush(rx', rx, C)
      BY <1>0, <2>3, <2>4, OtherMoves
    <3>2. \A k \in Worker :
            ReadPending(k) \/ AskNextPhase(k) \/ OperationFails(k) => IsPush(rx', rx, C)
      BY <1>0, <2>3, <2>4, OtherMoves
    <3>3. \A r \in Request : DeadlineExpires(r) \/ DeadlineChecks(r) => IsPush(rx', rx, C)
      BY <1>0, <2>3, <2>4, OtherMoves
    <3>4. \A w \in Wave : ManifestResult(w) => IsPush(rx', rx, C)
      BY <1>0, <2>3, <2>4, OtherMoves
    <3>5. ConnectionEnds \/ UNCHANGED vars => IsPush(rx', rx, C)
      BY <2>3, PhaseMoves DEF vars
    <3> QED
      BY <1>6, <2>5, <3>1, <3>2, <3>3, <3>4, <3>5, StepCases
  <2>7. Times(rx', "NotifyDelete") = Times(rx, "NotifyDelete")
    BY <1>0, <2>2, <2>6, QueuedKept
  <2> QED
    BY <1>2, <1>6, <2>1, <2>7
<1> QED
  BY <1>4, <1>5, <1>6

-----------------------------------------------------------------------------
(* What holds for every plan.                                              *)

LEMMA InitInv == Init => IInv
<1>1. SUFFICES ASSUME Init  PROVE IInv
  OBVIOUS
<1>2. \A k \in Worker : work[k] = Idle /\ IsTask(work[k])
  BY <1>1, IdleFacts DEF Init
<1>3. TypeOK
  <2>1. work \in [Worker -> [pc : {"idle", "run", "subbed", "zero", "done"},
                             left : Nat, dels : Nat]]
    BY <1>1 DEF Init, Idle
  <2>2. /\ 0 \in 0 .. (CounterMod - 1) /\ 0 \in 0 .. MaxStray /\ Owner \in Request
    BY BoundAssumption, Numbers
  <2>3. rx \in Seq(Command) /\ sent \in Seq(Frame)
    BY <1>1 DEF Init
  <2>4. deadline \in [Request -> {"off", "armed", "expired"}]
    BY <1>1 DEF Init
  <2> QED
    BY <1>1, <2>1, <2>2, <2>3, <2>4 DEF Init, TypeOK
<1>4. Box(rx) = {} /\ rx = <<>> /\ sent = <<>> /\ gate = {} /\ phase = Owner
  BY <1>1, BoxEmpty DEF Init
<1>5. Gates
  BY <1>4, Numbers DEF Gates, In
<1>6. Frames
  BY <1>4 DEF Frames, UpTo, Ordered
<1>7. Times(sent, "Delete") = 0 /\ Times(rx, "NotifyDelete") = 0
  BY <1>4, TimesNone
<1>8. Told
  BY <1>1, <1>7 DEF Init, Told
<1> QED
  BY <1>1, <1>2, <1>3, <1>5, <1>6, <1>8 DEF Init, IInv, Types, Fresh

LEMMA InvKept ==
  ASSUME IInv, [Next]_vars
  PROVE  IInv'
  BY TypesKept, FreshKept, GatesKept, FramesKept, ToldKept DEF IInv

\* The inductive invariant of the waves, for every plan: types, the order of the
\* phases in the gate, in the channel and among the frames, and the count of the
\* deletions.
THEOREM Invariance == Spec => []IInv
<1>1. IInv /\ [Next]_vars => IInv'
  BY InvKept
<1> QED
  BY InitInv, <1>1, PTL DEF Spec

\* Every variable keeps its type, whatever the desktop and the operations do: the
\* counter stays below its wrap-around, and no task has less than nothing left.
THEOREM TypeCorrect == Spec => []TypeOK
<1>1. IInv => TypeOK
  BY DEF IInv, Types
<1> QED
  BY <1>1, Invariance, PTL

\* The frames of the phases go out in order, none twice, whatever tasks saw the
\* counter at zero: the phase gate (sync_service.rs) is enough for this, with any
\* number of tasks in a wave.
THEOREM PhasesInOrder == Spec => []FramesInOrder
<1>1. ASSUME IInv  PROVE FramesInOrder
  <2>1. sent \in Seq(Frame) /\ Ordered(sent)
    BY <1>1 DEF IInv, Types, TypeOK, Frames
  <2>2. DOMAIN sent = 1 .. Len(sent)
    BY <2>1
  <2> QED
    BY <2>1, <2>2 DEF FramesInOrder, Ordered
<1> QED
  BY <1>1, Invariance, PTL

-----------------------------------------------------------------------------
(* With one task per owner result: the sum of what is left.                *)

SumOf(x) ==
  (x[<<1, "pull">>].left + x[<<1, "push">>].left + x[<<1, "other">>].left) +
  (x[<<2, "pull">>].left + x[<<2, "push">>].left + x[<<2, "other">>].left) +
  (x[<<3, "pull">>].left + x[<<3, "push">>].left + x[<<3, "other">>].left)
AllTasks(x) == \A k \in Worker : IsTask(x[k])

LEMMA Workers ==
  \A k : k \in Worker <=>
    k \in {<<1, "pull">>, <<1, "push">>, <<1, "other">>,
           <<2, "pull">>, <<2, "push">>, <<2, "other">>,
           <<3, "pull">>, <<3, "push">>, <<3, "other">>}
  BY Numbers DEF Worker, Kind

LEMMA LeftType ==
  ASSUME NEW x, AllTasks(x)
  PROVE  \A k \in Worker : x[k].left \in Nat
  BY DEF AllTasks, IsTask

LEMMA OutstandingSum ==
  Outstanding = SumOf(work) /\ Outstanding' = SumOf(work')
  BY Numbers DEF Outstanding, OfWave, SumOf

\* A sum of numbers: what is left of one task is part of it.
LEMMA SumFacts ==
  ASSUME NEW x, AllTasks(x)
  PROVE  /\ SumOf(x) \in Nat
         /\ \A k \in Worker : x[k].left <= SumOf(x)
         /\ (\A k \in Worker : x[k].left = 0) => SumOf(x) = 0
<1>1. \A k \in {<<1, "pull">>, <<1, "push">>, <<1, "other">>,
                <<2, "pull">>, <<2, "push">>, <<2, "other">>,
                <<3, "pull">>, <<3, "push">>, <<3, "other">>} : x[k].left \in Nat
  BY LeftType, Workers
<1>2. SumOf(x) \in Nat
  BY <1>1 DEF SumOf
<1>3. \A k \in {<<1, "pull">>, <<1, "push">>, <<1, "other">>,
                <<2, "pull">>, <<2, "push">>, <<2, "other">>,
                <<3, "pull">>, <<3, "push">>, <<3, "other">>} : x[k].left <= SumOf(x)
  BY <1>1 DEF SumOf
<1>4. ASSUME \A k \in Worker : x[k].left = 0  PROVE SumOf(x) = 0
  <2>1. \A k \in {<<1, "pull">>, <<1, "push">>, <<1, "other">>,
                  <<2, "pull">>, <<2, "push">>, <<2, "other">>,
                  <<3, "pull">>, <<3, "push">>, <<3, "other">>} : x[k].left = 0
    BY <1>4, Workers
  <2> QED
    BY <2>1 DEF SumOf
<1> QED
  BY <1>2, <1>3, <1>4, Workers

\* One task changes.
LEMMA SumStep ==
  ASSUME NEW x, NEW y, AllTasks(x), AllTasks(y), NEW k \in Worker,
         \A l \in Worker : l # k => y[l] = x[l]
  PROVE  SumOf(y) = SumOf(x) - x[k].left + y[k].left
<1> DEFINE W == {<<1, "pull">>, <<1, "push">>, <<1, "other">>,
                 <<2, "pull">>, <<2, "push">>, <<2, "other">>,
                 <<3, "pull">>, <<3, "push">>, <<3, "other">>}
<1>1. \A l \in W : x[l].left \in Nat /\ y[l].left \in Nat
  BY LeftType, Workers
<1>2. \A l \in W : l # k => y[l].left = x[l].left
  BY Workers
<1>3. k \in W
  BY Workers
<1>4. CASE k = <<1, "pull">>
  BY <1>1, <1>2, <1>4 DEF SumOf
<1>5. CASE k = <<1, "push">>
  BY <1>1, <1>2, <1>5 DEF SumOf
<1>6. CASE k = <<1, "other">>
  BY <1>1, <1>2, <1>6 DEF SumOf
<1>7. CASE k = <<2, "pull">>
  BY <1>1, <1>2, <1>7 DEF SumOf
<1>8. CASE k = <<2, "push">>
  BY <1>1, <1>2, <1>8 DEF SumOf
<1>9. CASE k = <<2, "other">>
  BY <1>1, <1>2, <1>9 DEF SumOf
<1>10. CASE k = <<3, "pull">>
  BY <1>1, <1>2, <1>10 DEF SumOf
<1>11. CASE k = <<3, "push">>
  BY <1>1, <1>2, <1>11 DEF SumOf
<1>12. CASE k = <<3, "other">>
  BY <1>1, <1>2, <1>12 DEF SumOf
<1> QED
  BY <1>3, <1>4, <1>5, <1>6, <1>7, <1>8, <1>9, <1>10, <1>11, <1>12

OnlyLeft(x, w, a, b, c) ==
  \A k \in Worker : x[k].left =
    IF k = <<w, "pull">> THEN a ELSE IF k = <<w, "push">> THEN b
    ELSE IF k = <<w, "other">> THEN c ELSE 0

\* The tasks of one wave: what a result starts is its size.
LEMMA SumSpawned ==
  ASSUME NEW x, NEW w \in Wave, NEW a \in Nat, NEW b \in Nat, NEW c \in Nat,
         OnlyLeft(x, w, a, b, c)
  PROVE  SumOf(x) = a + b + c
<1> DEFINE W == {<<1, "pull">>, <<1, "push">>, <<1, "other">>,
                 <<2, "pull">>, <<2, "push">>, <<2, "other">>,
                 <<3, "pull">>, <<3, "push">>, <<3, "other">>}
<1>1. \A k \in W : x[k].left =
        IF k = <<w, "pull">> THEN a ELSE IF k = <<w, "push">> THEN b
        ELSE IF k = <<w, "other">> THEN c ELSE 0
  BY Workers DEF OnlyLeft
<1>2. CASE w = 1
  BY <1>1, <1>2 DEF SumOf
<1>3. CASE w = 2
  BY <1>1, <1>3 DEF SumOf
<1>4. CASE w = 3
  BY <1>1, <1>4 DEF SumOf
<1> QED
  BY <1>2, <1>3, <1>4, Numbers

\* While nothing is counted, nothing is left; a busy attempt has not asked for a wave.
LEMMA LeftFacts ==
  ASSUME Types, Counted
  PROVE  /\ Outstanding \in Nat /\ failed \in Nat /\ pending \in Nat
         /\ \A k \in Worker : work[k].left \in Nat /\ work[k].left <= Outstanding
         /\ pending = 0 => failed = 0 /\ Outstanding = 0 /\ \A k \in Worker : work[k].left = 0
         /\ Quiet => Outstanding = 0 /\ \A k \in Worker : work[k].left = 0
<1>1. AllTasks(work) /\ failed \in Nat /\ pending \in 0 .. (CounterMod - 1) /\ CounterMod \in Nat
  BY BoundAssumption DEF Types, TypeOK, AllTasks
<1>2. /\ Outstanding \in Nat
      /\ \A k \in Worker : work[k].left <= Outstanding /\ work[k].left \in Nat
      /\ (\A k \in Worker : work[k].left = 0) => Outstanding = 0
  BY <1>1, SumFacts, LeftType, OutstandingSum
<1>3. pending = Outstanding + failed
  BY DEF Counted
<1>4. Quiet => \A k \in Worker : work[k].left = 0
  BY <1>1, <1>2 DEF Quiet, Busy, AllTasks, IsTask
<1> QED
  BY <1>1, <1>2, <1>3, <1>4

-----------------------------------------------------------------------------
(* Deletions and phase commands in the channel.                            *)

LEMMA BehindTail ==
  ASSUME NEW s \in Seq(Command), s # <<>>, NEW g, NoneBehind(s, g)
  PROVE  NoneBehind(Tail(s), g)
<1>1. /\ Len(Tail(s)) = Len(s) - 1 /\ Len(s) \in Nat
      /\ \A i \in 1 .. Len(s) - 1 : Tail(s)[i] = s[i + 1] /\ i + 1 \in 1 .. Len(s)
  OBVIOUS
<1>2. ASSUME NEW i \in 1 .. Len(s) - 1, NEW j \in 1 .. Len(s) - 1, i < j,
             Tail(s)[i] \in Meta \ g
      PROVE  Tail(s)[j] # "NotifyDelete"
  <2>1. i + 1 \in 1 .. Len(s) /\ j + 1 \in 1 .. Len(s) /\ i + 1 < j + 1 /\ s[i + 1] \in Meta \ g
    BY <1>1, <1>2
  <2>2. s[j + 1] # "NotifyDelete"
    BY <2>1 DEF NoneBehind
  <2> QED
    BY <1>1, <2>2
<1> QED
  BY <1>1, <1>2 DEF NoneBehind

LEMMA BehindPush ==
  ASSUME NEW s \in Seq(Command), NEW C, NEW r, IsPush(r, s, C), NEW g, NEW h, g \subseteq h,
         NoneBehind(s, g), "NotifyDelete" \in C => Box(s) \cap Meta \subseteq h
  PROVE  NoneBehind(r, h)
<1>1. CASE r = s
  BY <1>1 DEF NoneBehind
<1>2. ASSUME NEW c \in C, r = Append(s, c)  PROVE NoneBehind(r, h)
  <2>1. /\ Len(r) = Len(s) + 1 /\ Len(s) \in Nat /\ r[Len(s) + 1] = c
        /\ \A i \in 1 .. Len(s) : r[i] = s[i]
    BY <1>2
  <2>2. ASSUME NEW i \in 1 .. Len(r), NEW j \in 1 .. Len(r), i < j, r[i] \in Meta \ h
        PROVE  r[j] # "NotifyDelete"
    <3>1. i \in 1 .. Len(s) /\ s[i] \in Meta \ h /\ s[i] \in Meta \ g
      BY <2>1, <2>2
    <3>2. CASE j \in 1 .. Len(s)
      BY <2>1, <2>2, <3>1, <3>2 DEF NoneBehind
    <3>3. CASE j = Len(s) + 1
      <4>1. s[i] \in Box(s)
        BY <3>1 DEF Box
      <4>2. c # "NotifyDelete"
        BY <3>1, <4>1, <1>2
      <4> QED
        BY <2>1, <3>3, <4>2
    <3> QED
      BY <2>1, <3>2, <3>3
  <2> QED
    BY <2>2 DEF NoneBehind
<1> QED
  BY <1>1, <1>2 DEF IsPush

-----------------------------------------------------------------------------
(* The steps of a wave.                                                    *)

\* What remains of the channel when its first command may be taken away: a phase
\* command only through the gate, a failure never.
Remains(s) ==
  \/ s = rx
  \/ /\ rx # <<>> /\ s = Tail(rx)
     /\ Head(rx) \in Meta => Head(rx) \in gate'
     /\ Head(rx) \notin {"FailFatal", "FailRestart"}

LEMMA RemainsFacts ==
  ASSUME rx \in Seq(Command), NEW s, Remains(s)
  PROVE  /\ s \in Seq(Command) /\ Box(s) \subseteq Box(rx)
         /\ Box(rx) \cap Meta \subseteq Box(s) \cup gate'
         /\ \A c \in {"FailFatal", "FailRestart"} : c \in Box(rx) => c \in Box(s)
         /\ \A g : NoneBehind(rx, g) => NoneBehind(s, g)
<1>1. CASE s = rx
  BY <1>1
<1>2. CASE /\ rx # <<>> /\ s = Tail(rx)
           /\ Head(rx) \in Meta => Head(rx) \in gate'
           /\ Head(rx) \notin {"FailFatal", "FailRestart"}
  <2>1. s \in Seq(Command) /\ Box(rx) = Box(s) \cup {Head(rx)}
    BY <1>2, BoxTail
  <2> QED
    BY <1>2, <2>1, BehindTail
<1> QED
  BY <1>1, <1>2 DEF Remains

\* A step that leaves the tasks and the counter alone.
LEMMA Steady ==
  ASSUME Types, Waves, UNCHANGED <<work, pending, failed, armed>>,
         kickoff' = kickoff \/ Failing', gate \subseteq gate', phase' \in {phase, 4},
         NEW s, Remains(s), NEW C, IsPush(rx', s, C), "NotifyDelete" \notin C,
         \A c \in C \cap Meta :
           c \in gate' \/ (c = "StartTopicValidation" /\ pending = 0 /\ armed = 0)
  PROVE  Waves'
<1>0. rx \in Seq(Command) /\ phase \in Request
  BY DEF Types, TypeOK
<1>1. /\ s \in Seq(Command) /\ Box(s) \subseteq Box(rx)
      /\ Box(rx) \cap Meta \subseteq Box(s) \cup gate'
      /\ \A c \in {"FailFatal", "FailRestart"} : c \in Box(rx) => c \in Box(s)
      /\ NoneBehind(s, gate)
  BY <1>0, RemainsFacts DEF Waves, Behind
<1>2. Box(s) \subseteq Box(rx') /\ Box(rx') \subseteq Box(s) \cup C
  BY <1>1, Pushed
<1>3. /\ Outstanding' = Outstanding /\ (Quiet <=> Quiet')
      /\ \A k \in Worker : (Busy(k) <=> Busy(k)') /\ work'[k] = work[k]
  BY DEF Outstanding, OfWave, Quiet, Busy
<1>4. Counted' /\ Seen' /\ Waiting'
  BY <1>3 DEF Waves, Counted, Seen, Waiting
<1>5. Alone'
  <2>1. phase' \in {Owner, Avatar} => phase \in {Owner, Avatar}
    BY Numbers
  <2> QED
    BY <1>3, <2>1 DEF Waves, Alone
<1>6. Advance'
  <2>1. SUFFICES ASSUME NEW c \in Meta, c \in Box(rx'), c \notin gate'
                 PROVE  /\ pending = 0 /\ armed = 0
                        /\ c # "StartTopicValidation" => Quiet
    BY <1>3 DEF Advance, In
  <2>2. CASE c \in Box(s)
    BY <1>1, <2>1, <2>2 DEF Waves, Advance, In
  <2>3. CASE c \in C
    BY <2>1, <2>3
  <2> QED
    BY <1>2, <2>1, <2>2, <2>3
<1>7. Behind'
  BY <1>1, BehindPush DEF Behind
<1>8. Carried'
  <2>1. SUFFICES ASSUME ~kickoff \/ Failing', armed = 0, phase' \in Wave, pending = 0
                 PROVE  \/ Following(phase') \subseteq gate' \cup Box(rx')
                        \/ Failing'
                        \/ \E k \in Worker : work'[k].pc \in {"subbed", "zero"}
    BY DEF Carried
  <2>2. phase' = phase
    BY <2>1, Numbers
  <2>3. CASE Following(phase) \subseteq gate \cup Box(rx)
    <3>1. Following(phase) \subseteq Meta
      BY <1>0, FollowingFacts
    <3> QED
      BY <1>1, <1>2, <2>2, <2>3, <3>1
  <2>4. CASE Failing
    BY <1>1, <1>2, <2>4 DEF Failing, In
  <2>5. CASE \E k \in Worker : work[k].pc \in {"subbed", "zero"}
    BY <2>5
  <2>6. CASE Failing'
    BY <2>6
  <2> QED
    BY <2>1, <2>2, <2>3, <2>4, <2>5, <2>6 DEF Waves, Carried
<1> QED
  BY <1>4, <1>5, <1>6, <1>7, <1>8 DEF Waves

\* A wave begins: nothing runs, and no other phase is asked for.
LEMMA Opening ==
  ASSUME Types, Waves, UNCHANGED <<work, failed>>, Quiet, pending = 0,
         gate \subseteq gate', NEW w \in Wave, phase' = w, armed' = w, pending' = 0,
         Remains(rx'), Box(rx') \cap Meta \subseteq gate'
  PROVE  Waves'
<1>0. rx \in Seq(Command)
  BY DEF Types, TypeOK
<1>1. Outstanding' = Outstanding /\ Quiet' /\ \A k \in Worker : ~Busy(k)' /\ work'[k] = work[k]
  BY DEF Outstanding, OfWave, Quiet, Busy
<1>2. failed = 0 /\ Outstanding = 0
  BY LeftFacts DEF Waves
<1>3. Counted' /\ Seen' /\ Waiting' /\ Alone'
  BY <1>1, <1>2 DEF Counted, Seen, Waiting, Alone
<1>4. Advance'
  BY DEF Advance, In
<1>5. Behind'
  <2>1. NoneBehind(rx', gate)
    BY <1>0, RemainsFacts DEF Waves, Behind
  <2> QED
    BY <2>1 DEF Behind, NoneBehind
<1>6. Carried'
  BY Numbers DEF Carried
<1> QED
  BY <1>3, <1>4, <1>5, <1>6 DEF Waves

\* A task takes a step.
LEMMA TaskStep ==
  ASSUME Types, Waves, UNCHANGED <<phase, gate, armed, kickoff>>,
         NEW k \in Worker, Busy(k), \A l \in Worker : l # k => work'[l] = work[l],
         Counted', Seen', Carried', pending = 0 => pending' = 0,
         NEW C, IsPush(rx', rx, C), "NotifyDelete" \in C => pending # 0,
         \A c \in C \cap Meta : c \in Following(phase) /\ pending = 0 /\ ~Busy(k)'
  PROVE  Waves'
<1>0. rx \in Seq(Command) /\ phase \in Request
  BY DEF Types, TypeOK
<1>1. armed = 0 /\ ~Quiet
  BY DEF Waves, Waiting, Quiet
<1>2. \A l \in Worker : Busy(l)' => Busy(l)
  BY DEF Busy
<1>3. Waiting' /\ Alone'
  BY <1>1, <1>2 DEF Waves, Waiting, Alone
<1>4. Box(rx') \subseteq Box(rx) \cup C
  BY <1>0, Pushed
<1>5. ASSUME NEW c \in Meta, c \in Box(rx), c \notin gate
      PROVE  pending = 0 /\ c = "StartTopicValidation"
  BY <1>1, <1>5 DEF Waves, Advance, In
<1>6. Advance'
  <2>1. SUFFICES ASSUME NEW c \in Meta, c \in Box(rx'), c \notin gate
                 PROVE  /\ pending' = 0 /\ armed = 0
                        /\ c # "StartTopicValidation" => Quiet'
    BY DEF Advance, In
  <2>2. CASE c \in Box(rx)
    BY <1>1, <1>5, <2>1, <2>2
  <2>3. CASE c \in C
    <3>1. pending' = 0 /\ c \in Following(phase) /\ ~Busy(k)'
      BY <2>1, <2>3
    <3>2. ASSUME c # "StartTopicValidation"  PROVE Quiet'
      <4>1. phase \in {Owner, Avatar}
        BY <1>0, <3>1, <3>2, FollowingFacts, Numbers
      <4>2. \A l \in Worker : Busy(l) => l = k
        BY <4>1 DEF Waves, Alone
      <4> QED
        BY <1>2, <3>1, <4>2 DEF Quiet
    <3> QED
      BY <1>1, <3>1, <3>2
  <2> QED
    BY <1>4, <2>1, <2>2, <2>3
<1>7. Behind'
  <2>1. "NotifyDelete" \in C => Box(rx) \cap Meta \subseteq gate
    BY <1>5
  <2> QED
    BY <1>0, <2>1, BehindPush DEF Waves, Behind
<1> QED
  BY <1>3, <1>6, <1>7 DEF Waves

\* A result starts its tasks, in a wave where nothing runs.
LEMMA Accepted ==
  ASSUME Types, Types', Waves, OneOwnerTask, rx = <<>>, UNCHANGED <<phase, gate, kickoff, failed>>,
         NEW w \in Wave, NEW p \in Plans[w], HandleDiff(w, p), armed = w, phase = w
  PROVE  Waves'
<1>0. /\ TypeOK /\ AllTasks(work) /\ AllTasks(work') /\ phase \in Request /\ rx \in Seq(Command)
      /\ CounterMod \in Nat \ {0}
  BY BoundAssumption DEF Types, TypeOK, AllTasks
<1>1. /\ p.pull \in Nat /\ p.push \in Nat /\ p.other \in Nat /\ p.dels \in Nat
      /\ p.dels <= p.other /\ Size(p) \in Nat /\ Size(p) < CounterMod
      /\ w # Topic => p.push = 0
      /\ w = Avatar => p.pull = 0
  BY PlanFacts
<1>2. /\ armed' = 0 /\ pending' = (pending + Size(p)) % CounterMod
      /\ rx' = IF pending' = 0 THEN NextCommand(phase) ELSE rx
      /\ work' = Spawned(w, p)
  BY DEF HandleDiff, Spawned
<1>3. pending = 0 /\ Quiet
  BY Numbers DEF Waves, Waiting
<1>4. /\ failed = 0
      /\ \A k \in Worker : work[k].left = 0 /\ work[k].pc \notin {"run", "subbed", "zero"}
  BY <1>3, LeftFacts DEF Waves, Quiet, Busy
<1>5. pending' = Size(p)
  <2>1. Size(p) \in 0 .. (CounterMod - 1) /\ 0 + Size(p) = Size(p)
    BY <1>0, <1>1
  <2> QED
    BY <1>0, <1>2, <1>3, <2>1, Raise
<1>6. /\ work'[<<w, "pull">>] = Task(p.pull, 0)
      /\ work'[<<w, "push">>] = Task(p.push, 0)
      /\ work'[<<w, "other">>] = Task(p.other, p.dels)
      /\ \A k \in Worker : k \notin {<<w, "pull">>, <<w, "push">>, <<w, "other">>} =>
           work'[k] = work[k]
  BY <1>0, <1>2, SpawnedFacts
<1>7. \A k \in Worker : work'[k].left =
        IF k = <<w, "pull">> THEN p.pull ELSE IF k = <<w, "push">> THEN p.push
        ELSE IF k = <<w, "other">> THEN p.other ELSE 0
  <2>1. /\ Task(p.pull, 0).left = p.pull /\ Task(p.push, 0).left = p.push
        /\ Task(p.other, p.dels).left = p.other
    BY <1>1, TaskFacts
  <2>2. SUFFICES ASSUME NEW k \in Worker
                 PROVE  work'[k].left =
                   IF k = <<w, "pull">> THEN p.pull ELSE IF k = <<w, "push">> THEN p.push
                   ELSE IF k = <<w, "other">> THEN p.other ELSE 0
    OBVIOUS
  <2>3. CASE k = <<w, "pull">>
    BY <1>6, <2>1, <2>3
  <2>4. CASE k = <<w, "push">>
    <3>1. k # <<w, "pull">>
      BY <2>4
    <3> QED
      BY <1>6, <2>1, <2>4, <3>1
  <2>5. CASE k = <<w, "other">>
    <3>1. k # <<w, "pull">> /\ k # <<w, "push">>
      BY <2>5
    <3> QED
      BY <1>6, <2>1, <2>5, <3>1
  <2>6. CASE k \notin {<<w, "pull">>, <<w, "push">>, <<w, "other">>}
    <3>1. k # <<w, "pull">> /\ k # <<w, "push">> /\ k # <<w, "other">>
      BY <2>6
    <3>2. work'[k] = work[k] /\ work[k].left = 0
      BY <1>4, <1>6, <2>6, Zenon
    <3> QED
      BY <3>1, <3>2
  <2> QED
    BY <2>3, <2>4, <2>5, <2>6
<1>8. Counted'
  <2>1. SumOf(work') = p.pull + p.push + p.other
    <3>1. PICK x, a, b, c : x = work' /\ a = p.pull /\ b = p.push /\ c = p.other
      OBVIOUS
    <3>2. OnlyLeft(x, w, a, b, c)
      BY <1>7, <3>1 DEF OnlyLeft
    <3> QED
      BY <1>1, <3>1, <3>2, SumSpawned
  <2> QED
    BY <1>1, <1>4, <1>5, <2>1, OutstandingSum DEF Counted, Size
<1>9. \A k \in Worker : work'[k].pc \notin {"subbed", "zero"} /\ (Busy(k)' => work'[k].left > 0)
  <2>1. SUFFICES ASSUME NEW k \in Worker
                 PROVE  /\ work'[k].pc \notin {"subbed", "zero"}
                        /\ work'[k].pc \in {"run", "subbed", "zero"} => work'[k].left > 0
    BY DEF Busy
  <2>2. ASSUME NEW n \in Nat, NEW d, work'[k] = Task(n, d)
        PROVE  /\ work'[k].pc \notin {"subbed", "zero"}
               /\ work'[k].pc \in {"run", "subbed", "zero"} => work'[k].left > 0
    BY <2>2 DEF Task, Idle
  <2>3. CASE k \in {<<w, "pull">>, <<w, "push">>, <<w, "other">>}
    BY <1>1, <1>6, <2>2, <2>3, Zenon
  <2>4. CASE k \notin {<<w, "pull">>, <<w, "push">>, <<w, "other">>}
    BY <1>4, <1>6, <2>4, Zenon
  <2> QED
    BY <2>3, <2>4
<1>10. Seen' /\ Waiting'
  BY <1>2, <1>9 DEF Seen, Waiting
<1>11. Alone'
  <2>1. SUFFICES ASSUME phase \in {Owner, Avatar}, NEW k \in Worker, NEW l \in Worker,
                        Busy(k)', Busy(l)'
                 PROVE  k = l
    BY DEF Alone
  <2>2. work'[k].left > 0 /\ work'[l].left > 0
    BY <1>9, <2>1
  <2>3. w # Topic /\ p.push = 0
    BY <1>1, <2>1, Numbers
  <2>4. p.pull = 0 \/ p.other = 0
    BY <1>1, <2>1 DEF OneOwnerTask
  <2> QED
    BY <1>1, <1>7, <2>2, <2>3, <2>4
<1>12. /\ pending' = 0 => /\ \A k \in Worker : ~Busy(k)'
                          /\ Box(rx') = Following(phase)
       /\ pending' # 0 => Box(rx') = {}
  <2>1. rx' = rx \/ rx' = NextCommand(phase)
    BY <1>2
  <2>2. Box(NextCommand(phase)) = Following(phase)
    BY DEF Box, Following
  <2>3. pending' = 0 => \A k \in Worker : work'[k].left = 0
    <3>1. pending' = 0 => p.pull = 0 /\ p.push = 0 /\ p.other = 0
      BY <1>1, <1>5 DEF Size
    <3> QED
      BY <1>7, <3>1
  <2> QED
    BY <1>2, <1>9, <2>2, <2>3, BoxEmpty
<1>13. Advance'
  BY <1>2, <1>12 DEF Advance, In, Quiet
<1>14. Behind'
  <2>1. Len(rx') \in {0, 1}
    <3>1. Len(rx) = 0
      OBVIOUS
    <3>2. Len(NextCommand(phase)) \in {0, 1}
      BY <1>0, NextFacts, Numbers
    <3> QED
      BY <1>2, <3>1, <3>2
  <2>2. \A i, j \in 1 .. Len(rx') : ~(i < j)
    BY <2>1
  <2> QED
    BY <2>2 DEF Behind, NoneBehind
<1>15. Carried'
  BY <1>12 DEF Carried
<1> QED
  BY <1>8, <1>10, <1>11, <1>13, <1>14, <1>15 DEF Waves

-----------------------------------------------------------------------------
(* Every step, with one task per owner result.                             *)

\* The owner wave begins.
LEMMA KickoffWaves ==
  ASSUME Types, Fresh, Waves, OwnerKickoff
  PROVE  Waves'
<1>0. /\ armed = 0 /\ pending = 0 /\ rx = <<>> /\ phase = Owner /\ gate' = gate
      /\ work' = work /\ failed' = failed /\ Owner \in Wave
      /\ \A k \in Worker : work[k] = Idle
  BY Numbers DEF OwnerKickoff, Fresh
<1>1. Quiet
  BY <1>0, IdleFacts DEF Quiet, Busy
<1>2. CASE OpenWave(Owner, rx, <<>>, "OwnerRequest")
  <2>1. phase' = Owner /\ armed' = Owner /\ pending' = 0 /\ rx' = rx
    BY <1>0, <1>2 DEF OpenWave
  <2>2. Box(rx') = {}
    BY <1>0, <2>1, BoxEmpty
  <2> QED
    BY <1>0, <1>1, <2>1, <2>2, Opening DEF Remains
<1>3. CASE BuildFails(rx, <<>>)
  <2>1. phase' = phase /\ pending' = pending /\ armed' = armed /\ rx' = Append(rx, "FailFatal")
    BY <1>3 DEF BuildFails
  <2>2. Failing'
    <3>1. rx \in Seq(Command)
      BY DEF Types, TypeOK
    <3>2. "FailFatal" \in Box(rx')
      BY <2>1, <3>1, BoxAppend
    <3> QED
      BY <3>2 DEF Failing, In
  <2>3. PICK s, C : s = rx /\ C = Fatal
    OBVIOUS
  <2>4. Remains(s) /\ IsPush(rx', s, C) /\ C \cap Meta = {} /\ "NotifyDelete" \notin C
    BY <2>1, <2>3 DEF Remains, IsPush, Fatal, Meta
  <2> QED
    BY <1>0, <2>1, <2>2, <2>4, Steady
<1> QED
  BY <1>2, <1>3 DEF OwnerKickoff

\* The first command is taken: what remains, and that an advance is due.
LEMMA TakenRemains ==
  ASSUME Types, Gates, Waves, NEW c \in Meta, First(c)
  PROVE  /\ Remains(Tail(rx)) /\ gate \subseteq gate'
         /\ pending = 0 /\ armed = 0
         /\ c # "StartTopicValidation" => Quiet /\ Box(Tail(rx)) \cap Meta \subseteq gate'
<1>1. /\ rx # <<>> /\ Head(rx) = c /\ c \notin gate /\ gate' = gate \cup {c} /\ In(c)
      /\ Box(rx) = Box(Tail(rx)) \cup {c}
  BY TakenFacts
<1>2. pending = 0 /\ armed = 0 /\ (c # "StartTopicValidation" => Quiet)
  BY <1>1 DEF Waves, Advance
<1>3. c \notin {"FailFatal", "FailRestart"}
  BY DEF Meta
<1>4. Remains(Tail(rx))
  BY <1>1, <1>3 DEF Remains
<1>5. ASSUME c # "StartTopicValidation", NEW d \in Box(Tail(rx)), d \in Meta
      PROVE  d \in gate'
  <2>1. In(d)
    BY <1>1, <1>5 DEF In
  <2>2. CASE d = c
    BY <1>1, <2>2
  <2>3. CASE d # c
    BY <1>1, <1>5, <2>1, <2>3 DEF Gates, Meta
  <2> QED
    BY <2>2, <2>3
<1> QED
  BY <1>1, <1>2, <1>4, <1>5

\* A wave after the first begins, or cannot be prepared.
LEMMA WaveWaves ==
  ASSUME Types, Gates, Waves, NEW c \in Meta, First(c), c # "StartTopicValidation",
         UNCHANGED <<kickoff, work, failed>>, NEW w \in Wave, NEW frames, NEW request,
         OpenWave(w, Tail(rx), frames, request) \/ BuildFails(Tail(rx), frames)
  PROVE  Waves'
<1>1. PICK s : s = Tail(rx)
  OBVIOUS
<1>2. /\ Remains(s) /\ gate \subseteq gate' /\ pending = 0 /\ armed = 0
      /\ Quiet /\ Box(s) \cap Meta \subseteq gate'
  BY <1>1, TakenRemains
<1>3. CASE OpenWave(w, Tail(rx), frames, request)
  <2>1. phase' = w /\ armed' = w /\ pending' = 0 /\ rx' = s
    BY <1>1, <1>2, <1>3 DEF OpenWave
  <2> QED
    BY <1>2, <2>1, Opening
<1>4. CASE BuildFails(Tail(rx), frames)
  <2>1. phase' = phase /\ pending' = pending /\ armed' = armed /\ rx' = Append(s, "FailFatal")
    BY <1>1, <1>4 DEF BuildFails
  <2>2. PICK C : C = Fatal
    OBVIOUS
  <2>3. IsPush(rx', s, C) /\ C \cap Meta = {} /\ "NotifyDelete" \notin C
    BY <2>1, <2>2 DEF IsPush, Fatal, Meta
  <2> QED
    BY <1>2, <2>1, <2>3, Steady
<1> QED
  BY <1>3, <1>4

\* The commands that begin a phase.
LEMMA PhaseWaves ==
  ASSUME Types, Gates, Waves,
         StartAvatarMetadata \/ StartTopicMetadata \/ StartTopicValidation
  PROVE  Waves'
<1>1. CASE StartAvatarMetadata
  <2>1. /\ First("StartAvatarMetadata") /\ "StartAvatarMetadata" \in Meta
        /\ UNCHANGED <<kickoff, work, failed>> /\ Avatar \in Wave
    BY <1>1, Numbers DEF StartAvatarMetadata, Meta
  <2>2. PICK f : f = <<>>
    OBVIOUS
  <2>3. OpenWave(Avatar, Tail(rx), f, "AvatarRequest") \/ BuildFails(Tail(rx), f)
    BY <1>1, <2>2 DEF StartAvatarMetadata
  <2> QED
    BY <2>1, <2>3, WaveWaves
<1>2. CASE StartTopicMetadata
  <2>1. /\ First("StartTopicMetadata") /\ "StartTopicMetadata" \in Meta
        /\ UNCHANGED <<kickoff, work, failed>> /\ Topic \in Wave
    BY <1>2, Numbers DEF StartTopicMetadata, Meta
  <2>2. PICK f : f = <<"OwnerCompleted">>
    OBVIOUS
  <2>3. CASE OpenWave(Topic, Tail(rx), f, "TopicRequest") \/ BuildFails(Tail(rx), f)
    BY <2>1, <2>3, WaveWaves
  <2>4. CASE /\ rx' = Append(Tail(rx), "StartTopicValidation")
             /\ UNCHANGED <<phase, pending, armed>>
    <3>1. PICK s, C : s = Tail(rx) /\ C = {"StartTopicValidation"}
      OBVIOUS
    <3>2. Remains(s) /\ gate \subseteq gate' /\ pending = 0 /\ armed = 0
      BY <2>1, <3>1, TakenRemains
    <3>3. IsPush(rx', s, C) /\ "NotifyDelete" \notin C
      BY <2>4, <3>1 DEF IsPush
    <3> QED
      BY <2>1, <2>4, <3>1, <3>2, <3>3, Steady
  <2> QED
    BY <1>2, <2>2, <2>3, <2>4 DEF StartTopicMetadata
<1>3. CASE StartTopicValidation
  <2>1. /\ First("StartTopicValidation") /\ "StartTopicValidation" \in Meta
        /\ UNCHANGED <<kickoff, work, failed, pending, armed>> /\ phase' \in {phase, 4}
    BY <1>3 DEF StartTopicValidation, BuildFails, Meta
  <2>2. PICK s, C : s = Tail(rx) /\ C = {"FailFatal", "StartMessages"}
    OBVIOUS
  <2>3. Remains(s) /\ gate \subseteq gate'
    BY <2>1, <2>2, TakenRemains
  <2>4. IsPush(rx', s, C) /\ C \cap Meta = {} /\ "NotifyDelete" \notin C
    BY <1>3, <2>2, LoopMoves DEF Meta
  <2> QED
    BY <2>1, <2>3, <2>4, Steady
<1> QED
  BY <1>1, <1>2, <1>3

\* A command that was obeyed before, a notification, and the watchdogs.
LEMMA StillWaves ==
  ASSUME Types, Waves,
         \/ RepeatedPhase \/ NotifyDelete
         \/ \E r \in Request : DeadlineExpires(r) \/ DeadlineChecks(r)
  PROVE  Waves'
<1>0. TypeOK
  BY DEF Types
<1>1. ASSUME NEW s, Remains(s), IsPush(rx', s, Fatal), gate' = gate, phase' = phase,
             UNCHANGED <<work, pending, failed, armed, kickoff>>
      PROVE  Waves'
  <2>1. PICK C : C = Fatal
    OBVIOUS
  <2>2. C \cap Meta = {} /\ "NotifyDelete" \notin C
    BY <2>1 DEF Fatal, Meta
  <2> QED
    BY <1>1, <2>1, <2>2, Steady
<1>2. CASE RepeatedPhase
  <2>1. PICK c \in PhaseCommand : Receive(c) /\ c \in gate
    BY <1>2 DEF RepeatedPhase
  <2>2. rx # <<>> /\ Head(rx) = c /\ gate' = gate /\ rx' = Tail(rx) /\ phase' = phase
    BY <1>0, <1>2, <2>1, ReceiveFacts DEF RepeatedPhase
  <2>3. Remains(rx') /\ IsPush(rx', rx', Fatal)
    BY <2>1, <2>2 DEF Remains, IsPush, PhaseCommand
  <2> QED
    BY <1>1, <1>2, <2>2, <2>3 DEF RepeatedPhase
<1>3. CASE NotifyDelete
  <2>1. /\ rx # <<>> /\ Head(rx) = "NotifyDelete" /\ gate' = gate /\ rx' = Tail(rx)
        /\ phase' = phase
    BY <1>0, <1>3, ReceiveFacts DEF NotifyDelete
  <2>2. Remains(rx') /\ IsPush(rx', rx', Fatal)
    BY <2>1 DEF Remains, IsPush, Meta
  <2> QED
    BY <1>1, <1>3, <2>1, <2>2 DEF NotifyDelete
<1>4. ASSUME NEW r \in Request, DeadlineExpires(r) \/ DeadlineChecks(r)  PROVE Waves'
  <2>1. IsPush(rx', rx, Fatal)
    BY <1>0, <1>4, OtherMoves DEF IsPush
  <2>2. /\ UNCHANGED <<work, pending, failed, armed, kickoff>>
        /\ gate' = gate /\ phase' = phase
    BY <1>4 DEF DeadlineExpires, DeadlineChecks
  <2>3. Remains(rx)
    BY DEF Remains
  <2> QED
    BY <1>1, <2>1, <2>2, <2>3
<1> QED
  BY <1>2, <1>3, <1>4

\* The results.
LEMMA ResultWaves ==
  ASSUME Types, Types', Waves, OneOwnerTask,
         (\E w \in Wave : ManifestResult(w)) \/ TopicDiffResult \/ StrayResult
  PROVE  Waves'
<1>0. TypeOK /\ rx = <<>> /\ Remains(rx)
  BY DEF Types, ManifestResult, TopicDiffResult, StrayResult, ReadFrame, Remains
<1>1. ASSUME NEW w \in Wave, NEW p \in Plans[w], HandleDiff(w, p),
             UNCHANGED <<phase, gate, kickoff, failed>>
      PROVE  Waves'
  <2>1. CASE armed = w /\ phase = w
    BY <1>0, <1>1, <2>1, Accepted
  <2>2. CASE ~(armed = w /\ phase = w)
    <3>1. rx' = Append(rx, "FailFatal") /\ UNCHANGED <<armed, pending, work>>
      BY <1>0, <1>1, <2>2 DEF HandleDiff
    <3>2. PICK s, C : s = rx /\ C = Fatal
      OBVIOUS
    <3>3. Remains(s) /\ IsPush(rx', s, C) /\ C \cap Meta = {} /\ "NotifyDelete" \notin C
      BY <1>0, <3>1, <3>2 DEF IsPush, Fatal, Meta
    <3> QED
      BY <1>1, <3>1, <3>3, Steady
  <2> QED
    BY <2>1, <2>2
<1>2. ASSUME HandleTopicDiff, UNCHANGED <<armed, pending, work, gate, kickoff, failed>>
      PROVE  Waves'
  <2>1. PICK s, C : s = rx /\ C = {"FailFatal", "StartMessages"}
    OBVIOUS
  <2>2. Remains(s) /\ IsPush(rx', s, C) /\ C \cap Meta = {} /\ "NotifyDelete" \notin C
    BY <1>0, <1>2, <2>1, TopicMoves DEF Meta
  <2>3. phase' \in {phase, 4}
    BY <1>2 DEF HandleTopicDiff
  <2> QED
    BY <1>2, <2>2, <2>3, Steady
<1>3. CASE \E w \in Wave : ManifestResult(w)
  BY <1>1, <1>3 DEF ManifestResult
<1>4. CASE TopicDiffResult
  BY <1>2, <1>4 DEF TopicDiffResult
<1>5. CASE StrayResult
  BY <1>1, <1>2, <1>5 DEF StrayResult
<1> QED
  BY <1>3, <1>4, <1>5

\* The tasks.  What an operation that ends, or fails, leaves to be counted.
LEMMA CountDown ==
  ASSUME Types, Types', NEW k \in Worker,
         \A l \in Worker : l # k => work'[l] = work[l]
  PROVE  Outstanding' = Outstanding - work[k].left + work'[k].left
<1>1. AllTasks(work) /\ AllTasks(work')
  BY DEF Types, AllTasks
<1>2. PICK x, y : x = work /\ y = work'
  OBVIOUS
<1>3. SumOf(y) = SumOf(x) - x[k].left + y[k].left
  BY <1>1, <1>2, SumStep
<1> QED
  BY <1>2, <1>3, OutstandingSum

\* A running task has something left, so the counter is not zero, and no task saw zero.
LEMMA Running ==
  ASSUME Types, Waves, NEW k \in Worker, work[k].pc = "run"
  PROVE  /\ IsTask(work[k]) /\ work[k].left \in Nat /\ work[k].left > 0 /\ Busy(k)
         /\ pending # 0 /\ Outstanding \in Nat /\ failed \in Nat /\ pending = Outstanding + failed
         /\ \A l \in Worker : work[l].pc # "zero"
<1>1. IsTask(work[k]) /\ work[k].left \in Nat /\ work[k].left > 0 /\ Busy(k)
  BY DEF Types, IsTask, Busy
<1>2. pending # 0 /\ Outstanding \in Nat /\ failed \in Nat
  BY <1>1, LeftFacts DEF Waves
<1> QED
  BY <1>1, <1>2 DEF Waves, Counted, Seen

LEMMA DoneWaves ==
  ASSUME Types, Types', Waves, NEW k \in Worker, OperationDone(k)
  PROVE  Waves'
<1>0. TypeOK /\ pending \in 0 .. (CounterMod - 1) /\ CounterMod \in Nat \ {0}
  BY BoundAssumption DEF Types, TypeOK
<1>1. work[k].pc = "run"
  BY DEF OperationDone, Working
<1>2. PICK t : t = work[k]
  OBVIOUS
<1>3. /\ IsTask(t) /\ t.left \in Nat /\ t.left > 0 /\ Busy(k) /\ pending # 0
      /\ Outstanding \in Nat /\ failed \in Nat /\ pending = Outstanding + failed
      /\ \A l \in Worker : work[l].pc # "zero"
  BY <1>1, <1>2, Running
<1>4. PICK del \in BOOLEAN :
        /\ del => t.dels > 0
        /\ t.dels = t.left => del
        /\ work' = [work EXCEPT ![k] = Ended(t, del)]
  BY <1>2 DEF OperationDone, Ended
<1>5. PICK u : u = Ended(t, del)
  OBVIOUS
<1>6. IsTask(u) /\ u.left = t.left - 1 /\ u.pc = "subbed"
  BY <1>1, <1>2, <1>3, <1>4, <1>5, EndedFacts
<1>7. work'[k] = u /\ \A l \in Worker : l # k => work'[l] = work[l]
  BY <1>0, <1>4, <1>5, <1>6, OneTask DEF Types
<1>8. pending' = pending - 1
  BY <1>0, <1>3, Lower DEF OperationDone
<1>9. Outstanding' = Outstanding - 1
  <2>1. Outstanding' = Outstanding - t.left + u.left
    BY <1>2, <1>7, CountDown
  <2> QED
    BY <1>3, <1>6, <2>1
<1>10. Counted'
  BY <1>3, <1>8, <1>9 DEF Counted, OperationDone
<1>11. Seen' /\ Carried'
  BY <1>3, <1>6, <1>7 DEF Seen, Carried
<1>12. UNCHANGED <<phase, gate, armed, kickoff>>
  BY DEF OperationDone
<1>13. PICK C : C = {"NotifyDelete"}
  OBVIOUS
<1>14. IsPush(rx', rx, C) /\ C \cap Meta = {}
  BY <1>0, <1>13, OtherMoves DEF Meta
<1> QED
  BY <1>3, <1>7, <1>10, <1>11, <1>12, <1>14, TaskStep

LEMMA ReadWaves ==
  ASSUME Types, Types', Waves, NEW k \in Worker, ReadPending(k)
  PROVE  Waves'
<1>0. TypeOK
  BY DEF Types
<1>1. PICK t : t = work[k]
  OBVIOUS
<1>2. /\ t.pc = "subbed" /\ Busy(k) /\ IsTask(t) /\ rx' = rx
      /\ UNCHANGED <<phase, gate, armed, kickoff, pending, failed>>
  BY <1>1 DEF ReadPending, Working, Busy, Types
<1>3. PICK u : u = IF (k[2] = "push" => t.left = 0) /\ pending = 0
                   THEN [t EXCEPT !.pc = "zero"] ELSE Resume(t)
  OBVIOUS
<1>4. work' = [work EXCEPT ![k] = u]
  BY <1>1, <1>3 DEF ReadPending
<1>5. u = [t EXCEPT !.pc = "zero"] => pending = 0 /\ u.pc = "zero" /\ u.left = t.left
  <2>1. [t EXCEPT !.pc = "zero"].pc = "zero" /\ [t EXCEPT !.pc = "zero"].left = t.left
    BY <1>2 DEF IsTask
  <2>2. Resume(t).pc # "zero"
    BY <1>2, ResumeFacts
  <2> QED
    BY <1>3, <2>1, <2>2
<1>6. u.left = t.left /\ (u.pc = "zero" => pending = 0) /\ IsTask(u)
  <2>1. CASE u = Resume(t)
    BY <1>2, <2>1, ResumeFacts
  <2>2. CASE u = [t EXCEPT !.pc = "zero"]
    <3>1. IsTask(u)
      BY <1>2, <2>2 DEF IsTask
    <3> QED
      BY <1>5, <2>2, <3>1
  <2> QED
    BY <1>3, <2>1, <2>2
<1>7. work'[k] = u /\ \A l \in Worker : l # k => work'[l] = work[l]
  BY <1>0, <1>4, <1>6, OneTask DEF Types
<1>8. Outstanding' = Outstanding
  <2>1. Outstanding' = Outstanding - t.left + u.left
    BY <1>1, <1>7, CountDown
  <2>2. Outstanding \in Nat /\ t.left \in Nat
    BY <1>2, LeftFacts DEF Waves, IsTask
  <2> QED
    BY <1>6, <2>1, <2>2
<1>9. Counted'
  BY <1>2, <1>8 DEF Waves, Counted
<1>10. Seen'
  BY <1>2, <1>6, <1>7 DEF Waves, Seen
<1>11. Carried'
  <2>1. SUFFICES ASSUME pending = 0  PROVE work'[k].pc \in {"subbed", "zero"}
    BY <1>2 DEF Carried
  <2>2. t.left = 0
    BY <1>1, <2>1, LeftFacts DEF Waves
  <2>3. u = [t EXCEPT !.pc = "zero"]
    BY <1>3, <2>1, <2>2
  <2> QED
    BY <1>5, <1>7, <2>3
<1>12. PICK C : C = {}
  OBVIOUS
<1>13. IsPush(rx', rx, C) /\ C \cap Meta = {} /\ "NotifyDelete" \notin C
  BY <1>2, <1>12 DEF IsPush
<1> QED
  BY <1>2, <1>7, <1>9, <1>10, <1>11, <1>13, TaskStep

LEMMA AskWaves ==
  ASSUME Types, Types', Waves, NEW k \in Worker, AskNextPhase(k)
  PROVE  Waves'
<1>0. TypeOK
  BY DEF Types
<1>1. PICK t : t = work[k]
  OBVIOUS
<1>2. /\ t.pc = "zero" /\ Busy(k) /\ IsTask(t)
      /\ UNCHANGED <<phase, gate, armed, kickoff, pending, failed>>
      /\ work' = [work EXCEPT ![k] = Resume(t)]
  BY <1>1 DEF AskNextPhase, Working, Busy, Types
<1>3. pending = 0 /\ t.left = 0
  <2>1. pending = 0
    BY <1>1, <1>2 DEF Waves, Seen
  <2> QED
    BY <1>1, <2>1, LeftFacts DEF Waves
<1>4. PICK u : u = Resume(t)
  OBVIOUS
<1>5. IsTask(u) /\ u.left = t.left /\ u.pc = "done"
  <2>1. IsTask(u) /\ u.left = t.left /\ u.pc \in {"run", "done"}
    BY <1>2, <1>4, ResumeFacts
  <2> QED
    BY <1>3, <2>1 DEF IsTask
<1>6. work'[k] = u /\ \A l \in Worker : l # k => work'[l] = work[l]
  BY <1>0, <1>2, <1>4, <1>5, OneTask DEF Types
<1>7. Outstanding' = Outstanding
  <2>1. Outstanding' = Outstanding - t.left + u.left
    BY <1>1, <1>6, CountDown
  <2>2. Outstanding \in Nat
    BY LeftFacts DEF Waves
  <2> QED
    BY <1>3, <1>5, <2>1, <2>2
<1>8. Counted'
  BY <1>2, <1>7 DEF Waves, Counted
<1>9. Seen'
  BY <1>2, <1>3 DEF Seen
<1>10. PICK C : C = Following(phase)
  OBVIOUS
<1>11. IsPush(rx', rx, C) /\ C \subseteq Box(rx')
  BY <1>0, <1>10, OtherMoves
<1>12. Carried'
  BY <1>2, <1>10, <1>11 DEF Carried
<1>13. "NotifyDelete" \notin C
  <2>1. C \subseteq Meta
    BY <1>0, <1>10, FollowingFacts DEF TypeOK
  <2> QED
    BY <2>1 DEF Meta
<1>14. ~Busy(k)'
  BY <1>5, <1>6 DEF Busy
<1> QED
  BY <1>2, <1>3, <1>6, <1>8, <1>9, <1>10, <1>11, <1>12, <1>13, <1>14, TaskStep

LEMMA FailsWaves ==
  ASSUME Types, Types', Waves, NEW k \in Worker, OperationFails(k)
  PROVE  Waves'
<1>0. TypeOK /\ rx \in Seq(Command)
  BY DEF Types, TypeOK
<1>1. PICK t : t = work[k]
  OBVIOUS
<1>2. /\ t.pc = "run" /\ IsTask(t) /\ t.left \in Nat /\ t.left > 0 /\ Busy(k) /\ pending # 0
      /\ Outstanding \in Nat /\ failed \in Nat /\ pending = Outstanding + failed
      /\ \A l \in Worker : work[l].pc # "zero"
  <2>1. t.pc = "run"
    BY <1>1 DEF OperationFails, Working
  <2> QED
    BY <1>1, <2>1, Running
<1>3. PICK u, n : u = Given(k, t) /\ n = IF k[2] = "other" THEN 1 ELSE t.left
  OBVIOUS
<1>4. /\ work' = [work EXCEPT ![k] = u] /\ failed' = failed + n
      /\ UNCHANGED <<phase, gate, armed, kickoff, pending>>
  BY <1>1, <1>3 DEF OperationFails, Given
<1>5. IsTask(u) /\ u.pc # "zero" /\ u.left = t.left - n /\ n \in Nat
  BY <1>2, <1>3, GivenFacts
<1>6. work'[k] = u /\ \A l \in Worker : l # k => work'[l] = work[l]
  BY <1>0, <1>4, <1>5, OneTask DEF Types
<1>7. Counted'
  <2>1. Outstanding' = Outstanding - t.left + u.left
    BY <1>1, <1>6, CountDown
  <2> QED
    BY <1>2, <1>4, <1>5, <2>1 DEF Counted
<1>8. Seen'
  BY <1>2, <1>5, <1>6 DEF Seen
<1>9. Carried'
  <2>1. \E c \in {"FailFatal", "FailRestart"} : rx' = Append(rx, c)
    BY DEF OperationFails
  <2>2. Failing'
    BY <1>0, <2>1, BoxAppend DEF Failing, In
  <2> QED
    BY <2>2 DEF Carried
<1>10. PICK C : C = {"FailFatal", "FailRestart"}
  OBVIOUS
<1>11. IsPush(rx', rx, C) /\ C \cap Meta = {} /\ "NotifyDelete" \notin C
  BY <1>0, <1>10, OtherMoves DEF Meta
<1> QED
  BY <1>2, <1>4, <1>6, <1>7, <1>8, <1>9, <1>11, TaskStep

\* The waves stay as they should be while the attempt runs.
LEMMA SerialKept ==
  ASSUME OneOwnerTask, IInv, Serial, [Next]_vars
  PROVE  Serial'
<1>1. SUFFICES ASSUME outcome' = "none"  PROVE Waves'
  BY DEF Serial
<1>2. Types /\ Types' /\ Fresh /\ Gates
  BY TypesKept DEF IInv
<1>3. CASE UNCHANGED vars
  <2>1. Waves
    BY <1>1, <1>3 DEF Serial, vars
  <2> QED
    BY <1>3, <2>1 DEF vars, Waves, Counted, Outstanding, OfWave, Seen, Waiting, Quiet, Busy,
                      Alone, Advance, In, Behind, Carried, Failing
<1>4. CASE DrainFails \/ StartMessages \/ FailAttempt \/ ConnectionEnds
  BY <1>1, <1>4 DEF DrainFails, StartMessages, FailAttempt, ConnectionEnds
<1>5. CASE OwnerKickoff
  <2>1. Waves
    BY <1>5 DEF Serial, OwnerKickoff
  <2> QED
    BY <1>2, <1>5, <2>1, KickoffWaves
<1>6. CASE StartAvatarMetadata \/ StartTopicMetadata \/ StartTopicValidation
  <2>1. Waves
    BY <1>6 DEF Serial, StartAvatarMetadata, StartTopicMetadata, StartTopicValidation, First,
                Receive
  <2> QED
    BY <1>2, <1>6, <2>1, PhaseWaves
<1>7. CASE \/ RepeatedPhase \/ NotifyDelete
           \/ \E r \in Request : DeadlineExpires(r) \/ DeadlineChecks(r)
  <2>1. Waves
    BY <1>7 DEF Serial, RepeatedPhase, NotifyDelete, Receive, DeadlineExpires, DeadlineChecks
  <2> QED
    BY <1>2, <1>7, <2>1, StillWaves
<1>8. CASE (\E w \in Wave : ManifestResult(w)) \/ TopicDiffResult \/ StrayResult
  <2>1. Waves
    BY <1>8 DEF Serial, ManifestResult, TopicDiffResult, StrayResult, ReadFrame
  <2> QED
    BY <1>2, <1>8, <2>1, ResultWaves
<1>9. ASSUME NEW k \in Worker,
             OperationDone(k) \/ ReadPending(k) \/ AskNextPhase(k) \/ OperationFails(k)
      PROVE  Waves'
  <2>1. Waves
    BY <1>9 DEF Serial, OperationDone, ReadPending, AskNextPhase, OperationFails, Working
  <2> QED
    BY <1>2, <1>9, <2>1, DoneWaves, ReadWaves, AskWaves, FailsWaves
<1> QED
  BY <1>3, <1>4, <1>5, <1>6, <1>7, <1>8, <1>9, StepCases

-----------------------------------------------------------------------------
(* Without a disturbance.                                                  *)

\* A channel without a failure stays without one.
LEMMA NotFailing ==
  ASSUME TypeOK, ~Failing, NEW s, s = rx \/ (rx # <<>> /\ s = Tail(rx)),
         NEW C, IsPush(rx', s, C), "FailFatal" \notin C, "FailRestart" \notin C
  PROVE  ~Failing'
<1>0. rx \in Seq(Command)
  BY DEF TypeOK
<1>1. s \in Seq(Command) /\ Box(s) \subseteq Box(rx)
  <2>1. CASE s = rx
    BY <1>0, <2>1
  <2>2. CASE rx # <<>> /\ s = Tail(rx)
    BY <1>0, <2>2, BoxTail
  <2> QED
    BY <2>1, <2>2
<1>2. Box(rx') \subseteq Box(s) \cup C
  BY <1>1, Pushed
<1> QED
  BY <1>1, <1>2 DEF Failing, In

\* A request goes out while none is waited for.
LEMMA AskedOpen ==
  ASSUME TypeOK, Asked, armed = 0, Hash \notin wire, NEW w \in Wave,
         NEW rest, NEW frames, NEW request, OpenWave(w, rest, frames, request),
         UNCHANGED <<failed, outcome>>, Peace, ~Failing'
  PROVE  Asked' /\ Peace'
<1>1. /\ phase' = w /\ armed' = w /\ wire' = wire \cup {w}
      /\ deadline' = [deadline EXCEPT ![w] = "armed"]
  BY DEF OpenWave
<1>2. ASSUME NEW v \in wire \cap Wave  PROVE FALSE
  BY <1>2, Numbers DEF Asked
<1>3. Hash \notin wire' /\ \A v \in wire' \cap Wave : v = w
  BY <1>1, <1>2, Numbers
<1>4. Asked'
  BY <1>1, <1>3, Numbers DEF Asked
<1>5. \A r \in Request : deadline'[r] # "expired"
  BY <1>1 DEF Peace, TypeOK
<1> QED
  BY <1>4, <1>5 DEF Peace

\* A phase that begins undisturbed: no request is out.
LEMMA PhaseCalm ==
  ASSUME Types, Gates, Waves, Peace, Asked, ~disturbed',
         StartAvatarMetadata \/ StartTopicMetadata \/ StartTopicValidation
  PROVE  Peace' /\ Asked'
<1>0. TypeOK /\ ~Failing /\ rx \in Seq(Command)
  BY DEF Types, TypeOK, Peace
<1>1. ASSUME NEW c \in Meta, First(c)
      PROVE  /\ rx # <<>> /\ armed = 0 /\ Hash \notin wire /\ wire \cap Wave = {}
             /\ gate \subseteq gate' /\ c \in gate'
  <2>1. rx # <<>> /\ c \notin gate /\ gate' = gate \cup {c} /\ In(c)
    BY <1>1, TakenFacts
  <2>2. armed = 0
    BY <2>1 DEF Waves, Advance
  <2>3. "StartTopicValidation" \notin gate
    BY <2>1 DEF Gates, Meta
  <2>4. ASSUME NEW v \in wire \cap Wave  PROVE FALSE
    BY <2>2, <2>4, Numbers DEF Asked
  <2> QED
    BY <2>1, <2>2, <2>3, <2>4 DEF Asked
<1>2. ASSUME rx # <<>>, NEW C, "FailFatal" \notin C, "FailRestart" \notin C,
             IsPush(rx', Tail(rx), C)
      PROVE  ~Failing'
  <2>1. PICK s : s = Tail(rx)
    OBVIOUS
  <2> QED
    BY <1>0, <1>2, <2>1, NotFailing
<1>3. ASSUME NEW c \in Meta, First(c), UNCHANGED <<failed, outcome>>, NEW w \in Wave,
             NEW f, NEW request, OpenWave(w, Tail(rx), f, request)
      PROVE  Peace' /\ Asked'
  <2>1. rx # <<>> /\ armed = 0 /\ Hash \notin wire
    BY <1>1, <1>3
  <2>2. rx' = Tail(rx)
    BY <1>3, <2>1 DEF OpenWave
  <2>3. ~Failing'
    <3>1. PICK C : C = {}
      OBVIOUS
    <3>2. IsPush(rx', Tail(rx), C) /\ "FailFatal" \notin C /\ "FailRestart" \notin C
      BY <2>2, <3>1 DEF IsPush
    <3> QED
      BY <1>2, <2>1, <3>2
  <2>4. PICK rest : rest = Tail(rx)
    OBVIOUS
  <2> QED
    BY <1>0, <1>3, <2>1, <2>3, <2>4, AskedOpen
<1>4. ASSUME NEW c \in Meta, First(c), UNCHANGED <<failed, outcome>>,
             NEW d \in {"StartTopicValidation", "StartMessages"}, rx' = Append(Tail(rx), d),
             wire' = wire, deadline' = deadline, armed' = armed
      PROVE  Peace' /\ Asked'
  <2>1. rx # <<>> /\ Hash \notin wire /\ wire \cap Wave = {}
    BY <1>1, <1>4
  <2>2. ~Failing'
    <3>1. PICK C : C = {d}
      OBVIOUS
    <3>2. IsPush(rx', Tail(rx), C) /\ "FailFatal" \notin C /\ "FailRestart" \notin C
      BY <1>4, <3>1 DEF IsPush
    <3> QED
      BY <1>2, <2>1, <3>2
  <2> QED
    BY <1>4, <2>1, <2>2 DEF Peace, Asked
<1>5. CASE StartAvatarMetadata
  <2>1. PICK c \in Meta : First(c) /\ UNCHANGED <<failed, outcome>>
    BY <1>5 DEF StartAvatarMetadata, Meta
  <2>2. PICK f : f = <<>>
    OBVIOUS
  <2>3. OpenWave(Avatar, Tail(rx), f, "AvatarRequest") /\ Avatar \in Wave
    BY <1>5, <2>2, Numbers DEF StartAvatarMetadata, BuildFails
  <2> QED
    BY <1>3, <2>1, <2>3
<1>6. CASE StartTopicMetadata
  <2>1. PICK c \in Meta : First(c) /\ UNCHANGED <<failed, outcome>>
    BY <1>6 DEF StartTopicMetadata, Meta
  <2>2. PICK f : f = <<"OwnerCompleted">>
    OBVIOUS
  <2>3. \/ OpenWave(Topic, Tail(rx), f, "TopicRequest") /\ Topic \in Wave
        \/ /\ rx' = Append(Tail(rx), "StartTopicValidation")
           /\ wire' = wire /\ deadline' = deadline /\ armed' = armed
    BY <1>6, <2>2, Numbers DEF StartTopicMetadata, BuildFails
  <2> QED
    BY <1>3, <1>4, <2>1, <2>3
<1>7. CASE StartTopicValidation
  <2>1. /\ First("StartTopicValidation") /\ "StartTopicValidation" \in Meta
        /\ UNCHANGED <<failed, outcome, armed>>
    BY <1>7 DEF StartTopicValidation, BuildFails, Meta
  <2>2. CASE /\ rx' = Append(Tail(rx), "StartMessages")
             /\ wire' = wire /\ deadline' = deadline
    BY <1>4, <2>1, <2>2
  <2>3. CASE /\ hashExpected' = TRUE
             /\ wire' = wire \cup {Hash}
             /\ deadline' = [deadline EXCEPT ![Hash] = "armed"]
             /\ rx' = Tail(rx)
    <3>1. rx # <<>> /\ armed' = 0 /\ "StartTopicValidation" \in gate' /\ wire \cap Wave = {}
      BY <1>1, <2>1
    <3>2. ~Failing'
      <4>1. PICK C : C = {}
        OBVIOUS
      <4>2. IsPush(rx', Tail(rx), C) /\ "FailFatal" \notin C /\ "FailRestart" \notin C
        BY <2>3, <4>1 DEF IsPush
      <4> QED
        BY <1>2, <3>1, <4>2
    <3>3. \A r \in Request : deadline'[r] # "expired"
      BY <1>0, <2>3 DEF Peace, TypeOK
    <3>4. Asked'
      BY <2>3, <3>1, Numbers DEF Asked
    <3> QED
      BY <2>1, <3>2, <3>3, <3>4 DEF Peace
  <2> QED
    BY <1>7, <2>2, <2>3 DEF StartTopicValidation, BuildFails
<1> QED
  BY <1>5, <1>6, <1>7

\* An undisturbed result was asked for.
LEMMA ResultCalm ==
  ASSUME TypeOK, Peace, Asked, (\E w \in Wave : ManifestResult(w)) \/ TopicDiffResult
  PROVE  Peace' /\ Asked'
<1>0. phase \in Request /\ ~Failing /\ rx \in Seq(Command)
  BY DEF TypeOK, Peace
<1>1. ASSUME NEW w \in Wave, ManifestResult(w)  PROVE Peace' /\ Asked'
  <2>1. PICK p \in Plans[w] : HandleDiff(w, p)
    BY <1>1 DEF ManifestResult
  <2>2. /\ rx = <<>> /\ w \in wire /\ wire' = wire \ {w}
        /\ UNCHANGED <<phase, gate, hashExpected, deadline, outcome, failed>>
    BY <1>1 DEF ManifestResult, ReadFrame
  <2>3. armed = w /\ phase = w
    BY <2>2 DEF Asked
  <2>4. armed' = 0 /\ (rx' = NextCommand(phase) \/ rx' = rx)
    BY <2>1, <2>3 DEF HandleDiff
  <2>5. IsPush(rx', rx, Following(phase))
    <3>1. rx \o NextCommand(phase) = NextCommand(phase)
      BY <1>0, <2>2, NextFacts
    <3> QED
      BY <1>0, <2>4, <3>1, FollowingAdded DEF IsPush
  <2>6. PICK C : C = Following(phase)
    OBVIOUS
  <2>7. "FailFatal" \notin C /\ "FailRestart" \notin C
    BY <1>0, <2>6, FollowingFacts DEF Meta
  <2>8. ~Failing'
    BY <1>0, <2>5, <2>6, <2>7, NotFailing
  <2>9. Hash \notin wire /\ \A v \in wire \cap Wave : v = w
    BY <2>3, Numbers DEF Asked
  <2>10. Asked'
    BY <2>2, <2>9 DEF Asked
  <2> QED
    BY <2>2, <2>8, <2>10 DEF Peace
<1>2. CASE TopicDiffResult
  <2>1. /\ rx = <<>> /\ Hash \in wire /\ wire' = wire \ {Hash}
        /\ UNCHANGED <<armed, deadline, outcome, failed>>
    BY <1>2 DEF TopicDiffResult, ReadFrame
  <2>2. hashExpected /\ armed = 0
    BY <2>1 DEF Asked
  <2>3. rx' = <<"StartMessages">>
    BY <1>2, <2>2 DEF TopicDiffResult, HandleTopicDiff
  <2>4. PICK C : C = {"StartMessages"}
    OBVIOUS
  <2>5. IsPush(rx', rx, C) /\ "FailFatal" \notin C /\ "FailRestart" \notin C
    BY <2>1, <2>3, <2>4 DEF IsPush
  <2>6. ~Failing'
    BY <1>0, <2>5, NotFailing
  <2>7. ASSUME NEW v \in wire \cap Wave  PROVE FALSE
    BY <2>2, <2>7, Numbers DEF Asked
  <2>8. Asked'
    BY <2>1, <2>7 DEF Asked
  <2> QED
    BY <2>1, <2>6, <2>8 DEF Peace
<1> QED
  BY <1>1, <1>2

\* Without a disturbance the attempt stays calm.
LEMMA CalmKept ==
  ASSUME IInv, Serial, Calm, [Next]_vars
  PROVE  Calm'
<1>1. disturbed \in BOOLEAN /\ Types /\ TypeOK /\ Fresh /\ Gates /\ rx \in Seq(Command)
  BY DEF IInv, Types, TypeOK
<1>2. SUFFICES ASSUME ~disturbed'  PROVE Peace' /\ Asked'
  BY DEF Calm
<1>3. CASE \/ DrainFails \/ StrayResult \/ ConnectionEnds
           \/ \E k \in Worker : OperationFails(k)
           \/ \E r \in Request : DeadlineExpires(r)
  BY <1>2, <1>3 DEF DrainFails, StrayResult, ConnectionEnds, OperationFails, DeadlineExpires
<1>4. CASE ~disturbed
  <2>0. Peace /\ Asked /\ ~Failing
    BY <1>4 DEF Calm, Peace
  <2>1. ASSUME NEW s, s = rx \/ (rx # <<>> /\ s = Tail(rx)), NEW C, IsPush(rx', s, C),
               "FailFatal" \notin C, "FailRestart" \notin C,
               UNCHANGED <<failed, deadline, wire, armed, phase, hashExpected, gate>>,
               outcome' \in {"none", "messages"}
        PROVE  Peace' /\ Asked'
    <3>1. ~Failing'
      BY <1>1, <2>0, <2>1, NotFailing
    <3> QED
      BY <2>0, <2>1, <3>1 DEF Peace, Asked
  <2>2. CASE OwnerKickoff
    <3>1. /\ armed = 0 /\ wire = {} /\ rx = <<>> /\ UNCHANGED <<failed, outcome>>
          /\ OpenWave(Owner, rx, <<>>, "OwnerRequest") /\ Owner \in Wave
      BY <1>1, <1>2, <2>2, Numbers DEF OwnerKickoff, Fresh, BuildFails
    <3>2. ~Failing'
      <4>1. rx' = rx
        BY <3>1 DEF OpenWave
      <4> QED
        BY <2>0, <4>1 DEF Failing, In
    <3>3. PICK f : f = <<>>
      OBVIOUS
    <3> QED
      BY <1>1, <2>0, <3>1, <3>2, <3>3, AskedOpen
  <2>3. CASE StartAvatarMetadata \/ StartTopicMetadata \/ StartTopicValidation
    <3>1. Waves
      BY <2>3 DEF Serial, StartAvatarMetadata, StartTopicMetadata, StartTopicValidation, First,
                  Receive
    <3> QED
      BY <1>1, <1>2, <2>0, <2>3, <3>1, PhaseCalm
  <2>4. CASE RepeatedPhase \/ NotifyDelete
    <3>1. /\ rx # <<>> /\ rx' = Tail(rx)
          /\ UNCHANGED <<failed, deadline, wire, armed, phase, hashExpected, gate, outcome>>
      BY <2>4 DEF RepeatedPhase, NotifyDelete, Receive
    <3>2. PICK C : C = {}
      OBVIOUS
    <3>3. IsPush(rx', rx', C) /\ "FailFatal" \notin C /\ "FailRestart" \notin C
      BY <3>2 DEF IsPush
    <3>4. outcome \in {"none", "messages"}
      BY <2>0 DEF Peace
    <3> QED
      BY <2>1, <3>1, <3>3, <3>4
  <2>5. CASE StartMessages
    <3>1. /\ rx # <<>> /\ rx' = Tail(rx) /\ outcome' = "messages" /\ gate \subseteq gate'
          /\ UNCHANGED <<failed, deadline, wire, armed, phase, hashExpected>>
      BY <2>5 DEF StartMessages, First, Receive
    <3>2. PICK C : C = {}
      OBVIOUS
    <3>3. IsPush(rx', rx', C) /\ "FailFatal" \notin C /\ "FailRestart" \notin C
      BY <3>2 DEF IsPush
    <3>4. ~Failing'
      BY <1>1, <2>0, <3>1, <3>3, NotFailing
    <3> QED
      BY <2>0, <3>1, <3>4 DEF Peace, Asked
  <2>6. CASE FailAttempt
    <3>1. In("FailFatal") \/ In("FailRestart")
      BY <1>1, <2>6, ReceiveFacts DEF FailAttempt
    <3> QED
      BY <2>0, <3>1 DEF Failing
  <2>7. ASSUME NEW k \in Worker, OperationDone(k) \/ ReadPending(k) \/ AskNextPhase(k)
        PROVE  Peace' /\ Asked'
    <3>1. UNCHANGED <<failed, deadline, wire, armed, phase, hashExpected, gate, outcome>>
      BY <2>7 DEF OperationDone, ReadPending, AskNextPhase
    <3>2. PICK C : C = {"NotifyDelete"} \cup Following(phase)
      OBVIOUS
    <3>3. IsPush(rx', rx, C)
      BY <1>1, <2>7, <3>2, OtherMoves DEF IsPush
    <3>4. "FailFatal" \notin C /\ "FailRestart" \notin C
      BY <1>1, <3>2, FollowingFacts DEF Meta, TypeOK
    <3>5. outcome \in {"none", "messages"}
      BY <2>0 DEF Peace
    <3> QED
      BY <2>1, <3>1, <3>3, <3>4, <3>5
  <2>8. ASSUME NEW r \in Request, DeadlineChecks(r)  PROVE FALSE
    BY <2>0, <2>8 DEF Peace, DeadlineChecks
  <2>9. CASE (\E w \in Wave : ManifestResult(w)) \/ TopicDiffResult
    BY <1>1, <2>0, <2>9, ResultCalm
  <2>10. CASE UNCHANGED vars
    BY <2>0, <2>10 DEF vars, Peace, Asked, Failing, In
  <2> QED
    BY <1>3, <2>2, <2>3, <2>4, <2>5, <2>6, <2>7, <2>8, <2>9, <2>10, StepCases
<1>5. CASE disturbed
  <2>1. UNCHANGED disturbed \/ disturbed' = TRUE
    BY StepCases DEF OwnerKickoff, BuildFails, RepeatedPhase, DrainFails, StartAvatarMetadata,
         StartTopicMetadata, StartTopicValidation, StartMessages, NotifyDelete, FailAttempt,
         OperationDone, ReadPending, AskNextPhase, OperationFails, DeadlineExpires,
         DeadlineChecks, ManifestResult, TopicDiffResult, StrayResult, ConnectionEnds, vars
  <2> QED
    BY <1>2, <1>5, <2>1
<1> QED
  BY <1>1, <1>4, <1>5

-----------------------------------------------------------------------------
(* What holds with one task per owner result.                              *)

LEMMA InitSerial == Init => SInv
<1>1. SUFFICES ASSUME Init  PROVE SInv
  OBVIOUS
<1>2. IInv /\ Types
  BY <1>1, InitInv DEF IInv
<1>3. /\ kickoff /\ pending = 0 /\ armed = 0 /\ rx = <<>> /\ wire = {} /\ failed = 0
      /\ outcome = "none" /\ deadline = [r \in Request |-> "off"]
      /\ \A k \in Worker : work[k] = Idle
  BY <1>1 DEF Init
<1>4. Box(rx) = {}
  BY <1>3, BoxEmpty
<1>5. \A k \in Worker : work[k].left = 0 /\ work[k].pc = "idle" /\ ~Busy(k)
  BY <1>3, IdleFacts DEF Busy
<1>6. Outstanding = 0
  <2>1. AllTasks(work)
    BY <1>2 DEF Types, AllTasks
  <2> QED
    BY <1>5, <2>1, SumFacts, OutstandingSum
<1>7. Counted /\ Seen /\ Waiting /\ Alone
  BY <1>3, <1>5, <1>6 DEF Counted, Seen, Waiting, Alone
<1>8. Advance /\ Behind /\ Carried
  BY <1>3, <1>4 DEF Advance, In, Behind, NoneBehind, Carried
<1>9. Calm
  BY <1>3, <1>4 DEF Calm, Peace, Asked, Failing, In
<1> QED
  BY <1>2, <1>7, <1>8, <1>9 DEF SInv, Serial, Waves

LEMMA SInvKept ==
  ASSUME OneOwnerTask, SInv, [Next]_vars
  PROVE  SInv'
  BY InvKept, SerialKept, CalmKept DEF SInv

\* The inductive invariant of the waves when an owner result starts one task: the
\* counter is what runs or failed, a wave is opened over nothing that runs, a phase
\* is asked for only when its wave is over, and without a disturbance the desktop
\* answers what was asked last.
THEOREM SerialInvariance == OneOwnerTask => (Spec => []SInv)
<1>1. SUFFICES ASSUME OneOwnerTask  PROVE Spec => []SInv
  OBVIOUS
<1>2. SInv /\ [Next]_vars => SInv'
  BY <1>1, SInvKept
<1> QED
  BY InitSerial, <1>2, PTL DEF Spec

\* pending_tasks neither wraps nor is reset under a running operation: it is always
\* the operations that run or failed.
THEOREM CounterExact == OneOwnerTask => (Spec => []PendingExact)
<1>1. SInv => PendingExact
  BY DEF SInv, Serial, Waves, Counted, PendingExact
<1> QED
  BY <1>1, SerialInvariance, PTL

\* A wave whose result is in and whose operations all succeeded has asked for the
\* next phase, though each task reads the counter and the wave number separately.
THEOREM AdvanceNotLost == OneOwnerTask => (Spec => []NoLostAdvance)
<1>1. ASSUME SInv, outcome = "none", ~kickoff, rx = <<>>, armed = 0, phase \in Wave, failed = 0,
             \A k \in Worker : ~Busy(k)
      PROVE  NextCommand(phase)[1] \in gate
  <2>1. Types /\ Waves
    BY <1>1 DEF SInv, IInv, Serial
  <2>2. pending = 0
    BY <1>1, <2>1, LeftFacts DEF Waves, Counted, Quiet
  <2>3. Box(rx) = {}
    BY <1>1, BoxEmpty
  <2>4. ~Failing /\ ~\E k \in Worker : work[k].pc \in {"subbed", "zero"}
    BY <1>1, <2>3 DEF Failing, In, Busy
  <2>5. Following(phase) \subseteq gate
    BY <1>1, <2>1, <2>2, <2>3, <2>4 DEF Waves, Carried
  <2>6. NextCommand(phase)[1] \in Following(phase)
    <3>1. Len(NextCommand(phase)) = 1
      BY <1>1, NextFacts, Numbers
    <3> QED
      BY <3>1 DEF Following
  <2> QED
    BY <2>5, <2>6
<1>2. SInv => NoLostAdvance
  BY <1>1 DEF NoLostAdvance
<1> QED
  BY <1>2, SerialInvariance, PTL

\* With an answering desktop, no failing operation and no expired watchdog the
\* attempt never fails: a tracker is never found armed, and every result is the one
\* that is waited for.
THEOREM CalmSucceeds == OneOwnerTask => (Spec => []UndisturbedNeverFails)
<1>1. ASSUME SInv, ~disturbed
      PROVE  outcome \in {"none", "messages"} /\ \A i \in DOMAIN rx : rx[i] # "FailFatal"
  <2>1. Peace /\ rx \in Seq(Command)
    BY <1>1 DEF SInv, IInv, Types, TypeOK, Calm
  <2>2. \A i \in DOMAIN rx : rx[i] \in Box(rx)
    BY <2>1 DEF Box
  <2> QED
    BY <2>1, <2>2 DEF Peace, Failing, In
<1>2. SInv => UndisturbedNeverFails
  BY <1>1 DEF UndisturbedNeverFails
<1> QED
  BY <1>2, SerialInvariance, PTL

\* A frame other than a notification goes out only over a wave that is over.
LEMMA StartFacts ==
  ASSUME SInv, [Next]_vars, Starts
  PROVE  Outstanding = 0 /\ failed = 0 /\ ~dirty' /\ deleted = Times(sent, "Delete")
<1>0. /\ Types /\ TypeOK /\ Fresh /\ Told /\ rx \in Seq(Command) /\ sent \in Seq(Frame)
      /\ deleted \in Nat
  BY DEF SInv, IInv, Types, TypeOK
<1>1. Times(sent, "Delete") \in Nat
  BY <1>0, TimesType
<1>2. ASSUME Times(rx, "NotifyDelete") = 0  PROVE deleted = Times(sent, "Delete")
  BY <1>0, <1>1, <1>2 DEF Told
<1>3. CASE OwnerKickoff
  <2>1. /\ rx = <<>> /\ failed = 0 /\ ~dirty' /\ outcome = "none"
        /\ \A k \in Worker : work[k] = Idle
    BY <1>0, <1>3 DEF OwnerKickoff, Fresh
  <2>2. Quiet /\ Waves
    BY <2>1, IdleFacts DEF Quiet, Busy, SInv, Serial
  <2>3. Outstanding = 0
    BY <1>0, <2>2, LeftFacts DEF Waves
  <2>4. Times(rx, "NotifyDelete") = 0
    BY <2>1, TimesNone
  <2> QED
    BY <1>2, <2>1, <2>3, <2>4
<1>4. CASE StartAvatarMetadata \/ StartTopicMetadata \/ StartTopicValidation
  <2>1. PICK c \in Meta : First(c)
    BY <1>4 DEF StartAvatarMetadata, StartTopicMetadata, StartTopicValidation, Meta
  <2>2. ~dirty'
    BY <1>4 DEF StartAvatarMetadata, StartTopicMetadata, StartTopicValidation
  <2>3. /\ rx # <<>> /\ Head(rx) = c /\ c \notin gate /\ In(c) /\ outcome = "none"
    BY <1>0, <2>1, TakenFacts
  <2>4. Waves
    BY <2>3 DEF SInv, Serial
  <2>5. Outstanding = 0 /\ failed = 0
    BY <1>0, <2>3, <2>4, LeftFacts DEF Waves, Advance
  <2>6. \A j \in 1 .. Len(rx) : rx[j] # "NotifyDelete"
    <3>1. Len(rx) \in Nat \ {0} /\ rx[1] = c /\ 1 \in 1 .. Len(rx)
      BY <1>0, <2>3
    <3>2. c # "NotifyDelete"
      BY DEF Meta
    <3>3. \A j \in 1 .. Len(rx) : 1 < j => rx[j] # "NotifyDelete"
      BY <2>3, <2>4, <3>1 DEF Waves, Behind, NoneBehind
    <3> QED
      BY <3>1, <3>2, <3>3
  <2>7. Times(rx, "NotifyDelete") = 0
    <3>1. DOMAIN rx = 1 .. Len(rx)
      BY <1>0
    <3> QED
      BY <2>6, <3>1, TimesNone
  <2> QED
    BY <1>2, <2>2, <2>5, <2>7
<1>5. CASE sent' = Append(sent, "Delete")
  <2>1. Len(sent') = Len(sent) + 1 /\ sent'[Len(sent) + 1] = "Delete"
    BY <1>0, <1>5
  <2> QED
    BY <2>1 DEF Starts
<1>6. sent' # sent
  BY DEF Starts
<1> QED
  BY <1>0, <1>3, <1>4, <1>5, <1>6, SentMoves

\* A request or a phase completion goes out only when every operation of the waves
\* before it succeeded and the writes they left were flushed.  The hypothesis is
\* needed: where an owner result starts two tasks, both may see the counter at zero
\* and the second asks, with the wave number of the avatar wave, for the phase after
\* it (the run SyncManifest_barrier).
THEOREM BarrierHolds == OneOwnerTask => (Spec => WaveBarrier)
<1>1. SInv /\ [Next]_vars => [Starts => Outstanding = 0 /\ failed = 0 /\ ~dirty']_vars
  BY StartFacts
<1> QED
  BY <1>1, SerialInvariance, PTL DEF Spec, WaveBarrier

\* The desktop hears of every deletion a PushDelete made before it is told that the
\* phase is over or is asked for the next manifest: the notification went into the
\* channel before the operation was taken off the counter.
THEOREM DeletionsFirst == OneOwnerTask => (Spec => DeletesAreToldFirst)
<1>1. SInv /\ [Next]_vars => [Starts => deleted = Times(sent, "Delete")]_vars
  BY StartFacts
<1> QED
  BY <1>1, SerialInvariance, PTL DEF Spec, DeletesAreToldFirst
=============================================================================
