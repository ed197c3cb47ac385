------------------------------ MODULE WriteLog ------------------------------
(***************************************************************************)
(* What the DbWriteQueue promises, without channel, batches or connection: *)
(* a log of accepted tasks that is worked off from its front, some tasks   *)
(* at a time.  Each such piece is written as a whole, one task after the   *)
(* other, or fails as a whole.  The failures nobody was told of pile up    *)
(* until a flush takes them all.                                           *)
(***************************************************************************)
EXTENDS Naturals, Sequences, SequencesExt

CONSTANTS Key, Msg, Content, Payloads

\* Payloads: the tasks to write, [key : Key, writes : Seq([msg : Msg, content : Content])];
\* key "meta" stands for a task without messages (agent, group, avatar, topics).
Absent == "absent"

VARIABLES log, settled, table, unreported

Write(row, w) == [row EXCEPT ![w.msg] = w.content]

\* The effect of a task.
Apply(t, p) ==
  IF p.key = "meta" THEN t ELSE [t EXCEPT ![p.key] = FoldLeft(Write, t[p.key], p.writes)]

WLInit ==
  /\ log = <<>>
  /\ settled = 0
  /\ table = [k \in Key |-> [m \in Msg |-> Absent]]
  /\ unreported = {}

Accept ==
  /\ \E p \in Payloads : log' = Append(log, p)
  /\ UNCHANGED <<settled, table, unreported>>

Settle ==
  \E n \in (settled + 1) .. Len(log) :
    /\ settled' = n
    /\ \/ /\ table' = FoldLeft(Apply, table, SubSeq(log, settled + 1, n))
          /\ UNCHANGED unreported
       \/ /\ unreported' = unreported \cup ((settled + 1) .. n)
          /\ UNCHANGED table
    /\ UNCHANGED log

Report == unreported' = {} /\ UNCHANGED <<log, settled, table>>

WLNext == Accept \/ Settle \/ Report

WLSpec == WLInit /\ [][WLNext]_<<log, settled, table, unreported>>
=============================================================================
