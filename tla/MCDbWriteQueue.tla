--------------------------- MODULE MCDbWriteQueue ---------------------------
(***************************************************************************)
(* Instances of DbWriteQueue.  Writes: a message of topic t1 written and   *)
(* rewritten, two messages in one task, and a task without messages.       *)
(***************************************************************************)
EXTENDS DbWriteQueue

W(m, c) == [msg |-> m, content |-> c]
T(k, ws) == [key |-> k, writes |-> ws]

Rewrites == {T("t1", <<W("m1", "a")>>), T("t1", <<W("m1", "b")>>)}
Mixed == {T("t1", <<W("m1", "a")>>), T("t1", <<W("m1", "b"), W("m2", "a")>>), T("meta", << >>)}
=============================================================================
