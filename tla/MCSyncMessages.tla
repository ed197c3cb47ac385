--------------------------- MODULE MCSyncMessages ---------------------------
(***************************************************************************)
(* An instance of SyncMessages: two batches, the first with two topics.    *)
(***************************************************************************)
EXTENDS SyncMessages

TwoBatches == <<{"t1", "t2"}, {"t3"}>>
MixedDecisions == {{}, {"pull"}, {"delete", "push"}, {"pull", "push"}}
=============================================================================
