--------------------------------- MODULE Reply ---------------------------------
(***************************************************************************)
(* What a streamed reply promises its message, whatever crashes between    *)
(* the model and the database: the message gets one terminal result, which *)
(* is the whole reply as upstream ended it, or an error that is owned up   *)
(* to when nobody holds the reply any more.  A deleted message gets none.  *)
(***************************************************************************)
EXTENDS Naturals

CONSTANTS None, MaxLen

Ends    == [why : {"completed", "cancelled", "error"}, len : 0 .. MaxLen]
Excuses == [why : {"lost", "refused"}, len : {0}]

VARIABLES
  row,      \* the message: "none", "pending", "terminal", "deleted"
  result,   \* what it was given, or None
  reply     \* how upstream ended, or None

vars == <<row, result, reply>>

Init == row = "none" /\ result = None /\ reply = None

Send ==
  /\ row = "none"
  /\ row' = "pending"
  /\ UNCHANGED <<result, reply>>

\* The upstream reply ends, once.
Ended ==
  /\ reply = None
  /\ row # "none"
  /\ reply' \in Ends
  /\ UNCHANGED <<row, result>>

Settle ==
  /\ row = "pending"
  /\ row' = "terminal"
  /\ result' \in Excuses \cup ({reply} \ {None})
  /\ UNCHANGED reply

Delete ==
  /\ row \in {"pending", "terminal"}
  /\ row' = "deleted"
  /\ UNCHANGED <<result, reply>>

Next == Send \/ Ended \/ Settle \/ Delete

\* A message that waits for its reply does not wait for ever.
Spec == Init /\ [][Next]_vars /\ WF_vars(Settle)
=============================================================================
