--------------------------------- MODULE CliJob ---------------------------------
(***************************************************************************)
(* What the CLI runtime promises of the job behind one run operation: the  *)
(* command is started at most once, however often the operation is sent    *)
(* and whatever crashes; the job ends once; and the first request to stop  *)
(* it decides how, unless the application died under it.                   *)
(***************************************************************************)
EXTENDS Naturals

CONSTANT None

Target   == {"cancelled", "timedout", "failed", "interrupted"}
Terminal == Target \cup {"completed"}

VARIABLES
  job,     \* "none", "active" or how it ended
  stop,    \* the stop an active job was asked for, or None
  starts   \* processes started for it

vars == <<job, stop, starts>>

Init == job = "none" /\ stop = None /\ starts = 0

Accept == job = "none" /\ job' = "active" /\ UNCHANGED <<stop, starts>>

\* A job that never started may be forgotten by a restart.
Forget == job = "active" /\ starts = 0 /\ job' = "none" /\ stop' = None /\ UNCHANGED starts

Start == job # "none" /\ starts = 0 /\ starts' = 1 /\ UNCHANGED <<job, stop>>

Stop == job = "active" /\ stop = None /\ stop' \in Target /\ UNCHANGED <<job, starts>>

End ==
  /\ job = "active"
  /\ \/ job' = "interrupted"
     \/ stop # None /\ job' = stop
     \/ stop = None /\ starts = 1 /\ job' \in {"completed", "failed"}
  /\ stop' = None
  /\ UNCHANGED starts

Next == Accept \/ Forget \/ Start \/ Stop \/ End

Spec == Init /\ [][Next]_vars
=============================================================================
