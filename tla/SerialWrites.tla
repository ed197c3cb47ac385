---------------------------- MODULE SerialWrites ----------------------------
(***************************************************************************)
(* What DbWriteTransaction promises to the application: write transactions *)
(* one after the other, each durable as a whole or not at all, and no      *)
(* writer told anything but the truth about its own.                       *)
(***************************************************************************)
CONSTANT Writer

VARIABLES
  active,    \* the writer whose transaction is open, if any
  durable,   \* writers whose transaction was committed
  told       \* what a writer knows: "none", "ok", "error", or "lost" for an unknown end

SWInit ==
  /\ active = {}
  /\ durable = {}
  /\ told = [w \in Writer |-> "none"]

Begin(w) ==
  /\ active = {} /\ w \notin durable /\ told[w] = "none"
  /\ active' = {w}
  /\ UNCHANGED <<durable, told>>

Commit(w) ==
  /\ active = {w}
  /\ active' = {}
  /\ durable' = durable \cup {w}
  /\ UNCHANGED told

Abort ==
  /\ active' = {}
  /\ UNCHANGED <<durable, told>>

Tell(w) ==
  /\ told[w] = "none"
  /\ \E v \in {"ok", "error", "lost"} :
       /\ v # "lost" => w \notin active
       /\ v = "ok" => w \in durable
       /\ v = "error" => w \notin durable
       /\ told' = [told EXCEPT ![w] = v]
  /\ UNCHANGED <<active, durable>>

SWNext == Abort \/ \E w \in Writer : Begin(w) \/ Commit(w) \/ Tell(w)

SWSpec == SWInit /\ [][SWNext]_<<active, durable, told>>
=============================================================================
