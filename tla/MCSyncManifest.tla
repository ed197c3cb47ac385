--------------------------- MODULE MCSyncManifest ---------------------------
(***************************************************************************)
(* Instances of SyncManifest.  SerialPlans: the owner and the avatar wave  *)
(* have operations of one class, so that one task works on a wave; the     *)
(* topic wave, with no wave behind it, may start two tasks.  MixedPlans:   *)
(* results that start two tasks in any wave.                               *)
(***************************************************************************)
EXTENDS SyncManifest

P(pull, push, other, dels, mark) ==
  [pull |-> pull, push |-> push, other |-> other, dels |-> dels, mark |-> mark]

SerialPlans ==
  [w \in Wave |->
     CASE w = Owner  -> {P(0, 0, 0, 0, FALSE), P(0, 0, 0, 0, TRUE), P(2, 0, 0, 0, TRUE),
                         P(0, 0, 2, 1, FALSE)}
       [] w = Avatar -> {P(0, 0, 0, 0, FALSE), P(0, 0, 2, 1, FALSE)}
       [] w = Topic  -> {P(0, 0, 0, 0, FALSE), P(2, 0, 0, 0, FALSE), P(1, 1, 0, 0, FALSE),
                         P(0, 0, 1, 1, FALSE)}]

MixedPlans ==
  [w \in Wave |->
     CASE w = Owner  -> {P(1, 0, 1, 0, TRUE), P(1, 0, 1, 1, TRUE)}
       [] w = Avatar -> {P(0, 0, 0, 0, FALSE), P(0, 0, 1, 0, FALSE)}
       [] w = Topic  -> {P(1, 1, 0, 0, FALSE), P(0, 0, 0, 0, FALSE)}]
=============================================================================
