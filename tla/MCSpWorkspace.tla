--------------------------- MODULE MCSpWorkspace ----------------------------
(***************************************************************************)
(* The workspace of the departments on small instances: the requests the   *)
(* server has in hand, and the browser that sends such requests, each in a *)
(* scene of its own, fixed in the first state.                             *)
(***************************************************************************)
EXTENDS SpWorkspace, PlanStore

CONSTANTS r1, r2, won, Scenes

VARIABLE scene

MCInit ==
  /\ scene \in Scenes
  /\ Init /\ PlanStoreInit
  /\ \A y \in Years : y <= year

MCNext ==
  \/ scene = "server" /\ Next /\ UNCHANGED <<scene, pvars>>
  \/ scene = "browser" /\ PlanStoreNext /\ UNCHANGED <<scene, vars>>

MCSpec == MCInit /\ [][MCNext]_<<scene, vars, pvars>> /\ Fairness /\ PlanStoreFair

\* Every variable of the two components stays in its set, and however saves and
\* deletes interleave no result row is left without a value.
SoundTables == TypeOK /\ PlanStoreTypeOK /\ ResultNeverEmpty
=============================================================================
