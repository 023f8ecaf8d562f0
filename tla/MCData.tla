------------------------------- MODULE MCData -------------------------------
(***************************************************************************)
(* The registry and its data on small instances, one component at a time:  *)
(* the scene is fixed in the first state, and the components that are not  *)
(* on stage keep still in one initial state.                               *)
(***************************************************************************)
EXTENDS RawDesk, MonitoringCatalog, MetricTree, TLC

VARIABLE scene

Symmetry == Permutations(Requests) \cup Permutations(Values) \cup Permutations(Readers)
              \cup Permutations(Browsers)

MCSourceType == "m1" :> "INTERNAL"
MCSeeds == << [code |-> "c1", name |-> "n1", parent |-> NULL],
              [code |-> "c2", name |-> "n2", parent |-> "c1"] >>

OffStage ==
  /\ scene # "desk" => \A k \in Keys : raw[k] = NULL
  /\ scene # "catalog" => row = [i \in Ids |-> NULL]

DataInit ==
  /\ scene \in {"desk", "catalog", "tree"}
  /\ RawInit /\ CatalogInit /\ TreeInit
  /\ OffStage

DataNext ==
  \/ scene = "desk" /\ RawNext /\ UNCHANGED <<scene, cvars, tvars>>
  \/ scene = "catalog" /\ CatalogNext /\ UNCHANGED <<scene, dvars, tvars>>
  \/ scene = "tree" /\ TreeNext /\ UNCHANGED <<scene, dvars, cvars>>

DataSpec == DataInit /\ [][DataNext]_<<scene, dvars, cvars, tvars>>

\* Every variable of the three components stays in its set; of a corrected value the
\* audit log tells the last change, and a metric with rows about departments is found
\* by its name, however uploads, corrections, deletions and renames interleave.
DeskSound == RawTypeOK /\ CatalogTypeOK /\ TreeTypeOK /\ AuditTellsValue /\ DeptMetricsNamed

\* However many screens make the catalogue repair itself at once: no seed is there
\* twice, none that was deleted comes back, and no values go.
CatalogKept == [](CodesUnique /\ DeletedStayDeleted) /\ DataKept
=============================================================================
