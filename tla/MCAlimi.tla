------------------------------- MODULE MCAlimi -------------------------------
(***************************************************************************)
(* The public-disclosure batch on small instances: in one scene the life   *)
(* of a run and its lock, in the other the jobs of its phases.             *)
(***************************************************************************)
EXTENDS AlimiBatch, AlimiIngest

VARIABLE scene

AlimiInit ==
  /\ scene \in {"batch", "ingest"}
  /\ BatchInit /\ IngestInit
  /\ scene = "batch" => category = {}

AlimiNext ==
  \/ scene = "batch" /\ BatchNext /\ UNCHANGED <<scene, ivars>>
  \/ scene = "ingest" /\ IngestNext /\ UNCHANGED <<scene, bvars>>

AlimiSpec == AlimiInit /\ [][AlimiNext]_<<scene, bvars, ivars>> /\ BatchFair /\ IngestFair

\* Every variable of the two components stays in its set, and over all processes one
\* batch runs at a time.
OneSoundBatch == BatchTypeOK /\ IngestTypeOK /\ OneBatch

\* A started batch ends with the lock given back, and so does every phase of its jobs.
RunsEnd == BatchEnds /\ IngestEnds
=============================================================================
