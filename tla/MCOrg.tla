-------------------------------- MODULE MCOrg --------------------------------
(***************************************************************************)
(* The organisation on small instances: its two trees with their versions, *)
(* and the annual notes made from its change log, each in a scene of its   *)
(* own, fixed in the first state.                                          *)
(***************************************************************************)
EXTENDS OrgTree, OrgEvents, TLC

VARIABLE scene

Symmetry == Permutations(Names) \cup Permutations(Syncs)

MCInit ==
  /\ scene \in {"academic", "offices", "events"}
  /\ OrgInit /\ EventsInit
  /\ scene = "events" => Kept = {Uncategorized}

MCNext ==
  \/ scene = "academic" /\ AcademicNext /\ UNCHANGED <<scene, evars>>
  \/ scene = "offices" /\ OfficeNext /\ UNCHANGED <<scene, evars>>
  \/ scene = "events" /\ EventsNext /\ UNCHANGED <<scene, ovars>>

MCSpec == MCInit /\ [][MCNext]_<<scene, ovars, evars>>

\* Every variable of the two components stays in its set, and in every year a child is
\* under a head of that year.
SoundTrees == OrgTypeOK /\ EventsTypeOK /\ ChildHasHead

\* The version rows tell every year: the last year shows the live row, and an edit
\* leaves the years before it as they were.
VersionsTellYears == []LastYearIsLive /\ OrgPastKept
=============================================================================
