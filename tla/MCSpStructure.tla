--------------------------- MODULE MCSpStructure ----------------------------
(***************************************************************************)
(* Small instances of SpStructure for TLC, in scenes fixed in the first    *)
(* state: "history" has every operation and every rollback on one chain of *)
(* nodes with three KPIs and two years; "careful" has administrators with  *)
(* discipline, who may also always work forward (never for a year before   *)
(* one already worked on), on two goals and three years.                   *)
(***************************************************************************)
EXTENDS SpStructure, TLC

CONSTANTS g1, g2, s1, t1, u1, k1, k2, k3

VARIABLES
  scene,
  forward   \* history: every edit so far worked forward

svars == <<vars, scene, forward>>

MCHome == (s1 :> g1) @@ (t1 :> s1) @@ (u1 :> t1) @@ (k1 :> t1) @@ (k2 :> t1) @@ (k3 :> t1)
MCLetter == (k1 :> 1) @@ (k2 :> 2) @@ (k3 :> 3)

Cast == [history |-> {g1, s1, t1, u1, k1, k2, k3}, careful |-> {g1, g2, s1, t1, k1, k2}]

MCInit == Init /\ forward = TRUE /\ scene \in DOMAIN Cast /\ Stored \subseteq Cast[scene]

HistoryNext ==
  /\ \/ \E y \in Years \ {MaxYear} : Create(y) \/ Update(y) \/ Abolish(y) \/ Revise(y)
     \/ \E e \in log : Rollback(e)
     \/ \E t \in Tasks, given \in SUBSET Subtasks, name \in Names : ReplaceSubtasks(t, given, name)
  /\ UNCHANGED forward

CarefulNext ==
  /\ \E y \in Years : EditFor(y) /\ forward' = (forward /\ NotBefore(y))
  /\ \A k \in Kpis \cap Stored' : row'[k].suffix < MaxLetter

MCNext ==
  /\ writes < MaxWrites
  /\ \/ scene = "history" /\ HistoryNext
     \/ scene = "careful" /\ CarefulNext
  /\ Stored' \subseteq Cast[scene]
  /\ UNCHANGED scene

MCSpec == MCInit /\ [][MCNext]_svars

\* However carelessly the plan is edited, every variable stays in its set, and the
\* version rows and the live row of a node tell one story.
HistorySound == scene = "history" => TypeOK /\ RowsAgree

\* What administrators with discipline keep: the live plan is a tree with agreeing
\* copies and distinct letters; and, as long as they work forward, so is the plan
\* every year shows, past ones included.
PlansAreTrees ==
  scene = "careful" => LivePlanIsTree /\ SuffixesDistinct /\ (forward => YearPlanIsTree)

\* A request of theirs that works forward reaches no earlier year, and a full
\* revision leaves nothing from its year on.
YearsKeptApart == [][scene = "careful" => PastKept /\ RevisionLeavesBlank]_svars
=============================================================================
