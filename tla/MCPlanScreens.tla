---------------------------- MODULE MCPlanScreens -----------------------------
(***************************************************************************)
(* A small plan under the administrator's page, in scenes that each try    *)
(* some of what the page offers.                                           *)
(***************************************************************************)
EXTENDS PlanScreens

CONSTANTS g1, s1, t1, u1, k1, k2

MCHome == (s1 :> g1) @@ (t1 :> s1) @@ (u1 :> t1) @@ (k1 :> t1) @@ (k2 :> t1)
MCLetter == (k1 :> 1) @@ (k2 :> 2)
MCNames == [AllFields -> Nat]
MCSeeds == {g1, s1, t1, k1, k2}

Plot(structure, kpi, funds, changes, n) ==
  [may |-> [t \in PageTabs |-> IF t = "structure" THEN structure ELSE IF t = "kpi" THEN kpi
                               ELSE IF t = "funds" THEN funds ELSE changes],
   acts |-> n]

Structure == Plot({"open", "type", "save", "abolish", "create"}, {}, {}, {}, 5)
KpiEdit == Plot({"tab"}, {"open", "type", "letter", "save", "abolish", "create"}, {}, {}, 6)
KpiTargets == Plot({"tab"}, {"open", "target", "save", "tab"}, {}, {}, 6)
LookBack == Plot({"open", "type", "save", "view"}, {}, {}, {}, 6)
LookAndRevise == Plot({"open", "save", "create", "view", "revise"}, {}, {}, {}, 4)
FundList == Plot({"tab"}, {}, {"fund", "move", "revise", "view"}, {}, 5)
Changes == Plot({"open", "type", "save", "abolish", "tab"}, {}, {}, {"rollback", "tab"}, 6)

MCPlots == {Structure, KpiEdit, KpiTargets, LookBack, LookAndRevise, FundList, Changes}
=============================================================================
