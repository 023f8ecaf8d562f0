------------------------------ MODULE PlanScreens ------------------------------
(***************************************************************************)
(* The administrator's page of the strategic plan (StrategicPlanManager.tsx)*)
(* over the plan of SpStructure: the tree of the current plan or of a year *)
(* before a full revision, the editor opened on one of its nodes, the      *)
(* dialog for a new node, the target cells of a KPI, the list of funds,    *)
(* the full revisions and the rollback of a logged change.                 *)
(*                                                                         *)
(* One administrator; requests are handled one after the other while he    *)
(* goes on.  What the tree calls a node is a value for each field that its *)
(* editor shows; of the years' target cells of a KPI there is one.         *)
(***************************************************************************)
EXTENDS SpStructure, SequencesExt

CONSTANTS
  Seeds,       \* the nodes there are at first
  Funds,       \* ids
  Plots,       \* bounds: what is tried on each tab and how often in all
  MaxCalls     \* bound: requests under way

\* What the editors of the five kinds show and save; a KPI's letter is apart.
GoalFields == {"name"}
StrategyFields == {"name"}
TaskFields == {"name", "hangul", "specialized", "dept"}
SubtaskFields == {"name", "hangul", "purpose", "method"}
KpiFields == {"name", "unit", "dept", "baseline", "ref", "formula"}

Fields(n) ==
  IF n \in Goals THEN GoalFields ELSE IF n \in Strategies THEN StrategyFields
  ELSE IF n \in Tasks THEN TaskFields ELSE IF n \in Subtasks THEN SubtaskFields ELSE KpiFields
AllFields == UNION {Fields(n) : n \in Nodes}

PageTabs == {"structure", "kpi", "funds", "changes"}

FundRecord == [order: Nat, from: Years, abolished: Years \cup {NULL}]

\* A node stands on the page with its parents.
ASSUME PlanScreensAssumption ==
  /\ Names = [AllFields -> Nat] /\ NULL \notin Nodes /\ NULL \notin FundRecord
  /\ Seeds \subseteq Nodes /\ \A n \in Seeds \ Goals : Home[n] \in Seeds
  /\ Funds \subseteq Nat /\ IsFiniteSet(Funds) /\ Plots \subseteq [may: [PageTabs -> SUBSET STRING], acts: Nat] /\ MaxCalls \in Nat

VARIABLES
  revised,   \* ir_sp_full_revision: the years whose plan was kept by a full revision
  target,    \* ir_sp_kpi_target of one year, by KPI
  fundRow,   \* ir_sp_fund_source: [order, from, abolished], or NULL
  pageTab,
  viewYear,  \* the year that is looked up, or NULL
  planTree,  \* the tree on the page, or NULL before the first load
  broken,    \* the page shows an error and nothing else
  snapshots, \* revisions: the years that can be looked up
  openNode,  \* openKey, openCode
  draft,     \* what the open editor holds, or NULL
  dialog,    \* the parent of the node that is being created, "goal" for a goal, or NULL
  fundList,  \* the rows of the funds tab
  calls,     \* requests under way, oldest first
  steps,     \* operations so far
  plot,      \* those that are tried
  hasty,     \* history: something was opened or looked up with a request under way
  wanted     \* history: what was last typed as the target of each KPI, or NULL

plan == <<row, versions, log, writes>>
services == <<plan, revised, target, fundRow>>
page == <<pageTab, viewYear, planTree, broken, snapshots, openNode, draft, dialog, fundList>>
psvars == <<services, page, calls, steps, plot, hasty, wanted>>

-----------------------------------------------------------------------------
(* What the services answer                                                *)

\* getTree
TreeOf(y) ==
  LET here == {n \in Stored : IF y = NULL THEN n \in Live ELSE Active(n, y)}
  IN [nodes |-> [n \in here |-> IF y = NULL THEN View(row[n]) ELSE CHOOSE v \in Shown(n, y) : TRUE],
      target |-> target]

\* Shown under its parent.
Hangs(t, n) == n \in DOMAIN t.nodes /\ ToSet(t.nodes[n].above) \subseteq DOMAIN t.nodes

\* listFundSources: all of them, or those of a year; by displayOrder and id.
FundsOf(y) ==
  LET rows == {f \in Funds : fundRow[f] # NULL
                 /\ (y # NULL => ActiveAt(fundRow[f].from, fundRow[f].abolished, y))}
      before(f) == {g \in rows : \/ fundRow[g].order < fundRow[f].order
                                 \/ fundRow[g].order = fundRow[f].order /\ g < f}
  IN [i \in 1..Cardinality(rows) |-> CHOOSE f \in rows : Cardinality(before(f)) = i - 1]

-----------------------------------------------------------------------------
(* What the page offers                                                    *)

ReadOnly == viewYear # NULL

\* busy: until the request is answered and the tree has been loaded after it.
BusyWith(c, ops) == c.op \in ops \/ (c.op = "load" /\ c.node \in ops)
Waiting(ops) == \E i \in 1..Len(calls) : calls[i].mine /\ BusyWith(calls[i], ops)
PageBusy == \E i \in 1..Len(calls) : BusyWith(calls[i], {"revise"})
Usable == planTree # NULL /\ ~broken

\* The nodes the structure tab and the KPI tab show.
Visible(n) == /\ Usable /\ Hangs(planTree, n)
              /\ n \in IF pageTab = "structure" THEN Nodes \ Kpis ELSE IF pageTab = "kpi" THEN Kpis ELSE {}

Slip_GoalOffers == {"open"} \cup (IF Waiting({"create"}) THEN {} ELSE {"create"})

\* GoalBlock: each head can be opened, and all but a subtask's has a button for a child.
GoalOffers == {"open"} \cup (IF ReadOnly \/ Waiting({"create"}) THEN {} ELSE {"create"})
StrategyOffers == {"open"} \cup (IF ReadOnly \/ Waiting({"create"}) THEN {} ELSE {"create"})
TaskOffers == {"open"} \cup (IF ReadOnly \/ Waiting({"create"}) THEN {} ELSE {"create"})
SubtaskOffers == {"open"}
KpiOffers == {"open"}
NodeOffers(n) ==
  IF n \in Goals THEN GoalOffers ELSE IF n \in Strategies THEN StrategyOffers
  ELSE IF n \in Tasks THEN TaskOffers ELSE IF n \in Subtasks THEN SubtaskOffers ELSE KpiOffers

\* A task in the KPI tab: one can be asked for while another is being created.
KpiGroupOffers == IF ReadOnly THEN {} ELSE {"create"}

\* An editor: the fields, and the buttons while it is not busy.
EditorOffers ==
  IF draft = NULL \/ ReadOnly THEN {}
  ELSE {"type"} \cup (IF Waiting({"update", "abolish"}) THEN {} ELSE {"save", "abolish"})

\* FullRevisionBar
RevisionOffers ==
  IF ~Usable \/ pageTab = "changes" \/ PageBusy THEN {}
  ELSE {"lookup"} \cup (IF ReadOnly THEN {"current"} ELSE {"revise"})

FundOffers == IF ~Usable \/ ReadOnly \/ Waiting({"fund", "move"}) THEN {} ELSE {"change", "move"}

-----------------------------------------------------------------------------
(* The administrator.  A dialog covers the page.                           *)

Try(op) == /\ op \in plot.may[pageTab] /\ steps < plot.acts /\ steps' = steps + 1
           /\ Len(calls) < MaxCalls /\ UNCHANGED plot

Asked(op) ==
  [op |-> op, node |-> NULL, text |-> NULL, letter |-> NULL, year |-> NULL, parent |-> NULL,
   view |-> viewYear, typed |-> {}, fresh |-> FALSE, mine |-> TRUE]
LoadOf(op, y) == [Asked(op) EXCEPT !.view = y]
Emit(cs) == calls' = calls \o cs

\* Nobody waits for the answers any more: what asked for them is gone.
Forsaken(cs, ops) == [i \in 1..Len(cs) |-> [cs[i] EXCEPT !.mine = @ /\ ~BusyWith(cs[i], ops)]]
EditorOps == {"update", "abolish"}
ManagerOps == EditorOps \cup {"create", "funds", "fund", "move", "rollback"}

Slip_Captured(t, n, fresh) ==
  [text |-> IF draft # NULL /\ DOMAIN draft.text = Fields(n) THEN draft.text
            ELSE [f \in Fields(n) |-> t.nodes[n].name[f]],
   letter |-> t.nodes[n].suffix, typed |-> {}, fresh |-> fresh]

\* The initial state of an editor: the node as the page shows it.
Captured(t, n, fresh) ==
  [text |-> [f \in Fields(n) |-> t.nodes[n].name[f]], letter |-> t.nodes[n].suffix, typed |-> {}, fresh |-> fresh]

\* The editor that was open is gone, and so is its draft.
ToggleEditor(n) ==
  /\ Try("open") /\ dialog = NULL /\ Visible(n) /\ "open" \in NodeOffers(n)
  /\ IF openNode = n THEN openNode' = NULL /\ draft' = NULL /\ UNCHANGED hasty
     ELSE /\ openNode' = n
          /\ draft' = Captured(planTree, n, calls = <<>> /\ ~ReadOnly /\ ~hasty)
          /\ hasty' = (hasty \/ calls # <<>>)
  /\ calls' = Forsaken(calls, EditorOps)
  /\ UNCHANGED <<services, pageTab, viewYear, planTree, broken, snapshots, dialog, fundList, wanted>>

Type(f) ==
  /\ Try("type") /\ dialog = NULL /\ "type" \in EditorOffers /\ f \in Fields(openNode)
  /\ draft' = [draft EXCEPT !.text[f] = steps + 1, !.typed = @ \cup {f}]
  /\ UNCHANGED <<services, pageTab, viewYear, planTree, broken, snapshots, openNode, dialog, fundList,
                 calls, hasty, wanted>>

TypeLetter(l) ==
  /\ Try("letter") /\ dialog = NULL /\ "type" \in EditorOffers /\ openNode \in Kpis
  /\ draft' = [draft EXCEPT !.letter = l, !.typed = @ \cup {"letter"}]
  /\ UNCHANGED <<services, pageTab, viewYear, planTree, broken, snapshots, openNode, dialog, fundList,
                 calls, hasty, wanted>>

EditorCall(op, y) ==
  [Asked(op) EXCEPT !.node = openNode, !.text = draft.text, !.letter = draft.letter, !.year = y,
                    !.typed = draft.typed, !.fresh = draft.fresh]

\* save, saveMeta
SaveEditor(y) ==
  /\ Try("save") /\ dialog = NULL /\ "save" \in EditorOffers
  /\ Emit(<<EditorCall("update", y)>>)
  /\ UNCHANGED <<services, page, hasty, wanted>>

AbolishOpen(y) ==
  /\ Try("abolish") /\ dialog = NULL /\ "abolish" \in EditorOffers
  /\ Emit(<<EditorCall("abolish", y)>>)
  /\ UNCHANGED <<services, page, hasty, wanted>>

\* ValueCell: saved when the cell is left, if it differs from the value the page has of
\* it; the page is not loaded again.
LeaveCell(v) ==
  /\ Try("target") /\ dialog = NULL /\ "type" \in EditorOffers /\ openNode \in Kpis
  /\ IF v = planTree.target[openNode] THEN UNCHANGED calls
     ELSE Emit(<<[Asked("target") EXCEPT !.node = openNode, !.text = v]>>)
  /\ wanted' = [wanted EXCEPT ![openNode] = v]
  /\ UNCHANGED <<services, page, hasty>>

OpenDialog(p) ==
  /\ Try("create") /\ dialog = NULL /\ Usable
  /\ IF p = "goal" THEN pageTab = "structure" /\ "create" \in GoalOffers
     ELSE IF pageTab = "structure" THEN Visible(p) /\ "create" \in NodeOffers(p)
     ELSE pageTab = "kpi" /\ p \in Tasks \cap DOMAIN planTree.nodes /\ "create" \in KpiGroupOffers
  /\ dialog' = p
  /\ hasty' = (hasty \/ calls # <<>>)
  /\ UNCHANGED <<services, pageTab, viewYear, planTree, broken, snapshots, openNode, draft, fundList,
                 calls, wanted>>

NewKind ==
  IF dialog = "goal" THEN Goals ELSE IF dialog \in Goals THEN Strategies ELSE IF dialog \in Strategies THEN Tasks
  ELSE IF pageTab = "structure" THEN Subtasks ELSE Kpis

SubmitDialog(n, y) ==
  /\ Try("create") /\ dialog # NULL /\ ~Waiting({"create"}) /\ n \in NewKind
  /\ Emit(<<[Asked("create") EXCEPT !.node = n, !.parent = dialog, !.year = y,
                                    !.text = [f \in AllFields |-> steps + 1]]>>)
  /\ UNCHANGED <<services, page, hasty, wanted>>

CloseDialog ==
  /\ dialog # NULL
  /\ dialog' = NULL
  /\ UNCHANGED <<services, pageTab, viewYear, planTree, broken, snapshots, openNode, draft, fundList,
                 calls, steps, plot, hasty, wanted>>

\* The manager of the other tab goes, with its editor.
ChangeTab(t) ==
  /\ Try("tab") /\ dialog = NULL /\ Usable /\ t # pageTab
  /\ pageTab' = t /\ openNode' = NULL /\ draft' = NULL /\ fundList' = <<>>
  /\ calls' = Forsaken(calls, ManagerOps) \o (IF t = "funds" THEN <<LoadOf("funds", viewYear)>> ELSE <<>>)
  /\ UNCHANGED <<services, viewYear, planTree, broken, snapshots, dialog, hasty, wanted>>

\* setViewYear, and the effects that follow it.
LookUp(y) ==
  /\ Try("view") /\ dialog = NULL
  /\ IF y = NULL THEN "current" \in RevisionOffers ELSE "lookup" \in RevisionOffers /\ y \in snapshots
  /\ y # viewYear
  /\ viewYear' = y
  /\ Emit(<<LoadOf("load", y), LoadOf("revisions", y)>>
          \o (IF pageTab = "funds" THEN <<LoadOf("funds", y)>> ELSE <<>>))
  /\ hasty' = (hasty \/ calls # <<>>)
  /\ UNCHANGED <<services, pageTab, planTree, broken, snapshots, openNode, draft, dialog, fundList, wanted>>

AskRevision(y) ==
  /\ Try("revise") /\ dialog = NULL /\ "revise" \in RevisionOffers
  /\ Emit(<<[Asked("revise") EXCEPT !.year = y, !.node = pageTab]>>)
  /\ UNCHANGED <<services, page, hasty, wanted>>

RollBack(e) ==
  /\ Try("rollback") /\ Usable /\ pageTab = "changes" /\ ~Waiting({"rollback"}) /\ e \in log
  /\ Emit(<<[Asked("rollback") EXCEPT !.node = e]>>)
  /\ UNCHANGED <<services, page, hasty, wanted>>

\* A new fund (f is not in the list), or one that goes; a new name is left out.
ChangeFund(f, y) ==
  /\ Try("fund") /\ pageTab = "funds" /\ "change" \in FundOffers
  /\ Emit(<<[Asked("fund") EXCEPT !.node = f, !.year = y,
                                  !.text = f \in ToSet(fundList) /\ fundRow[f].abolished = NULL]>>)
  /\ UNCHANGED <<services, page, hasty, wanted>>

\* handleMove: each of the two gets the other's index in the list.
MoveFund(i) ==
  /\ Try("move") /\ pageTab = "funds" /\ "move" \in FundOffers /\ i \in 1..(Len(fundList) - 1)
  /\ Emit(<<[Asked("move") EXCEPT !.node = i, !.text = <<fundList[i], fundList[i + 1]>>]>>)
  /\ UNCHANGED <<services, page, hasty, wanted>>

-----------------------------------------------------------------------------
(* Answers                                                                 *)

First1 == calls[1]
Answers(op) == calls # <<>> /\ First1.op = op
Rest == Tail(calls)

\* reload() of the render in which the button was pressed.
ThenReload ==
  calls' = Append(Rest, [LoadOf("load", First1.view) EXCEPT !.node = First1.op, !.mine = First1.mine])

\* An editor is mounted with its node and stays while the node does.  After an error the
\* manager of the tab is mounted anew; the dialog of the structure tab closes only now.
TreeArrives ==
  /\ Answers("load")
  /\ LET t == TreeOf(First1.view)
         there == openNode # NULL /\ Hangs(t, openNode)
     IN /\ planTree' = t
        /\ draft' = IF ~there THEN NULL ELSE IF draft = NULL THEN Captured(t, openNode, FALSE) ELSE draft
        /\ calls' = (IF there THEN Rest ELSE Forsaken(Rest, EditorOps))
                    \o (IF broken /\ pageTab = "funds" THEN <<LoadOf("funds", viewYear)>> ELSE <<>>)
  /\ dialog' = IF First1.mine /\ First1.node = "create" THEN NULL ELSE dialog
  /\ broken' = FALSE
  /\ UNCHANGED <<services, pageTab, viewYear, snapshots, openNode, fundList, steps, plot, hasty, wanted>>

RevisionsArrive ==
  /\ Answers("revisions") /\ calls' = Rest
  /\ snapshots' = revised
  /\ UNCHANGED <<services, pageTab, viewYear, planTree, broken, openNode, draft, dialog, fundList,
                 steps, plot, hasty, wanted>>

FundsArrive ==
  /\ Answers("funds") /\ calls' = Rest
  /\ fundList' = IF First1.mine THEN FundsOf(First1.view) ELSE fundList
  /\ UNCHANGED <<services, pageTab, viewYear, planTree, broken, snapshots, openNode, draft, dialog,
                 steps, plot, hasty, wanted>>

\* updateSpGoal .. updateSpKpi: the fields of the editor, typed or not.
Sent(c) == [f \in AllFields |-> IF f \in Fields(c.node) THEN c.text[f] ELSE row[c.node].name[f]]

EditSaved ==
  /\ Answers("update") /\ ThenReload
  /\ UpdateNode(First1.node, Sent(First1), First1.letter, First1.year)
  /\ UNCHANGED <<revised, target, fundRow, page, steps, plot, hasty, wanted>>

NodeAbolished ==
  /\ Answers("abolish") /\ ThenReload
  /\ AbolishNode(First1.node, First1.year) \/ AbolishKpi(First1.node, First1.year)
  /\ UNCHANGED <<revised, target, fundRow, page, steps, plot, hasty, wanted>>

TargetSaved ==
  /\ Answers("target") /\ calls' = Rest
  /\ target' = [target EXCEPT ![First1.node] = First1.text]
  /\ UNCHANGED <<plan, revised, fundRow, page, steps, plot, hasty, wanted>>

NodeCreated ==
  /\ Answers("create") /\ ThenReload
  /\ CreateNode(First1.node, First1.text, First1.parent, First1.year)
  /\ dialog' = IF First1.mine /\ pageTab = "kpi" THEN NULL ELSE dialog
  /\ UNCHANGED <<revised, target, fundRow, pageTab, viewYear, planTree, broken, snapshots, openNode, draft,
                 fundList, steps, plot, hasty, wanted>>

FundsRevised(y) ==
  fundRow' = [f \in Funds |-> IF fundRow[f] # NULL /\ fundRow[f].abolished = NULL
                              THEN [fundRow[f] EXCEPT !.abolished = y] ELSE fundRow[f]]

Slip_Revised ==
  /\ Answers("revise")
  /\ CASE First1.node = "structure" -> ReviseStructure(First1.year) /\ UNCHANGED fundRow
       [] First1.node = "kpi" -> ReviseKpis(First1.year) /\ UNCHANGED fundRow
       [] OTHER -> FundsRevised(First1.year) /\ UNCHANGED plan
  /\ revised' = revised \cup {First1.year - 1}
  /\ viewYear' = NULL
  /\ calls' = Append(Rest, LoadOf("revisions", NULL))
  /\ UNCHANGED <<target, pageTab, planTree, broken, snapshots, openNode, draft, dialog, fundList,
                 steps, plot, hasty, wanted>>

\* handleRevise: back to the current plan.
Revised ==
  /\ Answers("revise")
  /\ CASE First1.node = "structure" -> ReviseStructure(First1.year) /\ UNCHANGED fundRow
       [] First1.node = "kpi" -> ReviseKpis(First1.year) /\ UNCHANGED fundRow
       [] OTHER -> FundsRevised(First1.year) /\ UNCHANGED plan
  /\ revised' = revised \cup {First1.year - 1}
  /\ viewYear' = NULL
  /\ calls' = Rest \o <<LoadOf("revisions", NULL), [LoadOf("load", NULL) EXCEPT !.node = "revise"]>>
  /\ UNCHANGED <<target, pageTab, planTree, broken, snapshots, openNode, draft, dialog, fundList,
                 steps, plot, hasty, wanted>>

RolledBack ==
  /\ Answers("rollback") /\ ThenReload
  /\ Rollback(First1.node)
  /\ UNCHANGED <<revised, target, fundRow, page, steps, plot, hasty, wanted>>

NextFundOrder ==
  LET rows == {f \in Funds : fundRow[f] # NULL}
  IN IF rows = {} THEN 0 ELSE 1 + (CHOOSE n \in {fundRow[f].order : f \in rows} : \A f \in rows : fundRow[f].order <= n)

\* createFund, also of an abolished one of that name, or deleteFundSource.
FundChanged ==
  /\ Answers("fund") /\ calls' = Append(Rest, [LoadOf("funds", First1.view) EXCEPT !.mine = First1.mine])
  /\ First1.text = (fundRow[First1.node] # NULL /\ fundRow[First1.node].abolished = NULL)
  /\ fundRow' = [fundRow EXCEPT ![First1.node] =
       IF First1.text THEN [@ EXCEPT !.abolished = First1.year]
       ELSE [order |-> NextFundOrder, from |-> First1.year, abolished |-> NULL]]
  /\ UNCHANGED <<plan, revised, target, page, steps, plot, hasty, wanted>>

Slip_Placed(fs, i) == [f \in Funds |-> IF f = fs[1] THEN [fundRow[f] EXCEPT !.order = i] ELSE fundRow[f]]

Placed(fs, i) == [f \in Funds |-> IF f = fs[1] THEN [fundRow[f] EXCEPT !.order = i]
                                  ELSE IF f = fs[2] THEN [fundRow[f] EXCEPT !.order = i - 1] ELSE fundRow[f]]

FundMoved ==
  /\ Answers("move") /\ calls' = Append(Rest, [LoadOf("funds", First1.view) EXCEPT !.mine = First1.mine])
  /\ fundRow' = Placed(First1.text, First1.node)
  /\ UNCHANGED <<plan, revised, target, page, steps, plot, hasty, wanted>>

\* One of the two requests fails, so the list is not loaded.
FundHalfMoved ==
  /\ Answers("move") /\ calls' = Rest
  /\ \E f \in ToSet(First1.text) : fundRow' = [fundRow EXCEPT ![f] = Placed(First1.text, First1.node)[f]]
  /\ UNCHANGED <<plan, revised, target, page, steps, plot, hasty, wanted>>

\* Refused or unreachable.  Without its tree the page is an error, and what was on it is gone.
CallFails ==
  /\ calls # <<>>
  /\ broken' = (broken \/ First1.op = "load")
  /\ calls' = IF First1.op = "load" THEN Forsaken(Rest, ManagerOps) ELSE Rest
  /\ openNode' = IF broken' THEN NULL ELSE openNode
  /\ draft' = IF broken' THEN NULL ELSE draft
  /\ dialog' = IF broken' THEN NULL ELSE dialog
  /\ fundList' = IF broken' \/ (First1.op = "funds" /\ First1.mine) THEN <<>> ELSE fundList
  /\ snapshots' = IF First1.op = "revisions" THEN {} ELSE snapshots
  /\ wanted' = IF First1.op = "target" THEN [wanted EXCEPT ![First1.node] = NULL] ELSE wanted
  /\ UNCHANGED <<services, pageTab, viewYear, planTree, steps, plot, hasty>>

-----------------------------------------------------------------------------

\* There may have been a full revision of the funds.
PlanScreensInit ==
  /\ row = [n \in Nodes |-> IF n \in Seeds THEN Seeded(n, [f \in AllFields |-> 0]) ELSE NULL]
  /\ versions = [n \in Nodes |-> {}] /\ log = {} /\ writes = 0
  /\ revised \in {{}, {MinYear}} /\ target = [k \in Kpis |-> 0]
  /\ fundRow = [f \in Funds |-> [order |-> Cardinality({g \in Funds : g < f}), from |-> MinYear, abolished |-> NULL]]
  /\ pageTab = "structure" /\ viewYear = NULL /\ planTree = NULL /\ broken = FALSE /\ snapshots = {}
  /\ openNode = NULL /\ draft = NULL /\ dialog = NULL /\ fundList = <<>>
  /\ calls = <<LoadOf("load", NULL), LoadOf("revisions", NULL)>>
  /\ steps = 0 /\ plot \in Plots /\ hasty = FALSE /\ wanted = [k \in Kpis |-> NULL]

PlanScreensNext ==
  \/ \E n \in Nodes : ToggleEditor(n)
  \/ \E f \in AllFields : Type(f)
  \/ \E l \in Letters : TypeLetter(l)
  \/ \E y \in Years : SaveEditor(y) \/ AbolishOpen(y) \/ AskRevision(y)
  \/ \E v \in {0, steps + 1} : LeaveCell(v)
  \/ \E p \in Nodes \cup {"goal"} : OpenDialog(p)
  \/ \E n \in Nodes, y \in Years : SubmitDialog(n, y)
  \/ CloseDialog
  \/ \E t \in PageTabs : ChangeTab(t)
  \/ \E y \in Years \cup {NULL} : LookUp(y)
  \/ \E e \in log : RollBack(e)
  \/ \E f \in Funds, y \in Years : ChangeFund(f, y)
  \/ \E i \in 1..Len(fundList) : MoveFund(i)
  \/ TreeArrives \/ RevisionsArrive \/ FundsArrive \/ EditSaved \/ NodeAbolished \/ TargetSaved
  \/ NodeCreated \/ Revised \/ RolledBack \/ FundChanged \/ FundMoved \/ FundHalfMoved \/ CallFails

PlanScreensSpec == PlanScreensInit /\ [][PlanScreensNext]_psvars

-----------------------------------------------------------------------------

\* With nothing under way the page shows the plan of the year it names, or the current
\* one, unless something was looked up or opened while another request was under way.
TreeIsViewed ==
  calls = <<>> /\ ~broken /\ ~hasty => planTree.nodes = TreeOf(viewYear).nodes

\* An editor opened on the plan as it was sends back all of its fields, but what changes
\* in the current row is what was typed.
EditKeepsRest ==
  [][EditSaved /\ First1.fresh /\ ~hasty =>
       \A n \in {First1.node} :
         /\ \A f \in AllFields \ First1.typed : row'[n].name[f] = row[n].name[f]
         /\ "letter" \notin First1.typed => row'[n].suffix = row[n].suffix]_psvars

\* Although the service looks at no parent's state, the page keeps the live plan a tree,
\* as long as nothing is rolled back or opened while another request is under way.
PlanStaysTree == ~hasty /\ "rollback" \notin plot.may["changes"] => LivePlanIsTree

\* A fund moved in an up-to-date list changes places with its neighbour, and no other
\* does, as long as the places are those of the list.
FundMoveSwaps ==
  [][FundMoved /\ fundList = FundsOf(NULL)
       /\ First1.text = <<fundList[First1.node], fundList[First1.node + 1]>>
       /\ (\A i \in 1..Len(fundList) : fundRow[fundList[i]].order = i - 1) =>
     LET i == First1.node
     IN FundsOf(NULL)' = [fundList EXCEPT ![i] = fundList[i + 1], ![i + 1] = fundList[i]]]_psvars

\* PlanKpiManager.tsx:429, "yearly targets are saved when the cell is left": what was
\* typed last as a target is what is stored, with nothing under way.
TargetsStored ==
  calls = <<>> => \A k \in Kpis : wanted[k] # NULL => target[k] = wanted[k]

\* PlanStructureManager.tsx:264, "this screen always shows the latest plan": an editor
\* nothing was typed into shows the current row.
EditorShowsLatest ==
  calls = <<>> /\ ~hasty /\ ~broken /\ viewYear = NULL /\ draft # NULL /\ draft.typed = {} =>
    \A f \in Fields(openNode) : draft.text[f] = row[openNode].name[f]
=============================================================================
