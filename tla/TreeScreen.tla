------------------------------ MODULE TreeScreen ------------------------------
(***************************************************************************)
(* One pane of the metric builder (TreeBuilder.tsx, TreeBuilderPane): the  *)
(* tree a single administrator drags about on the screen, the work that is *)
(* not saved yet, and the order the service keeps.  What concurrent saves  *)
(* do to each other is MetricTree's subject.                               *)
(*                                                                         *)
(* Requests are handled one after the other, and an answer changes the     *)
(* screen when it is taken; the user goes on meanwhile.  Names are left    *)
(* out.                                                                    *)
(***************************************************************************)
EXTENDS Arrangement

CONSTANTS
  SourceTypes,         \* the panes that are opened
  MaxCat, MaxMetric,   \* bounds: ids
  Locked,              \* metrics with a calculation of their own
  May, MaxActs,        \* bounds: what the user tries on each pane, and how often
  MaxWire              \* bound: requests under way on each pane

ASSUME TreeScreenAssumption ==
  /\ MaxCat \in Nat \ {0} /\ MaxMetric \in Nat /\ MaxWire \in [SourceTypes -> Nat]
  /\ MaxActs \in [SourceTypes -> Nat]
  /\ SourceTypes \subseteq {"ALIMI", "INTERNAL", "MONITORING"} /\ Uncat \notin Int

Cats == 1..MaxCat
Metrics == 1..MaxMetric

\* A row of ir_metric_registry; no row is null.
RegistryRow == [cat: Cats \cup {Uncat}, order: Int, parent: Metrics \cup {NULL}]
ASSUME RegistryRowAssumption == NULL \notin RegistryRow

VARIABLES
  source,    \* sourceType of the pane
  catOrder,  \* ir_metric_category: displayOrder of each category, or NULL
  metricRow, \* ir_metric_registry: [cat, order, parent] of each metric, or NULL
  tree,      \* the tree on the screen
  dirty,     \* it has changes to save
  picked,    \* selectedIds, in the order they were ticked
  settings,  \* settingsMode
  editing,   \* the metric whose name is being edited, or NULL
  dialog,    \* the metric whose formula dialog is open, or NULL
  wire,      \* requests under way, oldest first
  acts       \* operations so far

screen == <<tree, dirty, picked, settings, editing, dialog>>
service == <<catOrder, metricRow>>
tsvars == <<source, catOrder, metricRow, tree, dirty, picked, settings, editing, dialog, wire, acts>>

-----------------------------------------------------------------------------
(* The service                                                             *)

StoredMetrics == {m \in Metrics : metricRow[m] # NULL}
StoredCats == {c \in Cats \cup {Uncat} : catOrder[c] # NULL}

\* nestMetrics: under its parent, if that is in the same category.
ShownUnder(m, p) ==
  /\ metricRow[m].parent = p /\ p \in StoredMetrics /\ metricRow[p].cat = metricRow[m].cat

\* getCategoryTree with the hidden ones.
StoredTree ==
  LET pos == [m \in StoredMetrics |-> metricRow[m].order]
  IN [order |-> Sorted(StoredCats \ {Uncat}, [c \in StoredCats \ {Uncat} |-> catOrder[c]]),
      items |-> [c \in StoredCats |->
                   Sorted({m \in StoredMetrics : metricRow[m].cat = c
                                                 /\ ~ShownUnder(m, metricRow[m].parent)}, pos)],
      under |-> [p \in StoredMetrics |-> Sorted({m \in StoredMetrics : ShownUnder(m, p)}, pos)]]

\* flattenMetricsForSave: category, place in its list and parent of each metric.
SavedRows(a) ==
  [m \in ItemsOf(a) |->
     LET c == CHOOSE h \in Groups(a) : m \in Nested(a, ToSet(a.items[h]))
         p == IF \E x \in DOMAIN a.under : m \in ToSet(a.under[x])
              THEN CHOOSE x \in DOMAIN a.under : m \in ToSet(a.under[x]) ELSE NULL
         list == IF p = NULL THEN a.items[c] ELSE a.under[p]
     IN [cat |-> c, order |-> (CHOOSE i \in 1..Len(list) : list[i] = m) - 1, parent |-> p]]

\* The index in the list on the screen, in which the system category comes first.
SavedCats(a) ==
  [c \in Groups(a) |->
     IF c = Uncat THEN -1
     ELSE (CHOOSE i \in 1..Len(a.order) : a.order[i] = c) - (IF Uncat \in Groups(a) THEN 0 ELSE 1)]

\* A row of a save that breaks a foreign key: its category or its parent is deleted.
Breaks(rows, m) ==
  /\ m \in StoredMetrics
  /\ rows[m].cat \notin StoredCats \/ (rows[m].parent # NULL /\ rows[m].parent \notin StoredMetrics)

\* Rows that may come before others: of a list the first ones, a parent before what is
\* under it.  Which list comes first is left open.
Leading(rows, D) ==
  \A m \in D : /\ rows[m].parent # NULL => rows[m].parent \in D
              /\ \A n \in DOMAIN rows :
                   rows[n].cat = rows[m].cat /\ rows[n].parent = rows[m].parent /\ rows[n].order < rows[m].order
                     => n \in D

Reorder(cats, rows) ==
  /\ catOrder' = [c \in DOMAIN catOrder |->
                    IF c \in DOMAIN cats /\ catOrder[c] # NULL THEN cats[c] ELSE catOrder[c]]
  /\ metricRow' = [m \in Metrics |->
                    IF m \in DOMAIN rows /\ metricRow[m] # NULL THEN rows[m] ELSE metricRow[m]]

\* One more than the largest place among the siblings.
NextPlace(S, pos) == IF S = {} THEN 0 ELSE 1 + (CHOOSE n \in {pos[x] : x \in S} : \A x \in S : pos[x] <= n)

InsertMetric(m, c, p) ==
  LET siblings == {x \in StoredMetrics : metricRow[x].cat = c /\ metricRow[x].parent = p}
  IN metricRow' = [metricRow EXCEPT ![m] =
       [cat |-> c, order |-> NextPlace(siblings, [x \in siblings |-> metricRow[x].order]), parent |-> p]]

\* With what is under it, in whatever category that is.
RowsUnder(S) ==
  {m \in StoredMetrics : \A T \in SUBSET StoredMetrics :
     S \subseteq T /\ (\A x \in StoredMetrics : metricRow[x].parent \in T => x \in T) => m \in T}

DropMetrics(S) == metricRow' = [m \in Metrics |-> IF m \in RowsUnder(S) THEN NULL ELSE metricRow[m]]

-----------------------------------------------------------------------------
(* What the pane offers                                                    *)

UnderWay(op, xs) == \E i \in 1..Len(wire) : wire[i].op = op /\ wire[i].x \in xs

NestedRows == UNION {ToSet(tree.under[m]) : m \in DOMAIN tree.under}

\* renderMetricRow
RowOffers(m) ==
  Pick(~settings /\ editing # m,
       {"pick"} \cup Pick(m \notin NestedRows /\ editing = NULL, {"drag"})
                \cup Pick(source = "MONITORING", {"add"} \cup Pick(m \notin Locked, {"formula"})))
  \cup Pick(editing = m /\ ~UnderWay("renameMetric", Metrics), {"rename"})
  \cup Pick(editing # m /\ ~UnderWay("deleteMetric", {m}),
            Pick(source # "ALIMI" /\ ~UnderWay("renameMetric", Metrics), {"edit"})
            \cup Pick(settings, {"hide", "delete"}))

\* renderCategoryBody
CategoryOffers(c) ==
  Pick(~settings, {"pick"} \cup Pick(c # Uncat, {"drag"}))
  \cup Pick(~settings /\ c # Uncat /\ ~UnderWay("renameCategory", Cats) /\ ~UnderWay("deleteCategory", Cats),
            {"rename"})
  \cup Pick(settings /\ ~UnderWay("deleteCategory", {c}), {"hide"} \cup Pick(c # Uncat, {"delete"}))
  \cup Pick(c # Uncat /\ source = "MONITORING", {"add"})

\* the pane itself
PaneOffers ==
  {"settings", "addCategory"} \cup Pick(dirty /\ ~settings /\ ~\E i \in 1..Len(wire) : wire[i].op = "save", {"save"})
  \cup Pick(picked # <<>>, {"bulk", "clear"})

-----------------------------------------------------------------------------
(* The user                                                                *)

Act(op) == op \in May[source] /\ acts < MaxActs[source] /\ acts' = acts + 1

Request(op, x, y) == [op |-> op, x |-> x, y |-> y]
LoadRequest == Request("load", NULL, NULL)

Send(r) == Len(wire) < MaxWire[source] /\ wire' = Append(wire, r)

TogglePick(m) ==
  /\ Act("pick") /\ "pick" \in RowOffers(m)
  /\ picked' = Toggled(picked, <<m>>)
  /\ UNCHANGED <<source, service, tree, dirty, settings, editing, dialog, wire>>

\* The category's metrics with all that is under them; not if it is empty.
TogglePickCategory(c) ==
  LET all == Flattened(tree, tree.items[c])
  IN /\ Act("pick") /\ "pick" \in CategoryOffers(c) /\ all # <<>>
     /\ picked' = Toggled(picked, all)
     /\ UNCHANGED <<source, service, tree, dirty, settings, editing, dialog, wire>>

ClearPicks ==
  /\ Act("pick") /\ "clear" \in PaneOffers
  /\ picked' = <<>>
  /\ UNCHANGED <<source, service, tree, dirty, settings, editing, dialog, wire>>

ApplyMove(ids, c, at) ==
  /\ tree' = MoveItems(tree, ids, c, at)
  /\ dirty' = TRUE /\ picked' = <<>>
  /\ UNCHANGED <<source, service, settings, editing, dialog, wire>>

BulkMove(c) ==
  /\ Act("bulk") /\ "bulk" \in PaneOffers
  /\ ApplyMove(picked, c, Len(tree.items[c]))

\* A row may be dropped at any place but its own.
Droppable(m, from, g, at) ==
  /\ m \in ToSet(tree.items[from]) /\ at \in 0..Len(DropRows(tree, m, g))
  /\ ~(from = g /\ tree.items[g][at + 1] = m)

DragMetric(m, from, g, at) ==
  /\ Act("drag") /\ "drag" \in RowOffers(m) /\ Droppable(m, from, g, at)
  /\ LET ids == Dragged(picked, m)
     IN ApplyMove(ids, g, DropIndex(tree, ids, from, g, at))

DragCategory(from, to) ==
  /\ Act("dragCategory") /\ from # to /\ "drag" \in CategoryOffers(tree.order[from + 1])
  /\ tree' = MoveGroup(tree, from, to)
  /\ dirty' = TRUE
  /\ UNCHANGED <<source, service, picked, settings, editing, dialog, wire>>

Save ==
  /\ Act("save") /\ "save" \in PaneOffers
  /\ Send(Request("save", SavedCats(tree), SavedRows(tree)))
  /\ UNCHANGED <<source, service, screen>>

AddCategory ==
  /\ Act("addCategory") /\ Send(Request("addCategory", Len(tree.order) + (IF Uncat \in Groups(tree) THEN 2 ELSE 1), NULL))
  /\ UNCHANGED <<source, service, screen>>

AddMetric(c, p) ==
  /\ Act("add") /\ IF p = NULL THEN "add" \in CategoryOffers(c)
            ELSE "add" \in RowOffers(p) /\ p \in Nested(tree, ToSet(tree.items[c]))
  /\ Send(Request("addMetric", c, p))
  /\ UNCHANGED <<source, service, screen>>

StartRename(m) ==
  /\ Act("rename") /\ "edit" \in RowOffers(m)
  /\ editing' = m
  /\ UNCHANGED <<source, service, tree, dirty, picked, settings, dialog, wire>>

\* Cancelled, or left as it was.
CancelRename ==
  /\ Act("rename") /\ editing # NULL /\ editing' = NULL
  /\ UNCHANGED <<source, service, tree, dirty, picked, settings, dialog, wire>>

RenameMetric(m) ==
  /\ Act("rename") /\ "rename" \in RowOffers(m)
  /\ Send(Request("renameMetric", m, NULL))
  /\ UNCHANGED <<source, service, screen>>

RenameCategory(c) ==
  /\ Act("renameCategory") /\ "rename" \in CategoryOffers(c)
  /\ Send(Request("renameCategory", c, NULL))
  /\ UNCHANGED <<source, service, screen>>

\* Which rows are hidden has no effect on the order; what matters is what a failure does.
HideCategory(c) ==
  /\ Act("hide") /\ "hide" \in CategoryOffers(c)
  /\ Send(Request("hideCategory", c, NULL))
  /\ UNCHANGED <<source, service, screen>>

HideMetric(m) ==
  /\ Act("hide") /\ "hide" \in RowOffers(m)
  /\ Send(Request("hideMetric", m, NULL))
  /\ UNCHANGED <<source, service, screen>>

DeleteMetric(m) ==
  /\ Act("delete") /\ "delete" \in RowOffers(m)
  /\ Send(Request("deleteMetric", m, Nested(tree, {m})))
  /\ UNCHANGED <<source, service, screen>>

DeleteCategory(c) ==
  /\ Act("deleteCategory") /\ "delete" \in CategoryOffers(c)
  /\ Send(Request("deleteCategory", c, NULL))
  /\ UNCHANGED <<source, service, screen>>

ToggleSettings ==
  /\ Act("settings")
  /\ settings' = ~settings
  /\ picked' = IF settings THEN picked ELSE <<>>
  /\ editing' = IF settings THEN editing ELSE NULL
  /\ UNCHANGED <<source, service, tree, dirty, dialog, wire>>

OpenFormula(m) ==
  /\ Act("formula") /\ "formula" \in RowOffers(m) /\ tree.under[m] # <<>>
  /\ dialog' = m
  /\ UNCHANGED <<source, service, tree, dirty, picked, settings, editing, wire>>

\* onSaved patches the row and announces the change, which every pane answers by a load.
CloseFormula(saved) ==
  /\ Act("formula") /\ dialog # NULL
  /\ dialog' = NULL
  /\ IF saved THEN Send(LoadRequest) ELSE UNCHANGED wire
  /\ UNCHANGED <<source, service, tree, dirty, picked, settings, editing>>

-----------------------------------------------------------------------------
(* Answers                                                                 *)

Head1 == wire[1]
Taken(op) == wire # <<>> /\ wire[1].op = op
Then(rs) == wire' = Tail(wire) \o rs

\* x: the parent whose first child was added, for which the formula dialog opens.
AnswerLoad ==
  /\ Taken("load") /\ Then(<<>>)
  /\ tree' = StoredTree /\ picked' = <<>>
  /\ dialog' = IF Head1.x # NULL /\ Head1.x \in StoredMetrics THEN Head1.x ELSE dialog
  /\ UNCHANGED <<source, service, dirty, settings, editing, acts>>

Slip_AnswerSave ==
  /\ Taken("save") /\ Then(<<>>)
  /\ Reorder(Head1.x, Head1.y)
  /\ dirty' = FALSE
  /\ UNCHANGED <<source, tree, picked, settings, editing, dialog, acts>>

AnswerSave ==
  /\ Taken("save") /\ Then(<<LoadRequest>>)
  /\ \A m \in DOMAIN Head1.y : ~Breaks(Head1.y, m)
  /\ Reorder(Head1.x, Head1.y)
  /\ dirty' = FALSE
  /\ UNCHANGED <<source, tree, picked, settings, editing, dialog, acts>>

\* The first row with a deleted category or parent ends the request; the rows before it
\* are stored.
SaveBreaks ==
  /\ Taken("save") /\ Then(<<>>)
  /\ \E m \in DOMAIN Head1.y : Breaks(Head1.y, m)
  /\ \E D \in SUBSET {m \in DOMAIN Head1.y : ~Breaks(Head1.y, m)} :
       /\ Leading(Head1.y, D)
       /\ Reorder(Head1.x, [m \in D |-> Head1.y[m]])
  /\ UNCHANGED <<source, screen, acts>>

AnswerAddCategory ==
  /\ Taken("addCategory") /\ Then(<<LoadRequest>>)
  /\ \E c \in Cats : /\ catOrder[c] = NULL /\ \A d \in Cats : d < c => catOrder[d] # NULL
                     /\ catOrder' = [catOrder EXCEPT ![c] = Head1.x]
  /\ UNCHANGED <<source, metricRow, screen, acts>>

\* The event makes the pane load, and the handler loads once more.
AnswerAddMetric ==
  /\ Taken("addMetric")
  /\ Head1.x \in StoredCats
  /\ Head1.y # NULL => Head1.y \in StoredMetrics /\ metricRow[Head1.y].cat = Head1.x
  /\ \E m \in Metrics \ StoredMetrics :
       (\A n \in Metrics \ StoredMetrics : m <= n) /\ InsertMetric(m, Head1.x, Head1.y)
  /\ Then(<<LoadRequest, Request("load", IF Head1.y \in Locked THEN NULL ELSE Head1.y, NULL)>>)
  /\ UNCHANGED <<source, catOrder, screen, acts>>

AnswerRenameMetric ==
  /\ Taken("renameMetric") /\ Then(<<>>)
  /\ editing' = NULL
  /\ UNCHANGED <<source, service, tree, dirty, picked, settings, dialog, acts>>

AnswerRenameCategory ==
  /\ Taken("renameCategory") /\ Then(<<LoadRequest>>)
  /\ UNCHANGED <<source, service, screen, acts>>

AnswerHide ==
  /\ Taken("hideMetric") \/ Taken("hideCategory")
  /\ Then(<<>>)
  /\ UNCHANGED <<source, service, screen, acts>>

Removed(S) ==
  [tree EXCEPT !.items = [c \in Groups(tree) |-> Without(tree.items[c], S)],
               !.under = [x \in DOMAIN tree.under \ Nested(tree, S) |-> Without(tree.under[x], S)]]

AnswerDeleteMetric ==
  /\ Taken("deleteMetric") /\ Then(<<>>)
  /\ Head1.x \in StoredMetrics
  /\ DropMetrics({Head1.x})
  /\ tree' = Removed({Head1.x})
  /\ picked' = Without(picked, Head1.y)
  /\ editing' = IF editing = Head1.x THEN NULL ELSE editing
  /\ UNCHANGED <<source, catOrder, dirty, settings, dialog, acts>>

AnswerDeleteCategory ==
  /\ Taken("deleteCategory") /\ Then(<<LoadRequest>>)
  /\ catOrder[Head1.x] # NULL
  /\ catOrder' = [catOrder EXCEPT ![Head1.x] = NULL]
  /\ DropMetrics({m \in StoredMetrics : metricRow[m].cat = Head1.x})
  /\ dirty' = FALSE
  /\ UNCHANGED <<source, tree, picked, settings, editing, dialog, acts>>

\* The service refuses, or cannot be reached: nothing is stored.
Fail ==
  /\ wire # <<>>
  /\ Then(IF Head1.op \in {"hideMetric", "hideCategory", "deleteMetric"} THEN <<LoadRequest>> ELSE <<>>)
  /\ tree' = IF Head1.op = "load" THEN Empty ELSE tree
  /\ UNCHANGED <<source, service, dirty, picked, settings, editing, dialog, acts>>

-----------------------------------------------------------------------------

TreeScreenInit ==
  /\ source \in SourceTypes
  /\ catOrder \in {[c \in Cats \cup {Uncat} |-> IF c = Uncat THEN u ELSE IF c <= 2 THEN c ELSE NULL] :
                     u \in {-1, NULL}}
  /\ metricRow \in {[m \in Metrics |-> IF m <= 3 THEN [cat |-> 1, order |-> 0, parent |-> NULL] ELSE NULL],
                    [m \in Metrics |-> IF m <= 3 THEN [cat |-> 1, order |-> 0, parent |-> IF m = 3 THEN 1 ELSE NULL]
                                       ELSE NULL]}
  /\ tree = Empty /\ dirty = FALSE /\ picked = <<>> /\ settings = FALSE
  /\ editing = NULL /\ dialog = NULL /\ wire = <<LoadRequest>> /\ acts = 0

TreeScreenNext ==
  \/ \E m \in DOMAIN tree.under : TogglePick(m) \/ StartRename(m) \/ RenameMetric(m)
                                  \/ HideMetric(m) \/ DeleteMetric(m) \/ OpenFormula(m)
  \/ \E c \in Groups(tree) : \/ TogglePickCategory(c) \/ BulkMove(c) \/ RenameCategory(c)
                             \/ HideCategory(c) \/ DeleteCategory(c)
                             \/ \E p \in DOMAIN tree.under \cup {NULL} : AddMetric(c, p)
  \/ \E m \in DOMAIN tree.under, c, g \in Groups(tree), at \in 0..MaxMetric : DragMetric(m, c, g, at)
  \/ \E from, to \in 0..(Len(tree.order) - 1) : DragCategory(from, to)
  \/ ClearPicks \/ Save \/ AddCategory \/ CancelRename \/ ToggleSettings
  \/ \E saved \in BOOLEAN : CloseFormula(saved)
  \/ AnswerLoad \/ AnswerSave \/ SaveBreaks \/ AnswerAddCategory \/ AnswerAddMetric \/ AnswerRenameMetric
  \/ AnswerRenameCategory \/ AnswerHide \/ AnswerDeleteMetric \/ AnswerDeleteCategory \/ Fail

-----------------------------------------------------------------------------

TreeScreenTypeOK ==
  /\ \A m \in StoredMetrics : metricRow[m].cat \in Cats \cup {Uncat}
  /\ dirty \in BOOLEAN /\ settings \in BOOLEAN /\ acts \in 0..MaxActs[source]
  /\ editing \in Metrics \cup {NULL} /\ dialog \in Metrics \cup {NULL}
  /\ ToSet(picked) \subseteq Metrics

\* With no request under way and nothing marked as unsaved, the screen shows the order
\* the service would give to anyone else, whatever was dragged, added, saved and deleted
\* before; or nothing, after a load that failed.  Where metrics are deleted, one request is
\* under way at a time.
CleanIsStored ==
  wire = <<>> /\ ~dirty => tree \in {StoredTree, Empty}

\* Dropped rows come to lie between the rows they were dropped between, in the order
\* they were picked; the other rows keep their order.  Not for several rows that go down
\* their own list, or past other picked rows.
DropExact ==
  \A m \in DOMAIN tree.under, from, g \in Groups(tree), at \in 0..MaxMetric :
    LET ids == Dragged(picked, m)
    IN "drag" \in RowOffers(m) /\ Droppable(m, from, g, at) /\ PlainDrop(tree, ids, m, from, g, at)
         => MoveItems(tree, ids, g, DropIndex(tree, ids, from, g, at)).items[g] = DropSeen(tree, ids, m, g, at)

\* "하위 지표 ${childCount}개와 원본 데이터도 함께 삭제되며 되돌릴 수 없습니다" (TreeBuilder.tsx:735):
\* the metrics that are deleted are those the question counted.
DeletesOnlyNamed ==
  [][AnswerDeleteMetric => {m \in Metrics : metricRow[m] # NULL /\ metricRow'[m] = NULL} \subseteq Head1.y]_tsvars

\* "같은 카테고리 내 다중 이동: 앞에 있던 선택 항목이 빠지면 삽입 인덱스 보정"
\* (TreeBuilder.tsx:562): the same of several rows that are dragged within their list.
DropCorrected ==
  \A m \in DOMAIN tree.under, g \in Groups(tree), at \in 0..MaxMetric :
    LET ids == Dragged(picked, m)
    IN "drag" \in RowOffers(m) /\ Droppable(m, g, g, at) /\ Len(ids) > 1
         => MoveItems(tree, ids, g, DropIndex(tree, ids, g, g, at)).items[g] = DropSeen(tree, ids, m, g, at)
=============================================================================
