------------------------------ MODULE MetricTree ------------------------------
(***************************************************************************)
(* The metric tree administrators arrange (TreeBuilder.tsx) and the        *)
(* service that stores it (metrics.service.ts).  A browser loads the tree, *)
(* moves metrics about on its copy and saves the copy; the service writes  *)
(* it row by row, without a transaction, whatever has happened to the      *)
(* registry since the copy was loaded.                                     *)
(***************************************************************************)
EXTENDS Absent, Naturals, FiniteSets

CONSTANTS
  Categories,  \* category ids
  Browsers,    \* administrators' browsers
  MaxMetric    \* bound: metric ids

MetricIds == 1..MaxMetric
Place == [cat : Categories, parent : MetricIds \cup {NULL}]

ASSUME TreeAssumption == MaxMetric \in Nat /\ NULL \notin Nat \cup Categories \cup Place

VARIABLES
  node,    \* ir_metric_registry: id -> [cat, parent] or NULL
  refs,    \* id -> the metrics its formula refers to, {} if it is not computed
  cats,    \* categories that exist
  nextId,  \* the sequence of metric_id
  view,    \* per browser: the copy of the tree it shows, or NULL
  saving,  \* per browser: ids its save has still to write
  alone,   \* history: browsers whose save nothing else has disturbed
  doomed   \* metrics a deletion is about to delete

tvars == <<node, refs, cats, nextId, view, saving, alone, doomed>>

Exists(m) == node[m] # NULL
Stored == {m \in MetricIds : Exists(m)}

-----------------------------------------------------------------------------
(* Registry                                                                *)

CreateCategory(c) ==
  /\ c \notin cats
  /\ cats' = cats \cup {c}
  /\ UNCHANGED <<node, refs, nextId, view, saving, alone, doomed>>

\* A parent must be in the same category.
ParentOk(c, p) == p # NULL => Exists(p) /\ node[p].cat = c

CreateMetric(c, p) ==
  /\ c \in cats /\ ParentOk(c, p)
  /\ nextId <= MaxMetric
  /\ node' = [node EXCEPT ![nextId] = [cat |-> c, parent |-> p]]
  /\ nextId' = nextId + 1
  /\ alone' = {}
  /\ UNCHANGED <<refs, cats, view, saving, doomed>>

\* updateMetric with a formula: over children only, and of at least one.
SetFormula(m, rs) ==
  /\ Exists(m) /\ rs # {}
  /\ \A r \in rs : Exists(r) /\ node[r].parent = m
  /\ refs' = [refs EXCEPT ![m] = rs]
  /\ UNCHANGED <<node, cats, nextId, view, saving, alone, doomed>>

\* S and what is under it, when up gives each metric's parent.
Subtree(up, S) ==
  {m \in MetricIds : \A T \in SUBSET MetricIds :
     S \subseteq T /\ (\A x \in DOMAIN up : up[x] \in T => x \in T) => m \in T}

StoredParents == [m \in Stored |-> node[m].parent]

\* deleteMetric and deleteCategory read what there is to delete, and then delete it.
StartDelete(S) ==
  /\ doomed = {} /\ S # {} /\ S \subseteq Stored
  /\ doomed' = Subtree(StoredParents, S)
  /\ UNCHANGED <<node, refs, cats, nextId, view, saving, alone>>

DeleteMetric(m) == StartDelete({m})
DeleteCategory(c) == c \in cats /\ StartDelete({m \in Stored : node[m].cat = c})

\* The database drops the metrics of a deleted category (CASCADE) and takes a
\* deleted parent out of its children (SET NULL).
Remaining(gone) ==
  [m \in MetricIds |->
     IF m \in gone \/ ~Exists(m) THEN NULL
     ELSE IF node[m].parent \in gone THEN [node[m] EXCEPT !.parent = NULL] ELSE node[m]]

FinishDelete ==
  /\ doomed # {}
  /\ node' = Remaining(doomed)
  /\ refs' = [m \in MetricIds |-> IF m \in doomed THEN {} ELSE refs[m]]
  /\ doomed' = {} /\ alone' = {}
  /\ UNCHANGED <<cats, nextId, view, saving>>

DropCategory(c) ==
  LET gone == {m \in Stored : node[m].cat = c}
  IN /\ c \in cats /\ doomed = {}
     /\ cats' = cats \ {c}
     /\ node' = Remaining(gone)
     /\ refs' = [m \in MetricIds |-> IF m \in gone THEN {} ELSE refs[m]]
     /\ alone' = {}
     /\ UNCHANGED <<nextId, view, saving, doomed>>

-----------------------------------------------------------------------------
(* TreeBuilder                                                             *)

\* nestMetrics: a metric whose parent is not in its category is shown as a root.
Nested(m) ==
  LET p == node[m].parent
  IN IF p # NULL /\ Exists(p) /\ node[p].cat = node[m].cat /\ p # m
     THEN node[m] ELSE [node[m] EXCEPT !.parent = NULL]

Load(b) ==
  /\ saving[b] = {}
  /\ view' = [view EXCEPT ![b] = [m \in Stored |-> Nested(m)]]
  /\ alone' = alone \ {b}
  /\ UNCHANGED <<node, refs, cats, nextId, saving, doomed>>

\* moveMetricsInTree: the marked metrics come out of the tree with all that is under
\* them and go to the top level of a category; a marked one under another stays there.
Slip_Moved(b, S, c) ==
  [m \in DOMAIN view[b] |->
     IF m \in S THEN [cat |-> c, parent |-> CHOOSE x \in MetricIds : x # m] ELSE view[b][m]]

Moved(b, S, c) ==
  LET up == [m \in DOMAIN view[b] |-> view[b][m].parent]
      Tops == {m \in S : up[m] = NULL \/ \A s \in S \ {m} : m \notin Subtree(up, {s})}
  IN [m \in DOMAIN view[b] |->
        IF m \in Tops THEN [cat |-> c, parent |-> NULL]
        ELSE IF m \in Subtree(up, Tops) THEN [view[b][m] EXCEPT !.cat = c]
        ELSE view[b][m]]

Move(b, S, c) ==
  /\ view[b] # NULL /\ saving[b] = {}
  /\ S # {} /\ S \subseteq DOMAIN view[b]
  /\ view' = [view EXCEPT ![b] = Moved(b, S, c)]
  /\ alone' = alone \ {b}
  /\ UNCHANGED <<node, refs, cats, nextId, saving, doomed>>

\* PUT /metrics/reorder with all rows of the copy.
Save(b) ==
  /\ view[b] # NULL /\ saving[b] = {} /\ DOMAIN view[b] # {}
  /\ saving' = [saving EXCEPT ![b] = DOMAIN view[b]]
  /\ alone' = IF \A d \in Browsers : saving[d] = {} THEN {b} ELSE {}
  /\ UNCHANGED <<node, refs, cats, nextId, view, doomed>>

\* One row of the loop in reorder, parents first.  A deleted metric matches no row; a
\* category or a parent that is gone breaks a foreign key and ends the request.
RowFits(b, m) ==
  /\ view[b][m].cat \in cats
  /\ view[b][m].parent # NULL => Exists(view[b][m].parent)

Slip_SaveRow(b) ==
  \E m \in saving[b] :
    /\ node' = IF Exists(m) /\ RowFits(b, m) THEN [node EXCEPT ![m].cat = view[b][m].cat] ELSE node
    /\ saving' = [saving EXCEPT ![b] = @ \ {m}]
    /\ alone' = alone \cap {b}
    /\ UNCHANGED <<refs, cats, nextId, view, doomed>>

SaveRow(b) ==
  \E m \in saving[b] :
    /\ view[b][m].parent \notin saving[b]
    /\ node' = IF Exists(m) /\ RowFits(b, m) THEN [node EXCEPT ![m] = view[b][m]] ELSE node
    /\ saving' = [saving EXCEPT ![b] = IF Exists(m) /\ ~RowFits(b, m) THEN {} ELSE @ \ {m}]
    /\ alone' = IF Exists(m) /\ ~RowFits(b, m) THEN {} ELSE alone \cap {b}
    /\ UNCHANGED <<refs, cats, nextId, view, doomed>>

-----------------------------------------------------------------------------

TreeInit ==
  /\ node = [m \in MetricIds |-> NULL]
  /\ refs = [m \in MetricIds |-> {}]
  /\ cats = Categories
  /\ nextId = 1
  /\ view = [b \in Browsers |-> NULL]
  /\ saving = [b \in Browsers |-> {}]
  /\ alone = {} /\ doomed = {}

TreeNext ==
  \/ \E c \in Categories : CreateCategory(c) \/ DeleteCategory(c) \/ DropCategory(c)
  \/ \E c \in Categories, p \in MetricIds \cup {NULL} : CreateMetric(c, p)
  \/ \E m \in MetricIds, rs \in SUBSET MetricIds : SetFormula(m, rs)
  \/ \E m \in MetricIds : DeleteMetric(m)
  \/ FinishDelete
  \/ \E b \in Browsers : Load(b) \/ Save(b) \/ SaveRow(b)
  \/ \E b \in Browsers, S \in SUBSET MetricIds, c \in Categories : Move(b, S, c)

TreeSpec == TreeInit /\ [][TreeNext]_tvars

-----------------------------------------------------------------------------

TreeTypeOK ==
  /\ node \in [MetricIds -> Place \cup {NULL}]
  /\ refs \in [MetricIds -> SUBSET MetricIds]
  /\ cats \subseteq Categories
  /\ nextId \in 1..(MaxMetric + 1)
  /\ \A m \in Stored : m < nextId /\ node[m].cat \in cats
                       /\ (node[m].parent # NULL => Exists(node[m].parent))
  /\ \A b \in Browsers : view[b] = NULL \/ \E D \in SUBSET MetricIds : view[b] \in [D -> Place]
  /\ \A b \in Browsers : saving[b] = {} \/ (view[b] # NULL /\ saving[b] \subseteq DOMAIN view[b])
  /\ alone \subseteq Browsers /\ doomed \subseteq MetricIds

\* No metric is its own ancestor, whatever stale copies are saved and however their
\* rows mix: otherwise nestMetrics would lose the whole circle from every screen, and
\* deleteMetricTree would never come back.
NoCycle ==
  \A S \in SUBSET Stored : S # {} => \E m \in S : node[m].parent \notin S

\* A save that nothing disturbs leaves exactly the tree the administrator saw.
SaveIsComplete ==
  \A b \in alone : \A m \in DOMAIN view[b] \ saving[b] : Exists(m) => node[m] = view[b][m]

\* "계산식에는 바로 아래 하위지표만 사용할 수 있습니다" (metric-formula.ts:168): a stored
\* formula is over children of its metric.
FormulaOverChildren ==
  \A m \in Stored : \A r \in refs[m] : Exists(r) /\ node[r].parent = m
=============================================================================
