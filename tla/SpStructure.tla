---------------------------- MODULE SpStructure ----------------------------
(***************************************************************************)
(* The tree of the strategic plan: goals, strategies, tasks, subtasks and  *)
(* KPIs, their version rows and the change log, under the administrator's  *)
(* operations, the rollback of a logged change and the two full revisions. *)
(*                                                                         *)
(* An action is one whole request, with its cascade to the live nodes      *)
(* below and its renumbering of KPIs.                                      *)
(***************************************************************************)
EXTENDS ItemVersions, FiniteSets, Sequences

CONSTANTS Goals, Strategies, Tasks, Subtasks, Kpis,   \* codes (primary keys)
          Home,        \* Home[n]: the parent the seed puts n under; the code of
                       \* a subtask or a KPI names its task, so they never move
          Letter,      \* Letter[k]: the letter at the end of KPI code k, as a number
          Names,
          MaxLetter,   \* the last letter of a KPI suffix: 26 in the code
          MaxWrites    \* bound: writing requests in a behaviour

Nodes == Goals \cup Strategies \cup Tasks \cup Subtasks \cup Kpis
Letters == 1..MaxLetter

ParentKind(n) == IF n \in Strategies THEN Goals
                 ELSE IF n \in Tasks THEN Strategies
                 ELSE IF n \in Subtasks \cup Kpis THEN {Home[n]} ELSE {}

\* A code is of one kind.
ASSUME KindsAssumption ==
  /\ Goals \cap (Strategies \cup Tasks \cup Subtasks \cup Kpis) = {}
  /\ Strategies \cap (Tasks \cup Subtasks \cup Kpis) = {}
  /\ Tasks \cap (Subtasks \cup Kpis) = {}
  /\ Subtasks \cap Kpis = {}
ASSUME TreeAssumption ==
  /\ \A n \in Nodes \ Goals : Home[n] \in Nodes
  /\ \A s \in Strategies : Home[s] \in Goals
  /\ \A t \in Tasks : Home[t] \in Strategies
  /\ \A n \in Subtasks \cup Kpis : Home[n] \in Tasks
  /\ MaxLetter \in Nat
  /\ \A k \in Kpis : Letter[k] \in Letters
  /\ \A j, k \in Kpis : Home[j] = Home[k] /\ Letter[j] = Letter[k] => j = k

VARIABLES row,         \* row[n]: the live row of n, NULL when not in its table
          versions,    \* versions[n]: the version rows of lineage n
          log,         \* the change log entries that hold a row to go back to
          writes       \* writing requests so far: the next versionId

vars == <<row, versions, log, writes>>

\* above: the ancestor codes the row stores, parent first (taskCode, strategyId,
\* goalId); a subtask stores its task only.  suffix and order (displayOrder)
\* matter for KPIs only.
Row == [name: Names, above: Seq(Nodes), suffix: Letters \cup {NULL}, order: Nat,
        from: Years, abolished: YearOrNull]

ASSUME RowAssumption == NULL \notin Row

Stored == {n \in Nodes : row[n] # NULL}
Live == {n \in Stored : row[n].abolished = NULL}
Under(n, p) == row[n].above # <<>> /\ Head(row[n].above) = p
LiveSiblings(k) == {j \in Live \cap Kpis : Home[j] = Home[k]} \ {k}

TypeOK ==
  /\ row \in [Nodes -> Row \cup {NULL}]
  /\ versions \in [Nodes -> SUBSET Version(Row)]
  /\ log \subseteq [node: Nodes, year: Years, before: Row]
  /\ writes \in Nat

SeedAbove(n) ==
  IF n \in Goals THEN <<>>
  ELSE IF n \in Strategies \cup Subtasks THEN <<Home[n]>>
  ELSE IF n \in Tasks THEN <<Home[n], Home[Home[n]]>>
  ELSE <<Home[n], Home[Home[n]], Home[Home[Home[n]]]>>

Seeded(n, name) ==
  [name |-> name, above |-> SeedAbove(n),
   suffix |-> IF n \in Kpis THEN Letter[n] ELSE NULL,
   order |-> IF n \in Kpis THEN Letter[n] - 1 ELSE 0,
   from |-> MinYear, abolished |-> NULL]

\* The seed: some nodes, parents included, without version rows.
Init ==
  /\ \E seeds \in SUBSET Nodes, name \in Names :
       /\ \A n \in seeds \ Goals : Home[n] \in seeds
       /\ row = [n \in Nodes |-> IF n \in seeds THEN Seeded(n, name) ELSE NULL]
  /\ versions = [n \in Nodes |-> {}]
  /\ log = {}
  /\ writes = 0

-----------------------------------------------------------------------------

Slip_SaveVersionsOldRow(new, type, y) ==
  /\ writes < MaxWrites
  /\ row' = [n \in Nodes |-> IF n \in DOMAIN new THEN new[n] ELSE row[n]]
  /\ versions' = [n \in Nodes |->
       IF n \in DOMAIN new
       THEN WriteVersion(versions[n], writes + 1, y, type[n],
                         IF type[n] = "create" THEN new[n] ELSE row[n], row[n])
       ELSE versions[n]]
  /\ log' = log \cup {[node |-> n, year |-> y, before |-> row[n]] :
                        n \in {m \in DOMAIN new : type[m] # "create"}}
  /\ writes' = writes + 1

\* What every request comes down to.  For each node it touches, new gives the
\* row it saves and type the kind of change: save, writeVersion, recordChange.
Save(new, type, y) ==
  /\ writes < MaxWrites
  /\ row' = [n \in Nodes |-> IF n \in DOMAIN new THEN new[n] ELSE row[n]]
  /\ versions' = [n \in Nodes |->
       IF n \in DOMAIN new
       THEN WriteVersion(versions[n], writes + 1, y, type[n],
                         IF type[n] = "abolish" THEN row[n] ELSE new[n], row[n])
       ELSE versions[n]]
  /\ log' = log \cup {[node |-> n, year |-> y, before |-> row[n]] :
                        n \in {m \in DOMAIN new : type[m] # "create"}}
  /\ writes' = writes + 1

SaveOne(n, new, type, y) == Save([m \in {n} |-> new], [m \in {n} |-> type], y)

SuffixFree(k, letter) == \A j \in LiveSiblings(k) : row[j].suffix # letter

\* The codes a new row copies from its parent.
Above(n, p) == IF n \in Goals THEN <<>>
               ELSE IF n \in Strategies \cup Subtasks THEN <<p>>
               ELSE <<p>> \o row[p].above

\* createGoal .. createKpi: a new node, or an abolished one brought back,
\* possibly under another parent.  The parent must exist, not be live.
CreateNode(n, name, p, y) ==
  /\ n \in Stored => row[n].abolished # NULL
  /\ n \notin Goals => p \in ParentKind(n) \cap Stored
  /\ n \in Kpis => SuffixFree(n, Letter[n])
  /\ LET siblings == {j \in Stored \cap Kpis : Home[j] = Home[n]}
         new == [name |-> name, above |-> Above(n, p),
                 suffix |-> IF n \in Kpis THEN Letter[n] ELSE NULL,
                 order |-> IF n \in Stored THEN row[n].order
                           ELSE IF n \in Kpis THEN Cardinality(siblings) ELSE 0,
                 from |-> y, abolished |-> NULL]
     IN SaveOne(n, new, "create", y)

\* updateNode: abolished or not.  A KPI may take a letter no live sibling has.
UpdateNode(n, name, suffix, y) ==
  /\ n \in Stored
  /\ suffix # row[n].suffix => n \in Kpis /\ suffix \in Letters /\ SuffixFree(n, suffix)
  /\ SaveOne(n, [row[n] EXCEPT !.name = name, !.suffix = suffix], "update", y)

\* abolishNode: the node and, level by level, the live nodes below it.
LiveBelow(parents) == {n \in Live : \E p \in parents : Under(n, p)}

Slip_CascadeStopsEarly(tops) ==
  LET second == LiveBelow(tops)
  IN tops \cup second \cup LiveBelow(second)

Cascade(tops) ==
  LET second == LiveBelow(tops)
      third == LiveBelow(second)
  IN tops \cup second \cup third \cup LiveBelow(third)

AbolishAll(nodes, y) ==
  Save([n \in nodes |-> [row[n] EXCEPT !.abolished = y]], [n \in nodes |-> "abolish"], y)

AbolishNode(n, y) ==
  /\ n \in Stored \ Kpis
  /\ AbolishAll(Cascade({n}), y)

Slip_SortsBeforeWithoutTieBreak(j, k) == row[j].suffix < row[k].suffix

\* compactKpiSuffixes: the letters of the live KPIs, closed up in the order of
\* suffix, displayOrder and code.
SortsBefore(j, k) ==
  \/ row[j].suffix < row[k].suffix
  \/ row[j].suffix = row[k].suffix /\ \/ row[j].order < row[k].order
                                      \/ row[j].order = row[k].order /\ Letter[j] < Letter[k]

CompactSuffix(k, live) == 1 + Cardinality({j \in live : SortsBefore(j, k)})

\* A KPI abolished on its own: its siblings close up, each as an update.
AbolishKpi(k, y) ==
  LET live == LiveSiblings(k)
      moved == {j \in live : CompactSuffix(j, live) # row[j].suffix}
  IN /\ k \in Stored \cap Kpis
     /\ Save([n \in {k} \cup moved |->
                IF n = k THEN [row[k] EXCEPT !.abolished = y]
                         ELSE [row[n] EXCEPT !.suffix = CompactSuffix(n, live)]],
             [n \in {k} \cup moved |-> IF n = k THEN "abolish" ELSE "update"], y)

\* rollback: the fields the payload of that kind gives back.  No look at the
\* parent, at the children or at the letters the siblings have by now.
Rollback(e) ==
  LET n == e.node
      new == [row[n] EXCEPT !.name = e.before.name,
                            !.suffix = e.before.suffix,
                            !.above = IF n \in Strategies THEN e.before.above ELSE @,
                            !.abolished = e.before.abolished]
  IN /\ e \in log
     /\ n \in Stored
     /\ SaveOne(n, new, "rollback", e.year)

\* fullRevise('structure') goes down from the live goals, fullRevise('kpi')
\* takes every live KPI and leaves the letters alone.
ReviseStructure(y) == AbolishAll(Cascade(Live \cap Goals), y)

ReviseKpis(y) == AbolishAll(Live \cap Kpis, y)

\* replaceSubtasks: the rows of the task are deleted and the given ones
\* inserted; no version row and no log entry tells.
ReplaceSubtasks(t, given, name) ==
  /\ t \in Stored \cap Tasks
  /\ writes < MaxWrites
  /\ given \subseteq {s \in Subtasks : Home[s] = t}
  /\ row' = [n \in Nodes |-> IF n \in given THEN Seeded(n, name)
                             ELSE IF n \in Subtasks /\ Home[n] = t THEN NULL
                             ELSE row[n]]
  /\ writes' = writes + 1
  /\ UNCHANGED <<versions, log>>

Create(y) == \E n \in Nodes, name \in Names, p \in Nodes : CreateNode(n, name, p, y)
Update(y) == \E n \in Nodes, name \in Names, s \in Letters \cup {NULL} : UpdateNode(n, name, s, y)
Abolish(y) == \E n \in Nodes : AbolishNode(n, y) \/ AbolishKpi(n, y)
Revise(y) == ReviseStructure(y) \/ ReviseKpis(y)

Next ==
  \/ \E y \in Years : Create(y) \/ Update(y) \/ Abolish(y) \/ Revise(y)
  \/ \E e \in log : Rollback(e)
  \/ \E t \in Tasks, given \in SUBSET Subtasks, name \in Names : ReplaceSubtasks(t, given, name)

Spec == Init /\ [][Next]_vars

-----------------------------------------------------------------------------
(* What getTree(year) shows.                                               *)

Active(n, y) ==
  n \in Stored /\ ActiveInYear(versions[n], y, row[n].from, row[n].abolished)

View(r) == [name |-> r.name, above |-> r.above, suffix |-> r.suffix]

Shown(n, y) ==
  IF ~Active(n, y) THEN {}
  ELSE LET overlay == OverlayPayload(versions[n], y)
       IN {View(r) : r \in IF overlay = {} THEN {row[n]} ELSE overlay}

-----------------------------------------------------------------------------
(* Administrators with discipline.                                         *)

\* Creates under live parents, edits live nodes only, never rolls back.
CarefulCreate(y) ==
  \E n \in Nodes, name \in Names, p \in Nodes :
    (n \in Goals \/ p \in Live) /\ CreateNode(n, name, p, y)

CarefulUpdate(y) ==
  \E n \in Live, name \in Names, s \in Letters \cup {NULL} : UpdateNode(n, name, s, y)

CarefulAbolish(y) == \E n \in Live : AbolishNode(n, y) \/ AbolishKpi(n, y)

EditFor(y) == CarefulCreate(y) \/ CarefulUpdate(y) \/ CarefulAbolish(y) \/ Revise(y)

\* Nothing was written for a later year.
NotBefore(y) == /\ \A e \in log : e.year <= y
                /\ \A n \in Nodes : \A v \in versions[n] : v.from <= y

-----------------------------------------------------------------------------
(* Properties of every behaviour.                                          *)

\* RowsAgree: the tree without a year and the open version row agree on what a node is
\* called, where it hangs and which letter it carries, and a live node has an
\* open row unless it is an untouched seed.  Subtasks are exempt: a replaced
\* list has no version rows of its own.
OpenMatchesRow ==
  \A n \in Nodes \ Subtasks : \A v \in OpenRows(versions[n]) :
    n \in Stored /\ View(v.payload) = View(row[n])

LiveIsBacked ==
  \A n \in Live \ Subtasks :
    OpenRows(versions[n]) # {} \/ (versions[n] = {} /\ row[n].from = MinYear)

RowsAgree == OpenMatchesRow /\ LiveIsBacked

\* PlanKpiManager.tsx:164, "the lowercase letters after it move up": after a
\* KPI is abolished its live siblings carry the first letters, each once, also
\* when a rollback had left two of them with the same letter.
AbolitionClosesUp ==
  [][\A k \in Kpis, y \in Years : AbolishKpi(k, y) =>
       {row'[j].suffix : j \in LiveSiblings(k)} = 1..Cardinality(LiveSiblings(k))]_vars

(* Properties of careful administrators.                                   *)

\* LivePlanIsTree: no live node hangs under an abolished one, so the cascade
\* leaves no orphan; and the goal and strategy codes copied into tasks and
\* KPIs are those of the parent, although nothing refreshes the copies when a
\* strategy moves.
ParentsLive == \A n \in Live \ Goals : \E p \in Live : Under(n, p)

AncestorsAgree ==
  \A n \in Live \cap (Tasks \cup Kpis) : \A p \in Stored :
    Under(n, p) => Tail(row[n].above) = row[p].above

LivePlanIsTree == ParentsLive /\ AncestorsAgree

\* Two live KPIs of a task never carry the same letter.
SuffixesDistinct ==
  \A j, k \in Live \cap Kpis :
    Home[j] = Home[k] /\ row[j].suffix = row[k].suffix => j = k

(* Properties of careful administrators who work forward.                  *)

\* YearPlanIsTree: the plan every year shows, past ones included, is a tree:
\* what a node shows as its parent in a year is in force in that year, and no
\* two KPIs of a task show the same display code.
YearTreeClosed ==
  \A n \in Nodes \ Goals, y \in Years : \A v \in Shown(n, y) : Active(Head(v.above), y)

YearCodesDistinct ==
  \A y \in Years, j, k \in Kpis : \A v \in Shown(j, y), w \in Shown(k, y) :
    Home[j] = Home[k] /\ v.suffix = w.suffix => j = k

YearPlanIsTree == YearTreeClosed /\ YearCodesDistinct

\* YearsKeptApart: PlanStructureManager.tsx:95, "data before the selected year is
\* left as it is": a request for year y, cascade and renumbering included, changes
\* the tree of no earlier year; and ir-sp-full-revision.entity.ts:11, "blank from
\* year n": after the revision of the structure for year y the tree is empty from y on.
PastKept ==
  \A y \in Years : NotBefore(y) /\ EditFor(y) =>
    \A n \in Nodes, x \in Years : x < y => Shown(n, x)' = Shown(n, x)

RevisionLeavesBlank ==
  \A y \in Years : NotBefore(y) /\ ReviseStructure(y) =>
    \A n \in Nodes, x \in Years : x >= y => Shown(n, x)' = {}
=============================================================================
