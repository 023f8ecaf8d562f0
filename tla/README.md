# A TLA+ project for ysubeans

`src/` is the decision-support web application of a college: a NestJS server on
PostgreSQL (`backend/`), a Next.js client (`frontend/`), and one-off tools
(`scripts/`, `_api_probe/`, `tmp-extract/`, the seeds). This directory holds TLA+
modules for its core logic, the TLC configurations that check them, and TLAPS
proofs. Paths below are relative to `src/`; *SP* is
`backend/src/modules/strategic-plan/`, *ST* is `SP/sp-structure.service.ts`, *PS*
is `SP/strategic-plan.service.ts`, *A* is `frontend/src/components/admin/`.

## 1. Inventory

### What the system is made of

| Component | State | Operations | Who calls it |
|---|---|---|---|
| Version rows (ST) | `ir_sp_item_version`: per lineage, payloads for intervals of school years | `writeVersion`, `activeInYear`, `overlayPayload`, `versionsFor` | every operation on the plan |
| Plan tree (ST) | goals, strategies, tasks, subtasks, KPIs; `ir_sp_change_log`; `ir_sp_full_revision` | create, update, abolish with cascade and KPI renumbering, rollback, full revision, `replaceSubtasks` | administrators |
| Fund sources (ST, PS) | `ir_sp_fund_source` and its version rows | create, rename, flag, abolish, rollback, full revision, start-up hook | administrators, server start |
| Workspace (PS) | `ir_sp_write_lock`, `ir_sp_task_budget`, `ir_sp_evaluation`, `ir_sp_kpi_result` | upserts, guarded by the completion flags | every logged-in user, at the same time |
| Rest of the plan (PS) | vision, comparison data, department list | single-row upserts, whole-table replacement | administrators |
| Plan client (`frontend/src/store/useStrategicPlanStore.ts`) | local copies, a debounce timer per field | edit, autosave, complete, copy last year's budgets, change of year | users |
| Plan administration (`A/StrategicPlanManager.tsx`, `A/strategic-plan`) | the tree on the screen, an open editor, a dialog, target cells | look at an earlier year, edit, abolish, create, revise, roll back, move funds | administrators |
| Internal organisation (`modules/internal-org`) | series, departments, office groups and offices with a second set of version rows | create, update, move, abolish, reorder, rollback | administrators; the plan asks for office names of a year |
| Organisation page (`A/InternalOrgManager.tsx`, `OfficeOrgManager.tsx`) | a year, a tab, the order on the screen | drag, save for a year | administrators |
| Annual events (`modules/annual-events`, `org-annual-event.ts`) | one note per year and category | hand edits; regenerated lines after each change of the organisation | administrators, the organisation's services |
| Public-disclosure batch (`modules/alimi`) | departments, metrics, raw values; batch status; an advisory lock | one run at a time, manual or by cron; retries; partial completion | cron, administrators |
| Raw data (`modules/upload`, `modules/raw-correction`) | `ir_raw_data`, audit log | workbook upload with skip/overwrite/locked years, correction, deletion | administrators |
| Metric registry (`modules/metrics`, `A/TreeBuilder.tsx`) | metrics, categories, formulas; a tree on the screen | self-repair, create, rename, hide, delete, drag, save | administrators; every screen that lists metrics |
| Formulas and monitoring board (`frontend/src/lib/monitoring`) | the fetched bundle, switches | type, store, evaluate; sources, bars, best and worst tenth | users |
| Pivot and target selection (`modules/pivot`, `modules/universities`) | none (reads) | fold a selection, table of rows and years, relative scale | dashboards |
| Dashboard store (`frontend/src/store/useDashboardStore.ts`) | conditions, presets, queries in flight | query, compare, apply a preset, reset, change of scope | users |
| Users, auth, mail, logs | one table each | sign-up with approval, password reset | users |

The components share one database and no in-memory state, except the status of
the batch and the client stores. Only uploads and corrections use a transaction, and
only the batch uses a lock: every other handler is a series of awaited statements.

### What is hard about it

* *Time as data.* An edit is made for a school year and may be backdated; what a
  year shows depends on the order of all writes. Rows, live rows and the log must
  tell the same story, twice over: for the plan and for the organisation.
* *Rollback* writes an old payload over whatever has happened since.
* *Cascades and renumbering* touch many nodes in one request.
* *Concurrency*: check-then-save and read-merge-save across awaits; parallel jobs that
  create the same metric; screens that repair the catalogue at the same time.
* *Stale copies*: a browser saves the tree it loaded, row by row, over what others did.
* *Crashes and failures*: a lock that belongs to a database session, a service that
  does not answer, a start-up hook that repairs live rows, a request of a screen
  that fails while its user goes on.
* *Client*: debounced saves that race changes of year and the completion button;
  queries that overtake each other; a drag whose index the library counts in
  another list than the code.
* *Arithmetic*: formulas typed, stored and typed again; averages of averages; labels
  that say where a value is from; the tenth of a handful.

`PROJECT.json` lists each hazard at its line with the properties that watch it.

## 2. Modules

| Module | Models | Code |
|---|---|---|
| `Absent` | The null of the code and the database. | |
| `ItemVersions` | The version rows of one lineage: pure operators for the reading side (`Covers`, `ActiveInYear`, `OverlayPayload`) and for `writeVersion`, cut into `CloseCurrent`, `Backfill`, `OpenFrom`. No variables. | ST, `org-versioning.service.ts` |
| `SpFunds` | Fund sources: live rows, version rows, log; one action per operation. | ST, PS |
| `FundTimeline` | Abstract specification: what each year lists; an edit is entered in a journal with its fund and year, shows in that year, and leaves earlier years and other funds alone. | |
| `SpStructure` | The tree: five kinds of node, cascade, renumbering, rollback, two full revisions, `replaceSubtasks`. | ST |
| `PlanScreens` | The administrator's page over `SpStructure`. | `A/StrategicPlanManager.tsx`, `A/strategic-plan/*`, `useStrategicPlanAdmin` calls |
| `SpWorkspace` | Concurrent saves of departments, IR centre and administrators for one task and year, cut at every await. | PS |
| `PlanStore` | The browser that sends such saves: timers, copies, late answers. | `useStrategicPlanStore.ts` |
| `OrgTree` | Series with departments, groups with offices, per year. | `internal-org.service.ts`, `office-org.service.ts`, `org-versioning.service.ts` |
| `OrgEvents` | The annual note and its generated lines under overlapping syncs. | `annual-events.service.ts`, `org-annual-sync.service.ts`, `org-annual-event.ts` |
| `Sublists` | What `Array.prototype.filter` does to a list, without recursion. | |
| `Arrangement` | Lists under groups and what a drag does to them; shared by the two next. | `A/TreeBuilder.tsx`, `A/InternalOrgManager.tsx` |
| `OrgScreens` | The organisation page in front of its services. | `A/OrgManager.tsx`, `A/InternalOrgManager.tsx`, `A/OfficeOrgManager.tsx` |
| `TreeScreen` | The metric builder in front of its service. | `A/TreeBuilder.tsx`, `metrics.service.ts` |
| `AlimiBatch` | `startBatch` cut at its awaits: guards, lock, retries, progress, status, crash. | `alimi.service.ts` |
| `AlimiIngest` | What the parallel jobs of a run store, sharing a map of promises. | `alimi.service.ts` |
| `RawDesk` | Uploads, corrections and renames that interleave. | `upload.service.ts`, `raw-correction.service.ts`, `metrics.service.ts` |
| `MonitoringCatalog` | The self-repair of the catalogue, run by several readers at once. | `metrics.service.ts` |
| `MetricTree` | Stale copies of the metric tree saved row by row. | `A/TreeBuilder.tsx`, `metrics.service.ts` |
| `FormulaRow` | The variables of a metric's stored formula: sub-metric labels, formula, whether it is on. | `metric-formula.ts` |
| `MetricFormula` | Formulas as token sequences: parser, stored and shown form, value, the dialog. | `lib/monitoring/formula.ts`, `metric-formula.ts`, `A/FormulaEditorDialog.tsx` |
| `MonitoringBoard` | A figure's value, source label, bars and bands. | `lib/monitoring/*` |
| `TargetTree` | Trees of targets, ticks, and the collapse of a selection. | `universities.service.ts`, `target-collapse.ts`, `targetSelection.ts` |
| `PivotRows` | The table of a query: buckets, members, averages. | `pivot.service.ts` |
| `RelativeScale` | Which targets are compared and on which scale. | `relativeCompare.ts`, `internalRelativeTargets.ts` |
| `AnalysisStore` | The dashboard store with queries in flight. | `useDashboardStore.ts` |

Theorems are in modules of their own, each over the module it names: `ItemVersions_proofs`
(lemmas only), `SpFunds_proofs`, `Plan_proofs` (the plan and its page), `Workspace_proofs`,
`Org_proofs`, `Alimi_proofs`, `Data_proofs` (registry, raw data, board), `Screens_proofs`
(the public comparison, the organisation page) (section 5).

An `MC` module composes components on small instances. Components that do not
interact share a run only to save start-up; they then play in *scenes*: a
variable fixed in the first state says which one moves, and the other keeps still.
(Components that do interact extend one another: `PlanScreens` acts on the plan of
`SpStructure` itself, `AnalysisStore` asks the tables of `PivotRows` for the
selections of `TargetTree`. `MonitoringBoard` shares the variables of `FormulaRow` with
`MetricFormula` and takes the evaluation of a formula as constants, which `MCBoard` fills
with the operators of `MetricFormula`: a board is proved for whatever a formula computes.)

### How they correspond to the code

**Version rows.** A row is `[id, from, to, type, payload]`; `to = NULL` is SQL
null, the open end. The table of a lineage is a *set* of rows; `ORDER BY
effectiveFrom DESC, versionId DESC` is the relation `Before`, and `First` is the
row `findOne` returns, as a set so that "no row" needs no special value. A request
writes at most two rows per lineage; they get the same `id`, which changes no
order because their years differ.

**Fund sources.** `row[f]` is the live row, `versions[f]` the lineage, `log` the
change log (a set: rollback picks any entry, and equal entries roll back equally).
Each handler ends in the same three writes, `save`, `writeVersion`,
`recordChange`; `Commit` is that. `updateNode` and `abolishNode` do not look at
`abolishedFrom`, so neither do `RenameFund` and `AbolishFund`. `RollbackFund`
restores every payload field but `effectiveFrom`. `Restart` is
`syncFundLiveIntervals`. The initial states are what the seed produces (no version
rows). `displayOrder` is left out here; the page's moves of it are in `PlanScreens`.

**Tree.** All five kinds live in one function `row`, with the field `above` for
the ancestor codes a row copies. `Save` is the common ending of all requests for
all the nodes they touch: in a cascade every node gets its own version row and log
entry with the row before. The recursion of `abolishNode` is four levels deep
and written as such. `compactKpiSuffixes` is `CompactSuffix`: the position of a
KPI among its live siblings in suffix, displayOrder, code order. Codes of subtasks
and KPIs contain their task, so their parent is the constant `Home`. Names stand
for all descriptive fields, which are written and rolled back together.

**Plan page.** The wire is a queue of requests the server has not answered; an answer
is one action that changes the plan (through `SpStructure`'s operations) and the
screen. What an editor captured when it was opened is kept apart from what the tree
says later, as the component does with its `useState`. A scene (`Plots`) names what
the administrator tries.

**Workspace.** A request is a record in `req`; it passes `assertUnlocked`
(`Admit`), reads its row (`Read`), and saves the merge of the row it read and
the fields of its body (`Save`). The three are separate actions because each sits
behind an `await`. `Saved` and `Deleted` are what TypeORM's `save` and `delete`
do to a row another request may have removed or replaced: update by the id
read, insert when it is gone, fail on the unique key. `Drop` is a request that
is refused later (unknown task, fund not usable) or dies with the process. In
`PlanStore` a value is the number of the edit that typed it and the year it was typed
for, so that a property can say which value ended where.

**Organisation.** A node *exists* in a year according to its live row, and is
*named and placed* in it according to the version row that covers the year; the two
are kept apart in `OrgTree` as in the services. A content of `OrgEvents` is the set of
remarks and of facts in it; wording is left out, but cutting the generated part
out of a text by its label is not: a remark on a labelled line is told from others.

**Batch.** `AlimiBatch` gives a process its memory (`activeBatch`, `status`) and the
database its lock; a crash empties the one and frees the other, and a lock session
may die alone. `AlimiIngest` has one job per university; a promise in
`metricLocks` is asked for, pending, kept or rejected.

**Registry.** `RawDesk` cuts a request where it has read and before its transaction.
`MonitoringCatalog` cuts `ensureMonitoringCatalog` at its awaits. `MetricTree` keeps
each browser's copy and the rows it still has to write.

**Formulas, boards and tables.** These are functions over data. TLC feeds them
all inputs of a small size, the way a user produces them: formulas by typing, tables by
uploading, selections by ticking. A formula text is its sequence of tokens; numbers
are fractions `[n, d]` where the code divides.

**Screens.** `Arrangement` says what the lists look like after a drag when the
library's drop index counts a list without the dragged row. `TreeScreen` and
`OrgScreens` add what is unsaved, what is under way, and which answers may fail. A save of
the metric tree goes row by row and stops at a row whose category or parent is gone by then;
the rows before it are stored (`SaveBreaks`).

Definitions named `Slip_...` are deliberate mistakes, each placed before the
definition it imitates. No specification uses them; they record which plausible
bug each property catches (section 4).

## 3. Checks

All runs set `CHECK_DEADLOCK FALSE`: every module bounds its edits, calls or
requests, and users are free to stop.

| Run | Module and scenes | Properties | Shows |
|---|---|---|---|
| `sp_funds` | `MCSpFunds` | `FundsSound`, `ClosedRowsKept`, `EditShowsInItsYear`, `ImplementsTimeline` | Any sequence of writes, rollbacks, revisions, restarts: one open row that agrees with the live row, an archive that only grows, an edit shows in its year; while administrators are disciplined (no edit of an abolished fund, no rollback) the store implements `FundTimeline`. |
| `sp_tree` | `MCSpStructure`: history, careful (`MCSpTree.cfg`) | `HistorySound`, `PlansAreTrees`, `AbolitionClosesUp`, `YearsKeptApart` | However carelessly edited, version rows and live rows agree. Edited with care the live plan is a tree with agreeing copies and distinct letters; edited forward in time so is every year's plan, and no edit reaches an earlier year. |
| `sp_workspace` | `MCSpWorkspace`: server, browser | `SoundTables`, `BudgetSettles`, `TypedKeepsYear`, `EditArrives` | Two requests in flight: a completed budget comes to rest, no result row is left without a value. A typed value is stored for the year it was typed for, and every edit reaches the server or an error message. |
| `alimi` | `MCAlimi`: batch, ingest | `OneSoundBatch`, `StatusIsTrue`, `MetricsTellRows`, `RunsEnd` | One batch at a time over all processes, a status that is true, no metric registered twice, and every batch and phase ends. |
| `data` | `MCData`: desk, catalog, tree | `DeskSound`, `CatalogKept`, `NoCycle`, `SaveIsComplete` | The audit log tells the value; no seed twice, none that was deleted comes back; no metric becomes its own ancestor; an undisturbed save is complete. |
| `org` | `MCOrg`: academic, offices, events | `SoundTrees`, `VersionsTellYears`, `SyncTellsLog` | A child has a head in every year; the last year shows the live rows and edits leave the past alone; an undisturbed sync tells the log. |
| `views` | `MCViews`: select, store, table | `CollapseKeepsUnits`, `TablesTellUnits`, `RelativeOfPivot`, `SpinnerEnds` | Folding loses and doubles no unit; targets asked together get what they get alone; the public comparison is of the table shown; loading ends. |
| `board` | `MCBoard`: type, dialog, bands, and six kinds of figure | `FormulaKept`, `SourceTellsValue`, `PlainBarsAreReal`, `TogglesAgree`, `BandsWithinTenth` | Formulas survive being stored and shown; labels are true; departments' bars are the departments'; the two ways a formula is added up agree; at most a tenth is best and a tenth worst. |
| `screens` | `MCScreens`: metrics, organisation | `CleanIsStored`, `DropExact`, `CleanIsYears`, `SavedShows` | A screen that says nothing is unsaved shows what is stored; drops land where they were dropped; a save stores the order seen. |
| `plan_screens` | `MCPlanScreens`: seven plots | `TreeIsViewed`, `PlanStaysTree`, `EditKeepsRest`, `FundMoveSwaps` | With nothing under way the page shows the year it names; it keeps the plan a tree although the services look at no parent's state; an editor changes only what was typed; two funds change places. |
| `plan_target` ✗ | `MCPlanScreens` (`MCPlanTargets.cfg`) | `TargetsStored` | A target set back to the value the page loaded is not saved. |
| `formula_regrouped` ✗ | `MCBoard` (`MCBoardRegrouped.cfg`) | `SavedMeansTyped` | a/(b/c), a-(b-c) and their like are stored without the parentheses. |

✗ marks a run that is expected to be violated: its one property is what a text
of the repository says, quoted under "findings" in `PROJECT.json`.

**Bounds, and why they are enough.**

For the properties that section 5 proves, the run is only a rehearsal: the theorem
holds for every instance. The bounds matter for the others.

| Run | Bounds |
|---|---|
| `sp_funds` | 2 funds, 2 names, 2022–2024, 3 versioned writes. Three years give one before, of and after an edit, all that `writeVersion` distinguishes; three writes let an edit be abolished or backdated and then rolled back or edited again. |
| `sp_tree` | a chain of all kinds with 3 KPIs (a gap or a tie in the renumbering needs three), 3 requests; two goals in the careful scene, so strategies move. |
| `sp_workspace` | 2 requests in flight, the least that race; one value and null tell same, different and empty. Browser: 2 cells, 2 years, `MaxEdits` 2, and one load, completion and failed request each. |
| `alimi` | 2 processes, 2 calls (a clicked one and the monthly one), 2 universities, 1 operation, `MaxAttempts` 2, one crash, one lost lock session; 2 parallel jobs, 1 name, at most 2 metrics (a duplicate would be the second). |
| `data` | 2 requests, readers and browsers; `MaxId` 3, `MaxMetric` 2, `MaxRows` 2, 2 seeds, one under the other. |
| `org` | 2022–2024, `MaxWrites` 4, one department and office, 2 series; 2 overlapping syncs of a note, one administrator, one remark. |
| `views` | 3 universities, 2 series with 3 departments, 2 years; `MaxEdits` 4, `MaxTicks` 4, 2 queries in flight; tables of up to 2 targets (`MaxRows`) over every raw table of a few values. |
| `board` | every formula of at most three levels; tables of a few values (two departments of one series and one of another, two years). |
| `screens` | metrics: 4 acts on the ALIMI pane and on MONITORING (with one request under way there), 5 on INTERNAL; organisation 3 to 5, by errand; else 2 requests under way; 4 metrics and 3 categories; 2 series with 3 departments, 2 years. |
| `plan_screens` | 4 to 6 acts by plot, 2 requests under way, one chain with 2 KPIs, 3 funds, 2 years. |

Symmetry is used in `sp_funds`, `data` and `org`, over funds, names, requests,
values, readers and browsers, none of which the properties tell apart; these runs
check no liveness.

**What discipline buys.** Several properties are about administrators who work with
some care, and the words for it are variables of the MC modules, not assumptions
about the code: `disciplined` (`sp_funds`), the scene `careful` and `forward`
(`sp_tree`), and in `OrgTree` the work that goes forward in time. Without it they
fail: TLC then finds orphans, repeated letters and rewritten years. `Patient`
(`OrgScreens`) says that the year is not changed while a save is under way;
with `FALSE`, `CleanIsYears` fails.

**Fairness.**

* `SpWorkspace`: weak fairness of `Read(r) \/ Save(r)`: Node resumes a handler whose
  query has been answered, and the database answers or the request fails (`Drop`).
* `PlanStore`: a timer that is set fires, and the server answers a request it has.
* `AlimiBatch`: weak fairness of each call's `Step`, except for a crash: every call
  of the service has a time limit, and its retries are counted. `AlimiIngest`: the
  same for the jobs of a phase and for its own labelling.
* `AnalysisStore`: weak fairness of `Answer(c)`: the client gives up on an answer
  after 30 s (`frontend/src/lib/api.ts:11`), so each call ends one way or the other.

Nothing forces a user to type, save, complete or start anything, and no crash,
failure or loss is fair.

## 4. Properties and the mistakes they catch

| Property | Mistake that breaks it |
|---|---|
| `FundsSound` | a row closed before it starts is kept (`CloseCurrent`); a renaming versions the row from before the edit |
| `ClosedRowsKept` | the latest row is closed, open or not |
| `EditShowsInItsYear` | rows sorted ascending |
| `ImplementsTimeline` | history backfilled with the new payload |
| `HistorySound` | the version gets the row from before the edit |
| `PlansAreTrees` | the cascade stops one level early |
| `AbolitionClosesUp` | no tie-break in the sort of the letters |
| `YearsKeptApart` | the open row is closed a year too early |
| `SoundTables` | an empty result is only deleted when a row was read |
| `BudgetSettles` | the check looks at the other flag |
| `TypedKeepsYear` | a save is for the year on the screen when its timer fires |
| `EditArrives` | the years of a field share one timer |
| `OneSoundBatch` | the advisory lock is not looked at |
| `StatusIsTrue` | a run in which all calls failed needs one failure more to be called failed |
| `MetricsTellRows` | a job does not wait for the promise another job has made |
| `RunsEnd` | the lock is given back only after a success |
| `DeskSound` | a second correction of a value is not logged |
| `CatalogKept` | every read may create missing seeds, not only the first |
| `NoCycle` | a moved metric may be hung under another |
| `SaveIsComplete` | a row is written without its parent |
| `SoundTrees` | the departments of an abolished series stay |
| `SyncTellsLog` | a note that says something else is left as it is |
| `VersionsTellYears` | the row before the edit is not versioned |
| `CollapseKeepsUnits` | what the row of a group stands for does not count as taken |
| `TablesTellUnits` | the university's value stands in for a single department without one |
| `RelativeOfPivot` | a comparison is stored without its table |
| `SpinnerEnds` | a failed table leaves `loading` set |
| `FormulaKept` | no parentheses around a sum in a quotient |
| `SourceTellsValue` | the disclosed total counts though one of its parts is switched off |
| `PlainBarsAreReal` | bars are shown whenever a department has a value, whether or not the university's stands in for it |
| `TogglesAgree` | terms are added whatever their coefficient |
| `BandsWithinTenth` | all values equal to the one at the border are marked |
| `CleanIsStored` | the tree is not loaded again after a save |
| `DropExact` | the index of a drop is used as it is |
| `CleanIsYears` | the year is not loaded again after a save |
| `SavedShows` | offices without a group are left out of the save |
| `TreeIsViewed` | after a revision only the list of revisions is loaded again |
| `PlanStaysTree` | a goal shown as of an earlier plan offers a new strategy |
| `EditKeepsRest` | an editor keeps the text of the node that was open before |
| `FundMoveSwaps` | only one of the two funds is given its place |

The exact mistakes are the `Slip_` definitions.

**Disagreements between the code and what its texts say.** Two have a run
(`plan_target`, `formula_regrouped`). Others showed up while modelling and have
none; they are told here and where they bite, some as definitions of the modules
that the code does not keep and no run checks (in parentheses).

* Editing an abolished fund rewrites the years before the edit (ST:347 against
  `A/strategic-plan/PlanFundSourceManager.tsx:241`); a full revision leaves rows of
  later years listed (ST:1525); a rollback can give two live KPIs one letter (ST:540).
* Of two concurrent completions one can be lost (PS:658); saves of the IR centre rewrite
  the departments' columns of an evaluation with stale copies (PS:785); clearing a
  cell without a row inserts an empty one (PS:888).
* A timer that fires after a change of year takes the rest of a row from the other
  year (`useStrategicPlanStore.ts:365`); answers of `setYear` are not told apart
  (`:270`); the copy of last year's budgets overwrites edits made meanwhile
  (`:445-503`); nothing is flushed when the page is left.
* Remarks on a labelled line of an annual note are lost (`RemarksKept`,
  `org-annual-event.ts:169`).
* A row uploaded between preview and save is overwritten unasked
  (`upload.service.ts:618`); a metric's name may find another one
  (`metrics.service.ts:932`); names with spaces cannot be typed in a formula
  (`formula.ts:35`); a formula of a metric is not bound to its children
  (`FormulaOverChildren`, `metric-formula.ts:168`).
* First use of a category or of the organisation's seeds can create them twice
  (`internal-org.service.ts:166`); a statistics item makes a closed department
  active again (`alimi.service.ts:919`).
* With parts missing, a figure shows no value of its own metric (`ParentValueShown`,
  `fetchMonitoringData.ts:821-830` against `A/FormulaEditorDialog.tsx:143-146`); a value
  for the university can be shown as departments' (`BarsAreReal`, `aggregate.ts:61`);
  where members are summed a comment says average (`pivot.service.ts:213`).
* The order of an earlier year is compared with the live row (`SavedShowsForYear`);
  the drop of several rows can land one off (`A/TreeBuilder.tsx:562`); a child that the
  screen has not loaded is deleted with its parent (`A/TreeBuilder.tsx:735`); unsaved
  moves are lost when the tree is loaded again.
* An editor on the plan page shows what it captured, not what a rollback restored
  (`EditorShowsLatest`, `A/strategic-plan/PlanStructureManager.tsx:264`); a page
  whose load failed has no way to try again; the manager of task departments is
  reached from nowhere.
* In a query the server folds against the public tree, whichever scope is asked for
  (`target-collapse.ts:270`), and no screen asks it to fold; an older query's answer can
  overwrite a newer one's, and a reset does not cancel a query under way.

## 5. Proofs

A theorem is about the specification its run checks (the `MC` module's, scenes
included) or about the component's own, which that implies, with the constants left open:
any sets of nodes, names, requests and browsers, any range of years, any bound on writes.
33 of the 40 properties of the runs are proved.

| Property | Theorem | Module |
|---|---|---|
| `FundsSound` | `FundsStaySound` (from `TypeCorrect`; parts: `OneOpenRow`, `OpenRowIsTheLiveRow`, `LiveFundIsBacked`) | `SpFunds_proofs` |
| `ClosedRowsKept` | `ArchiveOnlyGrows` | |
| `EditShowsInItsYear` | `EditsShow` | |
| `ImplementsTimeline` | `StoreIsATimeline` | |
| `HistorySound` | `HistoryIsSound` (from `RowsAlwaysAgree`) | `Plan_proofs` |
| `PlansAreTrees` | `PlansStayTrees` | |
| `AbolitionClosesUp` | `LettersCloseUp` | |
| `YearsKeptApart` | `YearsStayApart` | |
| `TreeIsViewed` | `PageShowsPlan` | |
| `EditKeepsRest` | `EditsKeepRest` | |
| `PlanStaysTree` | `PageKeepsTree` | |
| `FundMoveSwaps` | `MovedFundsSwap` | |
| `SoundTables` | `TablesStaySound` | `Workspace_proofs` |
| `TypedKeepsYear` | `TypedStaysInItsYear` | |
| `SoundTrees` | `TreesStaySound` | `Org_proofs` |
| `VersionsTellYears` | `YearsAreTold` | |
| `SyncTellsLog` | `NotesTellLog` | |
| `OneSoundBatch` | `BatchRunsAlone` | `Alimi_proofs` |
| `StatusIsTrue` | `StatusStaysTrue` | |
| `MetricsTellRows` | `MetricsStayTold` | |
| `DeskSound` | `DeskStaysSound` | `Data_proofs` |
| `CatalogKept` | `CatalogStaysKept` | |
| `NoCycle` | `NoCycleAlways` (from `OlderParentsAlways`) | |
| `SaveIsComplete` | `SaveIsCompleteAlways` | |
| `SourceTellsValue` | `LabelsStayTrue` | |
| `PlainBarsAreReal` | `BarsStayReal` | |
| `BandsWithinTenth` | `TenthsStayTenths` | |
| `RelativeOfPivot` | `ComparisonIsOfTable` | `Screens_proofs` |
| `TablesTellUnits` | `TablesStayTold` | |
| `CleanIsYears` | `PageShowsYear` | |
| `SavedShows` | `SavesShow` (from `OrderInv`) | |
| `DropExact` | `DropsLand` | |
| `CleanIsStored` | `CleanStays` (from `CleanInv`) | |

### The arguments

**`ItemVersions_proofs`** has no theorems of its own but the lemmas the plan and the
organisation share: `WriteVersionType` (no row is closed before the first year),
`WriteVersionOpen` (if at most one row is open before `writeVersion`, the open rows
after it are exactly the one it inserted), `WriteVersionKeepsClosed`, and what a
year shows after the write: the payload just written in its own year, what it
showed before in an earlier one. It also has what several proofs need of lists: a finite
set in a strict total order has its places 0, 1, ... (pigeonhole), and a list that is
filtered keeps its members and their order.

**Funds.** None of the parts of `RowsAgree` is inductive alone: that the open row
agrees with the live row survives a write only if the row just opened is the only open
one. Their conjunction is, given `TypeOK`. `EditsShow` follows because the row just
written comes first, in `Before`, of all that cover its year. For the refinement
the invariant adds `Bookkeeping` (ids of rows lie behind the counter) and, while
`disciplined` holds, `WellEdited`: what a lineage and its live row must look like so
that a backdated edit and `syncFundLiveIntervals` find what they expect. Every step that
leaves `disciplined` true is then a step of `FundTimeline` or leaves its variables
alone: an edit fills the years it covers in the journal and no others, a restart stutters.

**Plan.** `HistoryInv` holds in any scene: well formed rows, one open row that
agrees with the live row, letters only on KPIs. A cascade or revision saves many nodes at
once; `Save` works node by node, so the lemmas on one lineage suffice. `LettersCloseUp`
needs that `compactKpiSuffixes` ranks the live siblings without ties: the number
of siblings before a KPI in a strict total order runs through 0, 1, ..., and no
letter is left out (pigeonhole). For trees the careful scene has `CarefulInv`, what
each lineage looks like when nothing but careful work touched it (`LineageOK`), and
`TreeInv`: parents are of the right kind, live nodes have live parents, siblings
different letters. Moves of strategies copy codes into everything under them, so the
copies agree. That a past year keeps its plan while work goes forward follows because
every row a forward request writes starts at its year or later.

**Workspace.** `SoundTables` is close to inductive, with the bodies that requests may
carry. `TypedKeepsYear` is not: what is stored for a year came from a timer, a copy or
an answer under way. `StoreInv` follows an edit along the way (`OnTheWay`): a waiting
edit, a request, an answer and the copy shown each belong to the year they were made for.

**Organisation.** `OrgTypes` gives `YearsAreTold` its first half: the open row, if there
is one, agrees with the live row, so the last year shows it, also after a rollback.
While work goes forward, `ForwardInv` adds that nothing is later than the latest year
edited (`NothingLater`), that in the live tree every department and grouped office
has a head (`Upheld`), and that in each year's tree its head exists (`Headed`). For the
annual note, `EventsInv` keeps for the one sync that nothing disturbs (`alone`) what it has
read and what it will write (`Undisturbed`).

**Batch.** Over any number of servers `LockInv` says that the holder of the lock
is running and, while no session was lost, that whoever runs holds it; two running
calls would be one. `AllHonest` says at each phase what the status to be saved has to be
based on. For the jobs, `IngestInv` says of each promise in the map who will keep it
(`OneOwner`): between asking for a name and creating the metric at most one job
has the name in hand, hence `MetricOnce`. A run that ends has labelled what it found.

**Board.** The board may show anything between its two answers, so each claim is about
what is shown once both are there. `BoardInv` says the answers hold numbers or nulls for the
uploads and links they were asked for, and `YearsInv` that the year shown is one of the plan's.
A label and the value beside it are computed by different functions
(`valueSourceAt` and `composeHierarchy`); `LabelsAreTrue` follows because both ask the
same two questions, whether the disclosed value counts and whether it is there, by kind of
figure. For students and accounts it takes that a sum over a finite set exists and is a number
(`SumIsNumber`), which the library does not say: the folds are chosen functions, and that
one can be chosen is shown by a smallest set without. `PlainBarsAreReal` rests on
`hasHierarchyData`: where only the university has a value the same value would stand at
each department, and then no department's bar is shown. The tenths are a count:
the values at the border are marked only if all that tie with them fit (`FewAreAtTheTop`).

**Comparison.** On the public screen the comparison is stored by the table's answer and
by nothing else, but the targets it was computed for may have been changed since and a second query
may be under way. `PublicInv` says of each query what selection it was sent with, and of what is shown,
that table and comparison came with one answer; it is proved for every tree of universities,
with lists taken through the filters of `Sublists`.

**Tables.** What a row shows must not depend on what else is asked for, although the rows of
one query share its buckets: a department asked for twice gets its number twice, and a university's value is
copied once for each row that asks. `ToldOf` is what the store alone tells of a target; `ValueTells` shows that
every bucket holds one number, as often as it is asked for, and that its aggregate is that number for a sum or a mean
(a sum, because the boxes of a tree have keys of their own, so no department is asked for twice). The relative scale
is about sums over finite sets, which the library does not bound: `SumBuilds` adds one element,
`SumBounds` puts the sum between the least and the greatest value times the number of rows, hence the two reaches
above and below the mean are not negative and vanish together (`ReachIs`), and rows stand on the
scale in the order of their values (`StandsInOrder`).

**Organisation page.** For a page that shows nothing unsaved to show its year, the load it
waits for must be of that year, and every save under way must be followed by a load. The invariant
says so of each of the two screens behind the page (series, offices), request by request. It needs `Patient`: while a
save is under way the year is not changed; otherwise the save's answer loads the other
year's rows under a page that names this one.

`SavedShows` compares two lists of different origin: the order on the screen, which gestures
made, and the order of the year, which the service gets by sorting rows. `OrderInv` says that
no tree shown or sent names a node twice and that every row of a save is the place of its node
in the tree sent (`RowsTell`: first the heads, then the members of each, with ranks that ascend in
each list). Of the database it has, like the organisation's `ForwardInv`, that the last
version of a node tells what its live row tells, and that while work goes forward no version is later than the last
year written (`NodesOK`). After the save the rows of a list therefore carry ascending ranks in the year
it was made for, and a list with ascending ranks is the sorted one (`AscendingIsSorted`): at each
place stands the node that has as many before it, by counting.

**Tree screen.** `DropExact` is about one step, from any tree the screen can get into, so the
work is in `TreeInv`: each metric of the pane lies in the list of a category or beneath another
metric, and one that is nested lies nowhere else; a load finds such a tree whatever is stored.
It has to be shown of each gesture, save and load. A drop
removes what was picked by filtering each list and inserts it at one place. A list that is
cut, filtered on both sides and joined around what was dropped keeps the others' order, and
the corrected index is the number of rows that stay and lay before the drop, also when picked
rows above it leave the same list.

For `CleanIsStored`, `CleanInv` says that what is not marked as unsaved is what is stored or a load
is under way, and that a save under way is the only one and either belongs to work still marked or
comes before a load. That is enough on every pane where nothing is deleted, however requests overlap. A delete
changes the two sides by different means: the screen takes one name out of its lists, the table loses the
row and all below it. They agree if the stored tree has nothing below the deleted row that
the screen does not show below it, so there the invariant adds `Upright` (every stored parent is of its child's
category and every stored row is reached from a root) and `Fits` (the tree on the screen
nests nothing but what is stored there, with all its children, in categories that are stored). A save of a tree that fits meets no missing
category, so it is never left half done, and stores an upright tree again; that a sorted list without one
row is the sorted list of the rest (`SortedWithout`) makes the screen's list the one a load would
give.

**Desk, catalogue, tree.** `DataInv` is the conjunction of three invariants, one per
scene. `DeskInv`: what a request has read is still of a form its transaction can
use, and a transaction that writes a corrected value writes the audit log
with it, whatever was read before. `CatalogInv`: unless two requests have started on an
empty catalogue, the one that may create is alone (`FillsAlone`) and what it creates is
not there (`CreatesMissing`); what is to be pruned has no values but late ones
(`PrunesEmpty`). That a free id is left for a new row is a pigeonhole argument.
`NoCycle` is not inductive: two browsers could each save one half of a circle from
a stale copy. What rules it out is that a parent is *older* than its child, in the
registry, in every copy and in every save under way, because ids are handed out in
order and no gesture of the screen hangs a metric under another (`OlderParents`).
From it, a set of metrics closed under taking the parent would have no oldest
member. `SaveIsComplete` is proved from an invariant on what is still to be written.

**Plan page.** The page is a client of the plan: every step of it is a step of
`SpStructure` or leaves the plan alone (`PageFollowsPlan`), so the invariants proved of
the plan hold behind the page too (`PageKeepsRows`) and the lemmas on `Save` apply to what
its requests write. `PageInv` types what the page shows and what it has sent.
`MeantInv` says, while the administrator is not hasty, that each request in the queue
still means what the page showed when it was sent: its node is there and holds what the
form showed, and no request queued before it will change that (`After`). The same is said of the open draft and the open dialog. From it a reload shows
the year asked for (`TreeIsViewed`), and a saved form changes the fields typed and no
others (`EditKeepsRest`). `PlanStaysTree` needs in addition that an edit and a cascade
of archiving keep a tree a tree, which the proofs of the plan show for a save of many nodes. For
the funds, the list is sorted by order and id, a strict total order on a finite set: the
places run through 0, 1, ... (pigeonhole), and rows whose orders are 0, 1, ... have only
one list (`SortedIsListed`). A move swaps two orders, hence two entries, provided that what
it was sent for is still stored, which `FundsInv` says of everything in the queue.

### What the proofs assume

Each assumption is named in the module that declares the constants; TLC evaluates them
on the instances of the runs.

* *Years and null* (`YearsAssumption`, `NullAssumption`, and `RowAssumption`,
  `OrgRowAssumption`, `FundsAssumption`, parts of the others): years are a non-empty
  range of naturals, and null is no number, row, code or id. SQL null and `null` of
  the language are values of their own.
* *The organisation page* (`OrgScreensAssumption`, `PlaceAssumption`): ids are finitely many naturals, heads
  and members are different nodes (each kind has its table), there is a series and a group to
  begin with, and no live row is null.
* *Bounds* are naturals (`WritesAssumption`, `PlanStoreAssumption`, `EventsAssumption`,
  `Assumption`, `IngestAssumption`), requests are finitely many (`ValuesAssumption`,
  `DeskAssumption`).
* *Kinds* are disjoint (`KindsAssumption`, `OrgAssumption`): each has a table of its own;
  the parent that a code contains is of the kind above (`TreeAssumption` of `SpStructure`).
* *Seeds* name their parent after it (`SeedAssumption`), as the list in
  `metrics.service.ts` does. The university is no department (`DeskAssumption`).
* *The page* (`PlanScreensAssumption`): the names a form offers are numbers, the nodes of the seed
  stand with their parents, fund ids are finitely many naturals; null is no node and no fund's row.
* *The board* (`BoardAssumption`): finitely many years and departments, the university is no
  department, values are numbers or null; no disclosed metric is a part of a figure, and
  none is linked to those enrolled within or beyond the quota (`monitoring.catalog.ts:33-42` has
  the total and those on leave).
* *The tables* (`ViewsAssumption`): universities and departments are finitely many, each target that can be asked
  for is a box of the tree (a university, a department, universities or departments together) with a key of its
  own, as `target-collapse.ts` builds them; stored values are numbers or no numbers.
* *The metric builder* (`RegistryRowAssumption`): null is no row of the registry.
* Three theorems state a hypothesis of their own. `PageShowsYear` is for a patient user
  (`Patient`). `ComparisonIsOfTable` needs that null is no table, selection or query (`NullApart`).
  `CleanStays` needs that on a pane where metrics are deleted no request is sent before the last one
  is answered, as the run has it.

### What stays with TLC

* Liveness: `BudgetSettles`, `EditArrives`, `RunsEnd`, `SpinnerEnds`.
* Formulas: `FormulaKept` and `TogglesAgree` evaluate syntax trees with recursive operators,
  and what a recursive definition computes for every input needs induction over data, which
  the provers cannot do.
* `CollapseKeepsUnits`: whether a node is covered, and the path above it, are recursive functions over a
  tree of any depth, and the fold takes the nodes in an order that depends on both; a proof would be an
  induction over the tree. What is proved of these screens is about the rows once folded (`TablesStayTold`).
* `CleanIsStored` where metrics are deleted and requests overlap is no theorem, and TLC shows why (two
  requests, five gestures): a metric is added below *p*; before the answer's load arrives, *p* is
  dragged to another category and saved. The child is now stored in the old category under a parent in the
  new one, and the screen shows it as a root; deleting *p* deletes the child in the table while the screen
  keeps it. (The question asked before a delete counts what the screen shows below *p*, see
  `DeletesOnlyNamed`.)

## 6. Not modelled

* Interleavings and crashes *inside* an administrator's request on plan or
  organisation: an action of `SpFunds`, `SpStructure` and `OrgTree` is the whole request.
* `migrateLegacyCodes` and the organisation's one-off migrations, rewrites of codes at
  start-up; budgets deleted together with a subtask by `replaceSubtasks`.
* Vision, comparison data, department list: single-row upserts and one
  whole-table replacement (which clears before it saves, PS:1415).
* The upload screen (`A/UploadCenter.tsx`): it sends one workbook after the other and
  shows what the server answered; the decisions are the server's, in `RawDesk`.
* Authentication and users: one table, single-row operations. Presets are in
  `AnalysisStore`; the logs are inserts nothing reads back.
* The views of the plan (`EvaluationView.tsx` and others), charts and correlation:
  presentation of what a store holds.
* The reading of XML answers and of workbook cells, generated codes, wording.
* Seeds, scripts, probes: run by hand, outside the system; the plan's seed is the
  initial state of `SpFunds` and `SpStructure`.

## 7. Plan

1. *(done)* versions, funds, tree, workspace; the organisation; batch, raw data and registry;
   pivot, formulas, board; the client stores and the administrators' screens.
2. *(done)* theorems: funds and their refinement, plan, workspace, organisation, batch,
   raw data and registry; the administrator's page of the plan; the board, the public
   comparison, the organisation page and the tree screen.
3. `writeVersion` cut at its awaits, two administrators and a crash: which invariants of
   `SpFunds` survive, and what a repeated request repairs or damages.
4. Sign-up, approval and password reset as a protocol; the upload screen.
