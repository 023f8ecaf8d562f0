------------------------------ MODULE AlimiIngest ------------------------------
(***************************************************************************)
(* What a run of the public-disclosure batch stores (alimi.service.ts):    *)
(* syncDepartments and then ingestStats ask about several universities at  *)
(* once.  The jobs of one phase share a cache of promises, metricLocks, so *)
(* that a metric is found or created once; each is cut at its awaits.      *)
(* The answers of the API are what the jobs choose: any departments, any   *)
(* metric names, with errors anywhere.                                     *)
(***************************************************************************)
EXTENDS Absent, Naturals, FiniteSets, FiniteSetsExt

CONSTANTS
  Univs,       \* universities asked at the same time
  Depts,       \* department codes
  Names,       \* base names of the metrics of one category
  MaxMetrics,  \* bound: rows of the registry
  MaxItems,    \* bound: items of one university's answer
  MaxCrashes,  \* bound: server restarts
  Pending, Rejected  \* states of a promise

ALL == "_ALL_"                       \* dept_code of a row about the university
MetricIds == 1..MaxMetrics
Categories == 1..2
Suffixes == {"", "dept", "legacy"}   \* nothing, (학과별), (학과)
MetricRow == [cat : Categories, name : Names, suffix : Suffixes]

\* A promise is none, open, rejected or kept with an id.
ASSUME IngestAssumption ==
  /\ MaxMetrics \in Nat
  /\ {MaxItems, MaxCrashes} \subseteq Nat
  /\ {NULL, Pending, Rejected} \cap (MetricIds \cup Categories) = {}
  /\ NULL \notin {Pending, Rejected} /\ Pending # Rejected
  /\ NULL \notin MetricRow

VARIABLES
  category,  \* ids of the rows of ir_metric_category with the core name
  metric,    \* ir_metric_registry: id -> row or NULL
  dept,      \* ir_department: <<univ, code>> -> "none", "active" or "closed"
  deptRow,   \* ir_raw_data: <<univ, code, metric>> present
  run        \* the running batch, with crashes so far and whether a label is due

ivars == <<category, metric, dept, deptRow, run>>

-----------------------------------------------------------------------------
(* metric-labels.ts                                                        *)

HasDeptSuffix(row) == row.suffix = "dept"
WithDeptSuffix(row) == [row EXCEPT !.suffix = "dept"]

\* metricNameLookupCandidates: the base name with any of the suffixes.
LookUp(c, n) == {i \in MetricIds : metric[i] # NULL /\ metric[i].cat = c /\ metric[i].name = n}

HasDeptRows(i) == \E u \in Univs, d \in Depts : <<u, d, i>> \in deptRow

\* syncDeptLevelMetricNames.
Labelled == [i \in MetricIds |->
  IF metric[i] # NULL /\ HasDeptRows(i) /\ ~HasDeptSuffix(metric[i])
  THEN WithDeptSuffix(metric[i]) ELSE metric[i]]

-----------------------------------------------------------------------------

IdleJob == [pc |-> "done", name |-> NULL, dept |-> NULL, items |-> 0]

\* Nothing runs.  promise is metricLocks and metricCache, cat the category cache.
Off(crashes, due) ==
  [phase |-> "off", cat |-> NULL, promise |-> [n \in Names |-> NULL],
   job |-> [u \in Univs |-> IdleJob], crashes |-> crashes, due |-> due]

Job(u) == run.job[u]
SetJob(u, new) == run' = [run EXCEPT !.job[u] = new]

\* A phase starts with empty caches and all its universities open.
StartPhase(p) ==
  run' = [Off(run.crashes, TRUE) EXCEPT
            !.phase = p, !.job = [u \in Univs |-> [IdleJob EXCEPT !.pc = "next"]]]

\* syncDepartments begins.
StartSync ==
  /\ run.phase = "off"
  /\ StartPhase("departments")
  /\ UNCHANGED <<category, metric, dept, deptRow>>

\* The next item of the answer in syncDepartments: a department, merged over the
\* items with its code, closed or active; the last value of an active one's
\* numeric fields is stored as a metric.
MajorItem(u, d, n, isActive) ==
  /\ run.phase = "departments"
  /\ Job(u).pc = "next" /\ Job(u).items < MaxItems
  /\ dept' = [dept EXCEPT ![<<u, d>>] = IF isActive THEN "active" ELSE "closed"]
  /\ SetJob(u, IF isActive
               THEN [pc |-> "metric", name |-> n, dept |-> d, items |-> Job(u).items + 1]
               ELSE [Job(u) EXCEPT !.items = @ + 1])
  /\ UNCHANGED <<category, metric, deptRow>>

\* The end of syncOne: departments that were not answered as active are closed,
\* unless none was active.
CloseOthers(u, activeCodes) ==
  /\ run.phase = "departments"
  /\ Job(u).pc = "next"
  /\ \A d \in activeCodes : dept[<<u, d>>] = "active"
  /\ dept' = IF activeCodes = {} THEN dept
             ELSE [k \in DOMAIN dept |->
                     IF k[1] = u /\ k[2] \notin activeCodes /\ dept[k] # "none"
                     THEN "closed" ELSE dept[k]]
  /\ SetJob(u, IdleJob)
  /\ UNCHANGED <<category, metric, deptRow>>

\* An item of ingestOne.  A department counts only if the index knows its code;
\* when the item names a series the department is upserted, as active.
StatsItem(u, d, n, hasSeries) ==
  /\ run.phase = "statistics"
  /\ Job(u).pc = "next" /\ Job(u).items < MaxItems
  /\ d # ALL => dept[<<u, d>>] # "none"
  /\ dept' = IF d # ALL /\ hasSeries THEN [dept EXCEPT ![<<u, d>>] = "active"] ELSE dept
  /\ SetJob(u, [pc |-> "metric", name |-> n, dept |-> d, items |-> Job(u).items + 1])
  /\ UNCHANGED <<category, metric, deptRow>>

\* getMetricId: the caches are asked, or this job makes the promise.
Slip_AskMetric(u) ==
  /\ Job(u).pc = "metric"
  /\ SetJob(u, [Job(u) EXCEPT !.pc =
       IF run.promise[Job(u).name] \in MetricIds THEN "write" ELSE "category"])
  /\ UNCHANGED <<category, metric, dept, deptRow>>

AskMetric(u) ==
  /\ Job(u).pc = "metric"
  /\ LET p == run.promise[Job(u).name]
     IN run' = [run EXCEPT
          !.promise[Job(u).name] = IF p = NULL THEN Pending ELSE p,
          !.job[u] = IF p = Rejected THEN IdleJob
                     ELSE [@ EXCEPT !.pc = IF p = NULL THEN "category"
                                           ELSE IF p = Pending THEN "waiting" ELSE "write"]]
  /\ UNCHANGED <<category, metric, dept, deptRow>>

\* The owner of the promise looks the category up; other promises do the same.
FindCategory(u) ==
  /\ Job(u).pc = "category"
  /\ IF run.cat # NULL
     THEN SetJob(u, [Job(u) EXCEPT !.pc = "find"])
     ELSE IF category = {} THEN SetJob(u, [Job(u) EXCEPT !.pc = "create"])
     ELSE \E c \in category :
            run' = [run EXCEPT !.cat = c, !.job[u].pc = "find"]
  /\ UNCHANGED <<category, metric, dept, deptRow>>

\* ensureCategory saves the row it did not find.
CreateCategory(u) ==
  /\ Job(u).pc = "create"
  /\ \E c \in Categories \ category :
       /\ category' = category \cup {c}
       /\ run' = [run EXCEPT !.cat = c, !.job[u].pc = "find"]
  /\ UNCHANGED <<metric, dept, deptRow>>

\* ensureMetric looks the metric up in the category that is cached now; one without
\* the suffix gets it when the row is about a department.  The promise is kept.
FindMetric(u) ==
  LET found == LookUp(run.cat, Job(u).name)
  IN /\ Job(u).pc = "find"
     /\ IF found = {} THEN SetJob(u, [Job(u) EXCEPT !.pc = "insert"]) /\ UNCHANGED metric
        ELSE \E i \in found :
               /\ metric' = IF Job(u).dept # ALL THEN [metric EXCEPT ![i] = WithDeptSuffix(@)] ELSE metric
               /\ run' = [run EXCEPT !.promise[Job(u).name] = i, !.job[u].pc = "write"]
     /\ UNCHANGED <<category, dept, deptRow>>

\* It saves the metric it did not find.
InsertMetric(u) ==
  LET free == {i \in MetricIds : metric[i] = NULL}
  IN /\ Job(u).pc = "insert"
     /\ free # {}
     /\ metric' = [metric EXCEPT ![Min(free)] = [cat |-> run.cat, name |-> Job(u).name,
                                               suffix |-> IF Job(u).dept # ALL THEN "dept" ELSE ""]]
     /\ run' = [run EXCEPT !.promise[Job(u).name] = Min(free), !.job[u].pc = "write"]
     /\ UNCHANGED <<category, dept, deptRow>>

\* Those who wait go on with what the promise became.
Awake(u) ==
  LET p == run.promise[Job(u).name]
  IN /\ Job(u).pc = "waiting" /\ p # Pending
     /\ SetJob(u, IF p = Rejected THEN IdleJob ELSE [Job(u) EXCEPT !.pc = "write"])
     /\ UNCHANGED <<category, metric, dept, deptRow>>

\* upsertRaw; only rows about departments matter here.
UpsertRaw(u) ==
  /\ Job(u).pc = "write"
  /\ deptRow' = IF Job(u).dept = ALL THEN deptRow
                ELSE deptRow \cup {<<u, Job(u).dept, run.promise[Job(u).name]>>}
  /\ SetJob(u, [Job(u) EXCEPT !.pc = "next", !.name = NULL, !.dept = NULL])
  /\ UNCHANGED <<category, metric, dept>>

\* A request or a statement fails: the job ends, the promise it owned is rejected
\* and stays so for the run.
JobFails(u) ==
  /\ Job(u).pc \in {"next", "category", "create", "find", "insert", "write"}
  /\ run' = [run EXCEPT
       !.job[u] = IdleJob,
       !.promise = IF Job(u).pc \in {"category", "create", "find", "insert"}
                   THEN [@ EXCEPT ![Job(u).name] = Rejected] ELSE @]
  /\ UNCHANGED <<category, metric, dept, deptRow>>

\* The answer holds nothing more.
JobEnds(u) ==
  /\ run.phase = "statistics" /\ Job(u).pc = "next"
  /\ SetJob(u, IdleJob)
  /\ UNCHANGED <<category, metric, dept, deptRow>>

\* All universities are through: the names are put right; statistics follow the
\* departments, and then the run is over.
Label ==
  /\ run.phase # "off"
  /\ \A u \in Univs : Job(u).pc = "done"
  /\ metric' = Labelled
  /\ IF run.phase = "departments" THEN StartPhase("statistics")
                                  ELSE run' = Off(run.crashes, FALSE)
  /\ UNCHANGED <<category, dept, deptRow>>

\* The server dies in the middle; nothing is rolled back.
ServerDies ==
  /\ run.phase # "off" /\ run.crashes < MaxCrashes
  /\ run' = Off(run.crashes + 1, TRUE)
  /\ UNCHANGED <<category, metric, dept, deptRow>>

-----------------------------------------------------------------------------

\* The seed made the category, or an administrator has renamed it since; a metric
\* may carry the suffix of an older version.
IngestInit ==
  /\ category \in {{}, {1}}
  /\ metric \in {[i \in MetricIds |-> NULL]} \cup
       {[i \in MetricIds |-> IF i = 1 THEN [cat |-> 1, name |-> n, suffix |-> "legacy"] ELSE NULL] :
          n \in IF category = {} THEN {} ELSE Names}
  /\ dept = [k \in Univs \X Depts |-> "none"]
  /\ deptRow = {}
  /\ run = Off(0, FALSE)

JobStep(u) ==
  \/ \E d \in Depts, n \in Names, isActive \in BOOLEAN : MajorItem(u, d, n, isActive)
  \/ \E codes \in SUBSET Depts : CloseOthers(u, codes)
  \/ \E d \in Depts \cup {ALL}, n \in Names, hasSeries \in BOOLEAN : StatsItem(u, d, n, hasSeries)
  \/ AskMetric(u)
  \/ FindCategory(u)
  \/ CreateCategory(u)
  \/ FindMetric(u)
  \/ InsertMetric(u)
  \/ Awake(u)
  \/ UpsertRaw(u)
  \/ JobFails(u)
  \/ JobEnds(u)

IngestNext ==
  \/ StartSync
  \/ \E u \in Univs : JobStep(u)
  \/ Label
  \/ ServerDies

\* Awaits resolve or throw, so every job of a run goes on.
IngestFair == WF_ivars(Label) /\ \A u \in Univs : WF_ivars(JobStep(u))

-----------------------------------------------------------------------------

IngestTypeOK ==
  /\ category \subseteq Categories
  /\ metric \in [MetricIds -> {NULL} \cup MetricRow]
  /\ dept \in [Univs \X Depts -> {"none", "active", "closed"}]
  /\ deptRow \subseteq Univs \X Depts \X MetricIds
  /\ \A i \in MetricIds : HasDeptRows(i) => metric[i] # NULL
  /\ run.phase \in {"off", "departments", "statistics"}
  /\ run.cat \in category \cup {NULL}
  /\ \A n \in Names : run.promise[n] \in MetricIds \cup {NULL, Pending, Rejected}

\* Parallel jobs never register one metric of a category twice ("병렬 적재 시
\* find-or-create 레이스 방지", alimi.service.ts:1336).
MetricOnce ==
  \A i, j \in MetricIds :
    i # j /\ metric[i] # NULL /\ metric[j] # NULL =>
      <<metric[i].cat, metric[i].name>> # <<metric[j].cat, metric[j].name>>

\* Between runs every metric with rows about departments says so in its name,
\* whatever order the jobs found and created it in; after a crash the next run
\* that ends makes up for it.
DeptRowsLabelled ==
  ~run.due => \A i \in MetricIds : HasDeptRows(i) => HasDeptSuffix(metric[i])

\* The two together: one metric per name, and its name tells what rows it has.
MetricsTellRows == MetricOnce /\ DeptRowsLabelled

\* A run ends, also when the job that owes the others a metric fails.
IngestEnds == run.phase # "off" ~> run.phase = "off"
=============================================================================
