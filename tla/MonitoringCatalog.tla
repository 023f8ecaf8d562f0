--------------------------- MODULE MonitoringCatalog ---------------------------
(***************************************************************************)
(* The catalogue of monitoring metrics (metrics.service.ts): every read of *)
(* the metric tree first runs ensureMonitoringCatalog, which fills an      *)
(* empty catalogue with the seeds, gives seeds from before the codes their *)
(* code, and must leave alone what administrators renamed or deleted.      *)
(* Reads of several screens run it at the same time; it is cut at its      *)
(* awaits.  One category is shown.                                         *)
(***************************************************************************)
EXTENDS Absent, Naturals, FiniteSets, SequencesExt

CONSTANTS
  Seeds,      \* MONITORING_SEED_CATALOG: a sequence of [code, name, parent] records,
              \* parents before their children; parent is a code or NULL
  OtherName,  \* a name that is no seed's
  Readers,    \* requests that may run ensureMonitoringCatalog together
  MaxId       \* bound: metric ids

Ids == 1..MaxId
Codes == {Seeds[i].code : i \in DOMAIN Seeds}
SeedNames == {Seeds[i].name : i \in DOMAIN Seeds} \cup {OtherName}
CatalogRow == [code : Codes \cup {NULL}, name : SeedNames, parent : Ids \cup {NULL}]

ASSUME SeedAssumption ==
  /\ Len(Seeds) \in Nat \ {0} /\ DOMAIN Seeds = 1..Len(Seeds)
  /\ \A i \in DOMAIN Seeds : Seeds[i].parent # NULL => \E j \in 1..(i - 1) : Seeds[j].code = Seeds[i].parent
  /\ MaxId \in Nat /\ NULL \notin Nat \cup Codes \cup CatalogRow

VARIABLES
  row,      \* ir_metric_registry, MONITORING rows: id -> row or NULL
  data,     \* ids with rows in ir_raw_data
  reader,   \* per request: where ensureMonitoringCatalog stands
  removed,  \* history: codes deleted while other metrics remained
  double,   \* history: another request ran while one was filling an empty catalogue
  late      \* history: ids that got data after a request found them empty

cvars == <<row, data, reader, removed, double, late>>

InCatalog(i) == row[i] # NULL
Metrics == {i \in Ids : InCatalog(i)}
WithCode(c) == {i \in Metrics : row[i].code = c}
Children(i) == {j \in Metrics : row[j].parent = i}
Done == [pc |-> "done"]
At(q, pc) == reader[q].pc = pc
Running(q) == reader[q] # Done

\* Ids are never used again; the model reuses those that no request holds.
InHand == UNION {IF Running(q) THEN reader[q].doomed \cup {reader[q].ids[c] : c \in Codes} ELSE {} : q \in Readers}
Fresh == Ids \ (Metrics \cup InHand)

\* The seed a request is at, and the id its parent got.
Seed(q) == Seeds[reader[q].at]
ParentId(q) == IF Seed(q).parent = NULL THEN NULL ELSE reader[q].ids[Seed(q).parent]

-----------------------------------------------------------------------------
(* ensureMonitoringCatalog                                                 *)

\* The count decides whether missing seeds are made.
Slip_Count(q) ==
  /\ reader[q] = Done
  /\ reader' = [reader EXCEPT ![q] = [pc |-> "look", at |-> 1, allowCreate |-> TRUE,
                                      ids |-> [c \in Codes |-> NULL], doomed |-> {}]]
  /\ UNCHANGED <<row, data, removed, double, late>>

Count(q) ==
  LET empty == Metrics = {}
  IN /\ reader[q] = Done
     /\ reader' = [reader EXCEPT ![q] = [pc |-> "look", at |-> 1, allowCreate |-> empty,
                                         ids |-> [c \in Codes |-> NULL], doomed |-> {}]]
     /\ double' = (double \/ \E p \in Readers : Running(p) /\ (empty \/ reader[p].allowCreate))
     /\ removed' = IF empty THEN {} ELSE removed
     /\ UNCHANGED <<row, data, late>>

\* On to the next seed; the children of a seed that was not found are skipped.
After(q, id) ==
  LET ids == [reader[q].ids EXCEPT ![Seed(q).code] = id]
      later == {j \in (reader[q].at + 1)..Len(Seeds) : Seeds[j].parent # NULL => ids[Seeds[j].parent] # NULL}
  IN IF later = {} THEN Done
     ELSE [reader[q] EXCEPT !.pc = "look", !.at = Min(later), !.ids = ids, !.doomed = {}]

\* findLegacyMonitoringSeedMetrics: siblings without a code that bear the seed's name.
Legacy(q) == {i \in Metrics : row[i].code = NULL /\ row[i].name = Seed(q).name /\ row[i].parent = ParentId(q)}

\* ensureMonitoringMetric looks the seed up by its code.  A row from before the
\* codes is adopted, rather one with data; of the others the empty ones are doomed.
FindSeed(q) ==
  /\ At(q, "look")
  /\ IF WithCode(Seed(q).code) # {}
     THEN \E i \in WithCode(Seed(q).code) :
            /\ reader' = [reader EXCEPT ![q] = After(q, i)]
            /\ UNCHANGED <<row, removed>>
     ELSE IF Legacy(q) # {}
     THEN \E i \in IF Legacy(q) \cap data # {} THEN Legacy(q) \cap data ELSE Legacy(q) :
            /\ row' = [row EXCEPT ![i].code = Seed(q).code]
            /\ removed' = removed \ {Seed(q).code}
            /\ reader' = [reader EXCEPT ![q].pc = "prune", ![q].ids[Seed(q).code] = i,
                 ![q].doomed = {j \in Legacy(q) \ {i} : Children(j) = {} /\ j \notin data}]
     ELSE /\ reader' = [reader EXCEPT ![q] = IF @.allowCreate THEN [@ EXCEPT !.pc = "create"] ELSE After(q, NULL)]
          /\ UNCHANGED <<row, removed>>
  /\ UNCHANGED <<data, double, late>>

\* A delete takes the data along (CASCADE) and leaves children without a parent.
Without(gone) ==
  [i \in Ids |-> IF i \in gone \/ row[i] = NULL THEN NULL
                 ELSE IF row[i].parent \in gone THEN [row[i] EXCEPT !.parent = NULL] ELSE row[i]]

\* pruneEmptyMonitoringDuplicates, after it has counted.
PruneDuplicates(q) ==
  /\ At(q, "prune")
  /\ row' = Without(reader[q].doomed)
  /\ data' = data \ reader[q].doomed
  /\ late' = late \ reader[q].doomed
  /\ reader' = [reader EXCEPT ![q] = After(q, reader[q].ids[Seed(q).code])]
  /\ UNCHANGED <<removed, double>>

\* The save of a seed that was not found.  If its parent is gone by now the foreign
\* key refuses it and the request ends with an error.
CreateSeed(q) ==
  /\ At(q, "create")
  /\ IF ParentId(q) # NULL /\ ~InCatalog(ParentId(q))
     THEN reader' = [reader EXCEPT ![q] = Done] /\ row' = row
     ELSE /\ Fresh # {}
          /\ row' = [row EXCEPT ![Min(Fresh)] = [code |-> Seed(q).code, name |-> Seed(q).name, parent |-> ParentId(q)]]
          /\ reader' = [reader EXCEPT ![q] = After(q, Min(Fresh))]
  /\ UNCHANGED <<data, removed, double, late>>

-----------------------------------------------------------------------------
(* What administrators and uploads do meanwhile                            *)

\* createMetric: no code, at the root.
CreateLink(n) ==
  /\ Fresh # {}
  /\ row' = [row EXCEPT ![Min(Fresh)] = [code |-> NULL, name |-> n, parent |-> NULL]]
  /\ UNCHANGED <<data, reader, removed, double, late>>

\* updateMetric: no sibling may bear the name.
UpdateLink(i, n) ==
  /\ InCatalog(i) /\ row[i].name # n
  /\ \A j \in Metrics \ {i} : row[j].parent = row[i].parent => row[j].name # n
  /\ row' = [row EXCEPT ![i].name = n]
  /\ UNCHANGED <<data, reader, removed, double, late>>

\* deleteMetric takes the children along.
DeleteLink(i) ==
  LET gone == {i} \cup Children(i)
  IN /\ InCatalog(i)
     /\ row' = Without(gone) /\ data' = data \ gone
     /\ late' = late \ gone
     /\ removed' = IF Metrics \subseteq gone \/ \E q \in Readers : Running(q) /\ reader[q].allowCreate
                   THEN {} ELSE removed \cup {c \in Codes : WithCode(c) # {} /\ WithCode(c) \subseteq gone}
     /\ UNCHANGED <<reader, double>>

\* Values arrive for a metric.
Upload(i) ==
  /\ InCatalog(i) /\ i \notin data
  /\ data' = data \cup {i}
  /\ late' = IF \E q \in Readers : Running(q) /\ i \in reader[q].doomed THEN late \cup {i} ELSE late
  /\ UNCHANGED <<row, reader, removed, double>>

-----------------------------------------------------------------------------

\* A new data bank, or one whose first seed is from before the codes, once or twice.
CatalogInit ==
  /\ row \in {[i \in Ids |-> IF i <= n THEN [code |-> NULL, name |-> Seeds[1].name, parent |-> NULL] ELSE NULL] :
                n \in 0..2}
  /\ data \in {{}, {1}} /\ data \subseteq Metrics
  /\ reader = [q \in Readers |-> Done]
  /\ removed = {} /\ double = FALSE /\ late = {}

CatalogNext ==
  \/ \E q \in Readers : Count(q) \/ FindSeed(q) \/ PruneDuplicates(q) \/ CreateSeed(q)
  \/ \E n \in SeedNames : CreateLink(n)
  \/ \E i \in Ids, n \in SeedNames : UpdateLink(i, n)
  \/ \E i \in Ids : DeleteLink(i) \/ Upload(i)

-----------------------------------------------------------------------------

Progress ==
  [pc : {"look", "prune", "create"}, at : DOMAIN Seeds, allowCreate : BOOLEAN,
   ids : [Codes -> Ids \cup {NULL}], doomed : SUBSET Ids]

CatalogTypeOK ==
  /\ row \in [Ids -> {NULL} \cup CatalogRow]
  /\ \A i \in Metrics : row[i].parent # NULL => InCatalog(row[i].parent)
  /\ data \subseteq Metrics
  /\ late \subseteq data /\ removed \subseteq Codes /\ double \in BOOLEAN
  /\ reader \in [Readers -> {Done} \cup Progress]

\* A seed is there at most once ("중복 생성되지 않는다", metrics.service.ts:331),
\* however it is renamed and however many screens read at once - unless a second
\* request ran while one was filling the empty catalogue.
CodesUnique == double \/ \A c \in Codes : Cardinality(WithCode(c)) <= 1

\* A seed that an administrator deleted is not made again ("지운 지표는 다시 만들지
\* 않는다", metrics.service.ts:424) until the catalogue is empty or someone registers
\* a metric of its name.
DeletedStayDeleted == \A c \in removed : WithCode(c) = {}

\* Tidying up duplicates never takes values with it ("원본 데이터가 모두 없는 행만
\* 지운다", metrics.service.ts:306), except those that arrived after it had looked.
DataKept ==
  [][\A i \in data : (\E q \in Readers : At(q, "prune") /\ reader'[q] # reader[q]) /\ i \notin data' => i \in late]_cvars
=============================================================================
