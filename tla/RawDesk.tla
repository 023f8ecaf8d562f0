------------------------------- MODULE RawDesk -------------------------------
(***************************************************************************)
(* The administrators' ways to raw values: the Excel upload                *)
(* (upload.service.ts), the correction screen (raw-correction.service.ts)  *)
(* and the renaming of a metric (MetricsService.updateMetric), which the   *)
(* upload depends on because it finds metrics by name.  A request reads,   *)
(* and writes in a transaction of its own later; others come in between.   *)
(* One year and one university are shown: a row is a department, or _ALL_, *)
(* and a metric.                                                           *)
(***************************************************************************)
EXTENDS Absent, Naturals, FiniteSets, FiniteSetsExt, Functions

CONSTANTS
  Depts,       \* department codes
  Bases,       \* names of metrics without their suffix
  SourceType,  \* [metric -> {"INTERNAL", "MONITORING", "ALIMI"}]
  Values,      \* metric values
  Requests,    \* requests that may be under way at the same time
  MaxRows,     \* bound: keys in an uploaded file
  Deleted      \* new_metric_value of a deletion, '[DELETED]'

RawMetrics == DOMAIN SourceType
University == "_ALL_"
Keys == (Depts \cup {University}) \X RawMetrics
RowIds == 1..(Cardinality(Requests) + 1)   \* of one key; raw_id is the key and this
Row == [id : RowIds, value : Values, locked : BOOLEAN]

ASSUME DeskAssumption ==
  IsFiniteSet(Requests) /\ University \notin Depts /\ NULL \notin Row \cup {"correction"}

VARIABLES
  name,    \* metric_name: base and suffix
  raw,     \* ir_raw_data: key -> row or NULL
  audit,   \* ir_data_audit_log: new value in the last entry of each key
  req,     \* per request: what it has read and is about to write
  last,    \* history: who wrote a row or its log last; "ghost" is an entry about a
           \* row that was deleted in the meantime
  raced    \* history: metrics renamed over a label written since the read

dvars == <<name, raw, audit, req, last, raced>>

Editable(m) == SourceType[m] \in {"INTERNAL", "MONITORING"}
Present(k) == raw[k] # NULL
Idle == [kind |-> "idle"]

-----------------------------------------------------------------------------
(* Names                                                                   *)

Names == Bases \X {"plain", "dept"}
Suffixed(n) == <<n[1], "dept">>
HasSuffix(n) == n[2] = "dept"

\* metricNameLookupCandidates: the name with and without its suffix.
Candidates(n) == {c \in Names : c[1] = n[1]}

\* findMatch: metrics of this source whose name is a candidate, exact ones first.
Matches(n, source) ==
  LET found == {m \in RawMetrics : SourceType[m] = source /\ name[m] \in Candidates(n)}
      exact == {m \in found : name[m] = n}
  IN IF exact # {} THEN exact ELSE found

\* resolveMetricIds for one row: a hint must exist, be of the source and bear the
\* name; without one the name must have a single match.
Resolves(n, hint, source, m) ==
  IF hint # NULL
  THEN m = hint /\ SourceType[m] = source /\ name[m] \in Candidates(n)
  ELSE Matches(n, source) = {m}

\* syncDeptLevelMetricNames over the rows in r.
DeptLevel(r, m) == \E d \in Depts : r[<<d, m>>] # NULL
Labelled(r) == [m \in RawMetrics |-> IF DeptLevel(r, m) THEN Suffixed(name[m]) ELSE name[m]]

-----------------------------------------------------------------------------
(* Upload                                                                  *)

\* parseWorkbook and resolveMetricIds: the rows of a file are of one source and each is
\* resolved, or the file is refused as a whole.  Of two rows with one key the later is
\* written last, so a file is what it says of each key.
Resolvable(source) ==
  {m \in RawMetrics : \E n \in Names, h \in RawMetrics \cup {NULL} : Resolves(n, h, source, m)}
Files(source) ==
  LET Rows == (Depts \cup {University}) \X Resolvable(source)
  IN UNION {[K -> Values] : K \in {R \in SUBSET Rows : Cardinality(R) \in 1..MaxRows}}

\* Rows whose key exists are left out unless they shall be overwritten.
ToApply(file, overwrite) == Restrict(file, {k \in DOMAIN file : overwrite \/ ~Present(k)})

LockedIn(rows) == {k \in DOMAIN rows : Present(k) /\ raw[k].locked}

\* processUpload up to its first write: refused if it would overwrite locked rows
\* and that is not confirmed.
ReadUpload(q, source, overwrite, confirmLocked) ==
  \E file \in Files(source) :
    LET rows == ToApply(file, overwrite)
    IN /\ req[q] = Idle
       /\ overwrite /\ LockedIn(rows) # {} => confirmLocked
       /\ req' = [req EXCEPT ![q] = [kind |-> "upload", rows |-> rows, asked |-> overwrite,
                                     confirmed |-> overwrite /\ confirmLocked]]
       /\ UNCHANGED <<name, raw, audit, last, raced>>

\* A row that is inserted again is another row: no request holds its id.
Held(k) == {r.id : r \in {x \in UNION {req[q].rows : q \in {p \in Requests : req[p].kind \in {"update", "remove"}}} :
                            x.key = k}}
FreshId(k) == Min(RowIds \ Held(k))

\* INSERT .. ON CONFLICT DO UPDATE of the value alone.
Upserted(rows) ==
  [k \in Keys |->
     IF k \notin DOMAIN rows THEN raw[k]
     ELSE IF raw[k] = NULL THEN [id |-> FreshId(k), value |-> rows[k], locked |-> FALSE]
     ELSE [raw[k] EXCEPT !.value = rows[k]]]

\* The rest of the transaction: the rows as they were sorted when it read, then the names.
WriteUpload(q) ==
  LET rows == req[q].rows
  IN /\ req[q].kind = "upload"
     /\ raw' = Upserted(rows)
     /\ name' = Labelled(raw')
     /\ last' = [k \in Keys |-> IF k \in DOMAIN rows THEN "upload" ELSE last[k]]
     /\ raced' = {m \in raced : ~DeptLevel(raw', m)}
     /\ req' = [req EXCEPT ![q] = Idle]
     /\ UNCHANGED audit

-----------------------------------------------------------------------------
(* Correction                                                              *)

Snapshot(k) == [key |-> k, id |-> raw[k].id]

\* updateValue reads the row; an unchanged value needs no request.
ReadUpdate(q, k, v) ==
  /\ req[q] = Idle
  /\ Present(k) /\ Editable(k[2]) /\ raw[k].value # v
  /\ req' = [req EXCEPT ![q] = [kind |-> "update", rows |-> {Snapshot(k)}, new |-> v]]
  /\ UNCHANGED <<name, raw, audit, last, raced>>

\* UPDATE by raw_id and INSERT of what was read into the audit log, together.
StillThere(r) == Present(r.key) /\ raw[r.key].id = r.id

Slip_WriteUpdate(q) ==
  /\ req[q].kind = "update"
  /\ \E r \in req[q].rows :
       /\ raw' = IF StillThere(r) THEN [raw EXCEPT ![r.key].value = req[q].new] ELSE raw
       /\ audit' = IF audit[r.key] = NULL THEN [audit EXCEPT ![r.key] = req[q].new] ELSE audit
       /\ last' = [last EXCEPT ![r.key] = IF StillThere(r) THEN "correction" ELSE "ghost"]
  /\ req' = [req EXCEPT ![q] = Idle]
  /\ UNCHANGED <<name, raced>>

WriteUpdate(q) ==
  /\ req[q].kind = "update"
  /\ \E r \in req[q].rows :
       /\ raw' = IF StillThere(r) THEN [raw EXCEPT ![r.key].value = req[q].new] ELSE raw
       /\ audit' = [audit EXCEPT ![r.key] = req[q].new]
       /\ last' = [last EXCEPT ![r.key] = IF StillThere(r) THEN "correction" ELSE "ghost"]
  /\ req' = [req EXCEPT ![q] = Idle]
  /\ UNCHANGED <<name, raced>>

\* removeMany refuses the request if one of its rows is missing or not editable.
Removable(ks) == ks # {} /\ \A k \in ks : Present(k) /\ Editable(k[2])

ReadRemove(q, ks) ==
  /\ req[q] = Idle
  /\ Removable(ks)
  /\ req' = [req EXCEPT ![q] = [kind |-> "remove", rows |-> {Snapshot(k) : k \in ks}]]
  /\ UNCHANGED <<name, raw, audit, last, raced>>

WriteRemove(q) ==
  LET rows == IF req[q].kind = "remove" THEN req[q].rows ELSE {}
      gone == {r.key : r \in {x \in rows : StillThere(x)}}
  IN /\ req[q].kind = "remove"
     /\ audit' = [k \in Keys |->
          IF \E r \in rows : r.key = k THEN Deleted ELSE audit[k]]
     /\ raw' = [k \in Keys |-> IF k \in gone THEN NULL ELSE raw[k]]
     /\ last' = [k \in Keys |-> IF k \in gone THEN NULL
                               ELSE IF \E r \in rows : r.key = k THEN "ghost" ELSE last[k]]
     /\ req' = [req EXCEPT ![q] = Idle]
     /\ UNCHANGED <<name, raced>>

-----------------------------------------------------------------------------
(* Renaming                                                                *)

\* updateMetric keeps the suffix it reads; no other metric of the source may bear
\* a new name now.  A change of the formula alone leaves the name as read.
ReadRename(q, m, base, typed) ==
  LET new == <<base, IF HasSuffix(name[m]) THEN "dept" ELSE typed>>
  IN /\ req[q] = Idle
     /\ Editable(m)
     /\ new # name[m] =>
          \A x \in RawMetrics \ {m} : SourceType[x] = SourceType[m] => name[x] # new
     /\ req' = [req EXCEPT ![q] = [kind |-> "rename", metric |-> m, name |-> new]]
     /\ UNCHANGED <<name, raw, audit, last, raced>>

\* save() writes the name it computed, whatever the name is by now.
WriteRename(q) ==
  /\ req[q].kind = "rename"
  /\ name' = [name EXCEPT ![req[q].metric] = req[q].name]
  /\ raced' = IF HasSuffix(name[req[q].metric]) /\ ~HasSuffix(req[q].name)
              THEN raced \cup {req[q].metric} ELSE raced
  /\ req' = [req EXCEPT ![q] = Idle]
  /\ UNCHANGED <<raw, audit, last>>

-----------------------------------------------------------------------------

\* The registry with distinct names; nothing stored yet, or one row of each metric
\* of which some are locked (nothing in src sets the flag: the data bank's keeper
\* does).
RawInit ==
  /\ name \in [RawMetrics -> Bases \X {"plain"}]
  /\ \A m, x \in RawMetrics : m # x /\ SourceType[m] = SourceType[x] => name[m] # name[x]
  /\ raw \in {[k \in Keys |-> NULL]} \cup
       {[k \in Keys |-> IF k = <<University, m>> THEN [id |-> 1, value |-> v, locked |-> l] ELSE NULL] :
          m \in RawMetrics, v \in Values, l \in BOOLEAN}
  /\ audit = [k \in Keys |-> NULL]
  /\ req = [q \in Requests |-> Idle]
  /\ last = [k \in Keys |-> NULL]
  /\ raced = {}

RequestStep(q) ==
  \/ \E source \in {"INTERNAL", "MONITORING"}, overwrite, confirmLocked \in BOOLEAN :
       ReadUpload(q, source, overwrite, confirmLocked)
  \/ WriteUpload(q)
  \/ \E k \in Keys, v \in Values : ReadUpdate(q, k, v)
  \/ WriteUpdate(q)
  \/ \E ks \in SUBSET Keys : ReadRemove(q, ks)
  \/ WriteRemove(q)
  \/ \E m \in RawMetrics, base \in Bases, typed \in {"plain", "dept"} : ReadRename(q, m, base, typed)
  \/ WriteRename(q)

RawNext == \E q \in Requests : RequestStep(q)

-----------------------------------------------------------------------------

\* What a request has read; of a key it holds one row at most.
Snapshots == [key : Keys, id : RowIds]

Request(r) ==
  \/ r = Idle
  \/ r.kind = "upload" /\ DOMAIN r.rows \subseteq Keys /\ \A k \in DOMAIN r.rows : r.rows[k] \in Values
  \/ r.kind = "update" /\ r.new \in Values /\ \E s \in Snapshots : r.rows = {s}
  \/ r.kind = "remove" /\ r.rows \subseteq Snapshots /\ \A s, t \in r.rows : s.key = t.key => s = t
  \/ r.kind = "rename" /\ r.metric \in RawMetrics /\ r.name \in Names

RawTypeOK ==
  /\ name \in [RawMetrics -> Names]
  /\ raw \in [Keys -> {NULL} \cup Row]
  /\ audit \in [Keys -> {NULL, Deleted} \cup Values]
  /\ last \in [Keys -> {NULL, "upload", "correction", "ghost"}]
  /\ raced \subseteq RawMetrics
  /\ req = [q \in Requests |-> req[q]] /\ \A q \in Requests : Request(req[q])

\* Of a row that a correction wrote last, the newest audit entry tells the value,
\* however corrections, deletions and uploads of it interleave: value and entry
\* are written in one transaction.
AuditTellsValue ==
  \A k \in Keys : last[k] = "correction" => Present(k) /\ audit[k] = raw[k].value

\* A metric with rows about departments bears the suffix by which the screens find
\* it ("반드시 (학과별) 접미사를 붙인다", metric-labels.ts:47), except while a rename
\* that had read the old name has taken it away.
DeptMetricsNamed ==
  \A m \in RawMetrics : DeptLevel(raw, m) => HasSuffix(name[m]) \/ m \in raced
=============================================================================
