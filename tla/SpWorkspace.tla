---------------------------- MODULE SpWorkspace ----------------------------
(***************************************************************************)
(* Concurrent saves of departments, the IR centre and the administrator    *)
(* for one task and one school year: the completion flags, one budget cell *)
(* (TASK and fund), the self-evaluation and one KPI result.                *)
(*                                                                         *)
(* Every handler reads its row, awaits, and saves it; there is no          *)
(* transaction around the two and nothing is locked.  A request is cut     *)
(* where it awaits the database: admission (the completion check), read,   *)
(* save.                                                                   *)
(***************************************************************************)
EXTENDS Absent, Naturals, FiniteSets

CONSTANTS Requests,    \* requests the server has in hand at a time
          Tables,      \* the tables requests write to, of those in AllFields
          Values       \* amounts and texts

AllFields == [lock   |-> {"budget", "eval"},              \* budgetCompleted, evalCompleted
              budget |-> {"budgetAmount", "settlementAmount"},
              eval   |-> {"dept", "irEval"},              \* dept: every other column
              result |-> {"actualValue"}]

ASSUME TablesAssumption == Tables \subseteq DOMAIN AllFields
ASSUME ValuesAssumption == NULL \notin Values \cup BOOLEAN /\ IsFiniteSet(Requests)

VARIABLES table,       \* table[t]: the row for the key, NULL when there is none
          req          \* req[r]: the request in hand, NULL when the slot is free

vars == <<table, req>>

\* Only the equality of a row with a row read earlier matters, so a generated
\* key is any id that neither the table nor a request in hand holds.
Ids == 1..(Cardinality(Requests) + 1)

ValueOf(t) == IF t = "lock" THEN BOOLEAN ELSE Values \cup {NULL}
Empty(t) == IF t = "lock" THEN FALSE ELSE NULL

RowOf(t) == [id: Ids, data: [AllFields[t] -> ValueOf(t)]]

\* The fields a request body defines, with their values.
Patches(t) == UNION {[fields -> ValueOf(t)] : fields \in (SUBSET AllFields[t]) \ {{}}}

Bodies(t) == IF t = "lock" THEN {p \in Patches(t) : Cardinality(DOMAIN p) = 1} ELSE Patches(t)

Request == UNION {[table: {t}, patch: Bodies(t), at: {"read", "save"},
                   existing: RowOf(t) \cup {NULL}] : t \in Tables}

TypeOK ==
  /\ \A t \in DOMAIN AllFields : table[t] \in RowOf(t) \cup {NULL}
  /\ req \in [Requests -> Request \cup {NULL}]

Init ==
  /\ table = [t \in DOMAIN AllFields |-> NULL]
  /\ req = [r \in Requests |-> NULL]

-----------------------------------------------------------------------------

Completed(kind) == table["lock"] # NULL /\ table["lock"].data[kind]

Slip_RefusedOnOtherFlag(t, patch) ==
  \/ t = "budget" /\ Completed("eval")
  \/ t = "eval" /\ "dept" \in DOMAIN patch /\ Completed("budget")

\* assertUnlocked(), for a budget and for an evaluation with any field but irEval.
Refused(t, patch) ==
  \/ t = "budget" /\ Completed("budget")
  \/ t = "eval" /\ "dept" \in DOMAIN patch /\ Completed("eval")

\* A request arrives and passes the completion check, if it is subject to it.
Admit(r, t, patch) ==
  /\ req[r] = NULL
  /\ ~Refused(t, patch)
  /\ req' = [req EXCEPT ![r] = [table |-> t, patch |-> patch, at |-> "read", existing |-> NULL]]
  /\ UNCHANGED table

\* const existing = await repo.findOne(...)
Read(r) ==
  /\ req[r] # NULL
  /\ req[r].at = "read"
  /\ req' = [req EXCEPT ![r].at = "save", ![r].existing = table[req[r].table]]
  /\ UNCHANGED table

\* create({...existing, ...patch}): the fields not in the body are those read.
Merged(q) ==
  [f \in AllFields[q.table] |->
     IF f \in DOMAIN q.patch THEN q.patch[f]
     ELSE IF q.existing # NULL THEN q.existing.data[f] ELSE Empty(q.table)]

AllEmpty(data) == \A f \in DOMAIN data : data[f] = NULL

Slip_DeletesOnlyRowsRead(q) == /\ q.existing # NULL
                               /\ q.table \in {"budget", "result"}
                               /\ AllEmpty(Merged(q))

\* A budget row read before is deleted when both amounts are empty; a result
\* without a value is never stored.
Deletes(q) == /\ q.table = "budget" => q.existing # NULL
              /\ q.table \in {"budget", "result"}
              /\ AllEmpty(Merged(q))

UnusedId(t) == CHOOSE i \in Ids :
  \A q \in {req[r] : r \in Requests} \ {NULL} : q.table = t /\ q.existing # NULL => q.existing.id # i

\* repo.save(): update by the id read, or insert; an insert under a key that is
\* taken by now violates the unique constraint and the request fails.
Saved(q) ==
  LET current == table[q.table]
      id == IF q.existing = NULL THEN UnusedId(q.table) ELSE q.existing.id
  IN IF current # NULL /\ (q.existing = NULL \/ current.id # id) THEN current
     ELSE [id |-> id, data |-> Merged(q)]

\* repo.delete(id)
Deleted(q) ==
  LET current == table[q.table]
  IN IF q.existing # NULL /\ current # NULL /\ current.id = q.existing.id THEN NULL ELSE current

Save(r) ==
  /\ req[r] # NULL
  /\ req[r].at = "save"
  /\ table' = [table EXCEPT ![req[r].table] =
                 IF Deletes(req[r]) THEN Deleted(req[r]) ELSE Saved(req[r])]
  /\ req' = [req EXCEPT ![r] = NULL]

\* The TASK or the fund turns out not to be usable, or the process dies.
Drop(r) ==
  /\ req[r] # NULL
  /\ req' = [req EXCEPT ![r] = NULL]
  /\ UNCHANGED table

Next == \E r \in Requests :
          \/ \E t \in Tables : \E patch \in Bodies(t) : Admit(r, t, patch)
          \/ Read(r)
          \/ Save(r)
          \/ Drop(r)

\* The event loop resumes every handler whose query has been answered.
Fairness == \A r \in Requests : WF_vars(Read(r) \/ Save(r))

Spec == Init /\ [][Next]_vars /\ Fairness

-----------------------------------------------------------------------------
(* Properties                                                              *)

\* Once the budget is completed for good, it comes to rest: the saves admitted
\* before land, the later ones are refused.
BudgetSettles ==
  <>[]Completed("budget") => <>[][table'["budget"] = table["budget"]]_vars

\* However saves, deletions and re-insertions of a result interleave, no row
\* without a value is left: a cleared result counts as not entered.
ResultNeverEmpty ==
  table["result"] # NULL => table["result"].data["actualValue"] # NULL

\* strategic-plan.service.ts:739, "a completed self-evaluation cannot be
\* changed": completed for good, the departments' columns come to rest, although
\* the IR centre goes on saving its own column of the same row.
Dept == IF table["eval"] = NULL THEN NULL ELSE table["eval"].data["dept"]

DeptSettles == <>[]Completed("eval") => <>[][Dept' = Dept]_vars
=============================================================================
