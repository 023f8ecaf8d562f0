-------------------------- MODULE Workspace_proofs --------------------------
(***************************************************************************)
(* Theorems about the workspace of the departments.                        *)
(* - The server: reads and saves of any number of requests interleave, and *)
(*   a row stays a row (TypeOK), a stored result has a value.  A request   *)
(*   that inserts finds an unused key because there are more keys than     *)
(*   requests (UnusedExists).                                              *)
(* - The browser: what a timer, a request or a copy carries is of the year *)
(*   it will be stored for (StoreInv), unless it is drawn from the screen. *)
(***************************************************************************)
EXTENDS MCSpWorkspace, FiniteSetTheorems, TLAPS

-----------------------------------------------------------------------------
(* The requests the server has in hand.                                    *)

ServerInv ==
  /\ TypeOK
  /\ table = [t \in DOMAIN AllFields |-> table[t]]
  /\ ResultNeverEmpty

LEMMA FieldsOf ==
  /\ DOMAIN AllFields = {"lock", "budget", "eval", "result"}
  /\ AllFields["result"] = {"actualValue"}
  /\ Tables \subseteq DOMAIN AllFields
BY TablesAssumption DEF AllFields

LEMMA RequestIs ==
  ASSUME NEW q \in Request
  PROVE  /\ q.table \in Tables /\ q.table \in DOMAIN AllFields
         /\ q.patch \in Bodies(q.table) /\ q.at \in {"read", "save"}
         /\ q.existing \in RowOf(q.table) \cup {NULL}
<1>1. PICK t \in Tables : q \in [table: {t}, patch: Bodies(t), at: {"read", "save"},
                                 existing: RowOf(t) \cup {NULL}]
  BY DEF Request
<1> QED
  BY <1>1, FieldsOf

LEMMA IsRequest ==
  ASSUME NEW t \in Tables, NEW patch \in Bodies(t), NEW at \in {"read", "save"},
         NEW existing \in RowOf(t) \cup {NULL}
  PROVE  [table |-> t, patch |-> patch, at |-> at, existing |-> existing] \in Request
<1> DEFINE q == [table |-> t, patch |-> patch, at |-> at, existing |-> existing]
<1>1. q \in [table: {t}, patch: Bodies(t), at: {"read", "save"}, existing: RowOf(t) \cup {NULL}]
  OBVIOUS
<1> QED
  BY <1>1 DEF Request

\* A body gives its fields values of the table.
LEMMA BodyFields ==
  ASSUME NEW t, NEW p \in Bodies(t), NEW f \in DOMAIN p
  PROVE  p[f] \in ValueOf(t)
<1>1. PICK fields \in SUBSET AllFields[t] : p \in [fields -> ValueOf(t)]
  BY DEF Bodies, Patches
<1> QED
  BY <1>1

LEMMA MergedIsRow ==
  ASSUME NEW q \in Request
  PROVE  Merged(q) \in [AllFields[q.table] -> ValueOf(q.table)]
<1> SUFFICES ASSUME NEW f \in AllFields[q.table]
             PROVE  (IF f \in DOMAIN q.patch THEN q.patch[f]
                     ELSE IF q.existing # NULL THEN q.existing.data[f] ELSE Empty(q.table))
                       \in ValueOf(q.table)
  BY DEF Merged
<1>1. CASE f \in DOMAIN q.patch
  BY <1>1, RequestIs, BodyFields
<1>2. CASE f \notin DOMAIN q.patch /\ q.existing # NULL
  BY <1>2, RequestIs DEF RowOf
<1>3. CASE f \notin DOMAIN q.patch /\ q.existing = NULL
  BY <1>3 DEF Empty, ValueOf
<1> QED
  BY <1>1, <1>2, <1>3

\* There are more keys than requests in hand.
LEMMA UnusedExists ==
  ASSUME TypeOK, NEW t
  PROVE  UnusedId(t) \in Ids
<1> DEFINE holds(r, i) == req[r] # NULL /\ req[r].table = t /\ req[r].existing # NULL /\ req[r].existing.id = i
           holder == [i \in Ids |-> CHOOSE r \in Requests : holds(r, i)]
           n == Cardinality(Requests) + 1
<1>1. IsFiniteSet(Requests) /\ Cardinality(Requests) \in Nat
  BY ValuesAssumption, FS_CardinalityType
<1>2. IsFiniteSet(Ids) /\ Cardinality(Ids) = n
  <2>1. n \in Nat /\ 1 \in Nat /\ n >= 1
    BY <1>1
  <2> HIDE DEF n
  <2>2. IsFiniteSet(1..n) /\ Cardinality(1..n) = n - 1 + 1
    BY <2>1, FS_Interval
  <2> QED
    BY <2>1, <2>2 DEF Ids, n
<1>3. \E i \in Ids : \A r \in Requests : ~holds(r, i)
  <2> SUFFICES ASSUME \A i \in Ids : \E r \in Requests : holds(r, i)
               PROVE  FALSE
    OBVIOUS
  <2>1. \A i \in Ids : holder[i] \in Requests /\ holds(holder[i], i)
    OBVIOUS
  <2>2. holder \in [Ids -> Requests]
    BY <2>1
  <2> HIDE DEF holder
  <2>3. PICK i, j \in Ids : i # j /\ holder[i] = holder[j]
    BY <1>1, <1>2, <2>2, FS_PigeonHole
  <2> QED
    BY <2>1, <2>3
<1>4. PICK i \in Ids : \A r \in Requests : ~holds(r, i)
  BY <1>3
<1>5. \A q \in {req[r] : r \in Requests} \ {NULL} : q.table = t /\ q.existing # NULL => q.existing.id # i
  BY <1>4
<1> QED
  BY <1>5 DEF UnusedId

LEMMA AdmitKeepsInv ==
  ASSUME ServerInv, NEW r \in Requests, NEW t \in Tables, NEW patch \in Bodies(t), Admit(r, t, patch)
  PROVE  ServerInv'
<1>1. [table |-> t, patch |-> patch, at |-> "read", existing |-> NULL] \in Request
  BY IsRequest
<1> QED
  BY <1>1 DEF Admit, ServerInv, TypeOK, ResultNeverEmpty

LEMMA ReadKeepsInv ==
  ASSUME ServerInv, NEW r \in Requests, Read(r)
  PROVE  ServerInv'
<1> DEFINE q == req[r]
           new == [q EXCEPT !.at = "save", !.existing = table[q.table]]
<1>1. q \in Request
  BY DEF Read, ServerInv, TypeOK
<1>2. PICK t \in Tables : q \in [table: {t}, patch: Bodies(t), at: {"read", "save"},
                                 existing: RowOf(t) \cup {NULL}]
  BY <1>1 DEF Request
<1>5. table[q.table] \in RowOf(t) \cup {NULL}
  BY <1>2, FieldsOf DEF ServerInv, TypeOK
<1>6. new \in [table: {t}, patch: Bodies(t), at: {"read", "save"}, existing: RowOf(t) \cup {NULL}]
  BY <1>2, <1>5
<1>3. new \in Request
  BY <1>6 DEF Request
<1>4. req' = [req EXCEPT ![r] = new] /\ table' = table
  BY DEF Read, ServerInv, TypeOK
<1> HIDE DEF new
<1> QED
  BY <1>3, <1>4 DEF ServerInv, TypeOK, ResultNeverEmpty

LEMMA SavedRow ==
  ASSUME ServerInv, NEW q \in Request
  PROVE  /\ Saved(q) \in RowOf(q.table) \cup {NULL}
         /\ Deleted(q) \in RowOf(q.table) \cup {NULL}
         /\ q.table = "result" /\ ~Deletes(q) /\ Saved(q) # NULL => Saved(q).data["actualValue"] # NULL
         /\ q.table = "result" /\ Deleted(q) # NULL => Deleted(q).data["actualValue"] # NULL
<1> DEFINE current == table[q.table]
           id == IF q.existing = NULL THEN UnusedId(q.table) ELSE q.existing.id
           new == [id |-> id, data |-> Merged(q)]
<1>1. current \in RowOf(q.table) \cup {NULL}
  BY RequestIs DEF ServerInv, TypeOK
<1>2. id \in Ids
  BY RequestIs, UnusedExists DEF ServerInv, RowOf
<1>3. new \in RowOf(q.table) /\ new.data = Merged(q)
  BY <1>2, MergedIsRow DEF RowOf
<1>4. q.table = "result" /\ ~Deletes(q) => Merged(q)["actualValue"] # NULL
  <2> SUFFICES ASSUME q.table = "result", ~Deletes(q)
               PROVE  Merged(q)["actualValue"] # NULL
    OBVIOUS
  <2>1. \E f \in DOMAIN Merged(q) : Merged(q)[f] # NULL
    BY DEF Deletes, AllEmpty
  <2>2. DOMAIN Merged(q) = {"actualValue"}
    BY FieldsOf DEF Merged
  <2> QED
    BY <2>1, <2>2
<1>5. q.table = "result" /\ current # NULL => current.data["actualValue"] # NULL
  BY DEF ServerInv, ResultNeverEmpty
<1>6. Saved(q) = current \/ Saved(q) = new
  BY DEF Saved
<1>7. Deleted(q) = current \/ Deleted(q) = NULL
  BY DEF Deleted
<1> HIDE DEF current, new
<1> QED
  BY <1>1, <1>3, <1>4, <1>5, <1>6, <1>7

LEMMA SaveKeepsInv ==
  ASSUME ServerInv, NEW r \in Requests, Save(r)
  PROVE  ServerInv'
<1> DEFINE q == req[r]
           row == IF Deletes(q) THEN Deleted(q) ELSE Saved(q)
<1>1. q \in Request
  BY DEF Save, ServerInv, TypeOK
<1>2. q.table \in DOMAIN AllFields
  BY <1>1, RequestIs
<1>3. /\ row \in RowOf(q.table) \cup {NULL}
      /\ q.table = "result" /\ row # NULL => row.data["actualValue"] # NULL
  BY <1>1, SavedRow
<1>4. req' = [req EXCEPT ![r] = NULL] /\ table' = [table EXCEPT ![q.table] = row]
  BY DEF Save
<1> HIDE DEF row, q
<1>5. /\ \A t \in DOMAIN AllFields : table'[t] = IF t = q.table THEN row ELSE table[t]
      /\ table' = [t \in DOMAIN AllFields |-> table'[t]]
  BY <1>2, <1>4, FieldsOf DEF ServerInv, TypeOK
<1>6. req' \in [Requests -> Request \cup {NULL}]
  BY <1>4 DEF ServerInv, TypeOK
<1> QED
  BY <1>3, <1>5, <1>6, FieldsOf DEF ServerInv, TypeOK, ResultNeverEmpty

LEMMA DropKeepsInv ==
  ASSUME ServerInv, NEW r \in Requests, Drop(r)
  PROVE  ServerInv'
BY DEF Drop, ServerInv, TypeOK, ResultNeverEmpty

LEMMA InitServer == Init => ServerInv
BY DEF Init, ServerInv, TypeOK, ResultNeverEmpty, AllFields

LEMMA NextServer == ServerInv /\ [Next]_vars => ServerInv'
<1> SUFFICES ASSUME ServerInv, [Next]_vars PROVE ServerInv'
  OBVIOUS
<1>1. CASE UNCHANGED vars
  BY <1>1 DEF vars, ServerInv, TypeOK, ResultNeverEmpty
<1> QED
  BY <1>1, AdmitKeepsInv, ReadKeepsInv, SaveKeepsInv, DropKeepsInv DEF Next

-----------------------------------------------------------------------------
(* The browser.                                                            *)

Answer == [draft : [Cells -> Entry], locks : SUBSET LockKinds]

\* A fetch that has its answer, a completion and a copy under way.
LoadOK(l) == l.year \in Years /\ (l.at = "answer" => l.answer \in Answer)
AskOK(a) == a.year \in Years /\ a.kind \in LockKinds
CopyOK ==
  copy # NULL =>
    /\ copy.year \in Years /\ copy.year - 1 \in Years /\ "amount" \in Cells
    /\ copy.at = "save" => /\ copy.amount \in Entry /\ copy.amount.year = copy.year
                           /\ copy.next \in [Cells -> Entry]

\* What waits or is under way is of the year it is for.
OnTheWay ==
  /\ \A k \in Cells \X Years :
       timers[k] # NULL => timers[k].value.year = timers[k].year /\ timers[k].value.edit > 0
  /\ \A r \in inflight : ~AllCells[r.cell].drawn => r.value.year = r.year

StoreInv ==
  /\ PlanStoreTypeOK
  /\ typed \subseteq Edit /\ IsFiniteSet(typed)
  /\ \A l \in loads : LoadOK(l)
  /\ \A a \in asked : AskOK(a)
  /\ CopyOK
  /\ OnTheWay
  /\ TypedKeepsYear

LEMMA Drawn == ~AllCells["amount"].drawn /\ Cells \subseteq DOMAIN AllCells /\ Years \subseteq Nat /\ MaxEdits \in Nat
BY PlanStoreAssumption DEF AllCells

\* A new edit waits, and shows, for the year on screen.
LEMMA TypeKeeps ==
  ASSUME StoreInv, NEW c \in Cells, NEW valid \in BOOLEAN, Type(c, valid)
  PROVE  StoreInv'
<1> DEFINE n == Cardinality(typed) + 1
           value == [year |-> year, edit |-> n]
           e == [cell |-> c, year |-> year, value |-> value, valid |-> valid]
<1>1. n \in 1..MaxEdits /\ year \in Years
  BY FS_CardinalityType, Drawn DEF Type, StoreInv, PlanStoreTypeOK
<1>2. value \in Entry /\ value.year = year /\ value.edit > 0
  BY <1>1 DEF Entry
<1> HIDE DEF value
<1>3. e \in Edit /\ e.value = value /\ e.year = year
  BY <1>1, <1>2 DEF Edit
<1>4. /\ draft' = [draft EXCEPT ![c] = e.value] /\ timers' = [timers EXCEPT ![<<c, year>>] = e]
      /\ typed' = typed \cup {e}
      /\ UNCHANGED <<stored, completed, year, locks, inflight, loads, asked, copy, heard, failures>>
  BY DEF Type, SaveKey, value
<1> HIDE DEF e
<1>5. timers' \in [Cells \X Years -> Edit \cup {NULL}] /\ draft' \in [Cells -> Entry]
  BY <1>1, <1>2, <1>3, <1>4 DEF StoreInv, PlanStoreTypeOK
<1>6. PlanStoreTypeOK'
  BY <1>4, <1>5 DEF StoreInv, PlanStoreTypeOK
<1>7. \A k \in Cells \X Years : timers'[k] = e \/ timers'[k] = timers[k]
  BY <1>4 DEF StoreInv, PlanStoreTypeOK
<1>8. OnTheWay'
  BY <1>2, <1>3, <1>4, <1>7 DEF StoreInv, OnTheWay
<1>9. typed' \subseteq Edit /\ IsFiniteSet(typed')
  BY <1>3, <1>4, FS_AddElement DEF StoreInv
<1>10. CopyOK' /\ TypedKeepsYear'
  BY <1>4 DEF StoreInv, CopyOK, TypedKeepsYear, OfYear
<1> QED
  BY <1>4, <1>6, <1>8, <1>9, <1>10 DEF StoreInv

LEMMA FireKeeps ==
  ASSUME StoreInv, NEW k \in Cells \X Years, Fire(k)
  PROVE  StoreInv'
<1> DEFINE e == timers[k]
<1>1. /\ e \in Edit /\ e.value.year = e.year /\ e.value.edit \in 1..MaxEdits
      /\ e.cell \in Cells /\ e.year \in Years /\ e.value \in Entry
  BY Drawn DEF Fire, StoreInv, PlanStoreTypeOK, OnTheWay, Edit, Entry
<1>2. /\ Sent(e) \in [cell : Cells, year : Years, value : Entry, edit : 1..MaxEdits]
      /\ Sent(e).cell = e.cell
      /\ ~AllCells[e.cell].drawn => Sent(e).value.year = Sent(e).year
  BY <1>1 DEF Sent, StoreInv, PlanStoreTypeOK
<1>3. /\ timers' = [timers EXCEPT ![k] = NULL]
      /\ inflight' = inflight \cup {Sent(e)} \/ inflight' = inflight
      /\ heard' = heard \cup {e.value.edit} \/ heard' = heard
      /\ UNCHANGED <<stored, completed, year, draft, locks, loads, asked, copy, typed, failures>>
  BY DEF Fire
<1> HIDE DEF e
<1>4. timers' \in [Cells \X Years -> Edit \cup {NULL}]
  BY <1>3 DEF StoreInv, PlanStoreTypeOK
<1>5. PlanStoreTypeOK'
  BY <1>1, <1>2, <1>3, <1>4 DEF StoreInv, PlanStoreTypeOK
<1>6. \A j \in Cells \X Years : timers'[j] = NULL \/ timers'[j] = timers[j]
  BY <1>3 DEF StoreInv, PlanStoreTypeOK
<1>7. OnTheWay'
  BY <1>2, <1>3, <1>6 DEF StoreInv, OnTheWay
<1>8. CopyOK' /\ TypedKeepsYear'
  BY <1>3 DEF StoreInv, CopyOK, TypedKeepsYear, OfYear
<1> QED
  BY <1>3, <1>5, <1>7, <1>8 DEF StoreInv

\* Storing a value of the year keeps what is stored of its year.
LEMMA StoreKeeps ==
  ASSUME StoreInv, NEW y \in Years, NEW c \in Cells, NEW v \in Entry,
         ~AllCells[c].drawn => v.year = y,
         stored' = [stored EXCEPT ![y][c] = v]
  PROVE  TypedKeepsYear' /\ stored' \in [Years -> [Cells -> Entry]]
<1> DEFINE cells == [stored[y] EXCEPT ![c] = v]
<1>1. cells \in [Cells -> Entry] /\ \A d \in Cells : cells[d] = IF d = c THEN v ELSE stored[y][d]
  BY DEF StoreInv, PlanStoreTypeOK
<1>2. stored' = [stored EXCEPT ![y] = cells]
  OBVIOUS
<1> HIDE DEF cells
<1>3. stored' \in [Years -> [Cells -> Entry]]
  BY <1>1, <1>2 DEF StoreInv, PlanStoreTypeOK
<1>4. \A z \in Years, d \in Cells :
        stored'[z][d] = IF z = y /\ d = c THEN v ELSE stored[z][d]
  BY <1>1, <1>2 DEF StoreInv, PlanStoreTypeOK
<1> QED
  BY <1>3, <1>4 DEF StoreInv, TypedKeepsYear, OfYear

LEMMA HandleSaveKeeps ==
  ASSUME StoreInv, NEW r \in inflight, HandleSave(r)
  PROVE  StoreInv'
<1>1. /\ r.cell \in Cells /\ r.year \in Years /\ r.value \in Entry /\ r.edit \in 1..MaxEdits
      /\ ~AllCells[r.cell].drawn => r.value.year = r.year
  BY DEF StoreInv, PlanStoreTypeOK, OnTheWay
<1>2. /\ inflight' = inflight \ {r} /\ heard' = heard \cup {r.edit}
      /\ stored' = [stored EXCEPT ![r.year][r.cell] = r.value] \/ stored' = stored
      /\ UNCHANGED <<completed, year, draft, locks, timers, loads, asked, copy, typed, failures>>
  BY DEF HandleSave
<1>3. TypedKeepsYear' /\ stored' \in [Years -> [Cells -> Entry]]
  <2>1. CASE stored' = stored
    BY <2>1 DEF StoreInv, PlanStoreTypeOK, TypedKeepsYear, OfYear
  <2> QED
    BY <1>1, <1>2, <2>1, StoreKeeps
<1>4. PlanStoreTypeOK'
  BY <1>1, <1>2, <1>3 DEF StoreInv, PlanStoreTypeOK
<1>5. OnTheWay' /\ CopyOK'
  BY <1>2 DEF StoreInv, OnTheWay, CopyOK
<1> QED
  BY <1>2, <1>3, <1>4, <1>5 DEF StoreInv

LEMMA LoseSaveKeeps ==
  ASSUME StoreInv, NEW r \in inflight, LoseSave(r)
  PROVE  StoreInv'
<1>1. /\ r.edit \in 1..MaxEdits /\ failures + 1 \in 0..MaxFailures
  BY PlanStoreAssumption DEF LoseSave, StoreInv, PlanStoreTypeOK
<1>2. /\ inflight' = inflight \ {r} /\ heard' = heard \cup {r.edit} /\ failures' = failures + 1
      /\ UNCHANGED <<stored, completed, year, draft, locks, timers, loads, asked, copy, typed>>
  BY DEF LoseSave
<1>3. PlanStoreTypeOK'
  BY <1>1, <1>2 DEF StoreInv, PlanStoreTypeOK
<1>4. OnTheWay' /\ CopyOK' /\ TypedKeepsYear'
  BY <1>2 DEF StoreInv, OnTheWay, CopyOK, TypedKeepsYear, OfYear
<1> QED
  BY <1>2, <1>3, <1>4 DEF StoreInv

\* Steps of a fetch: what is stored and what waits stays.
LEMMA LoadKeeps ==
  ASSUME StoreInv, UNCHANGED <<stored, completed, timers, inflight, asked, copy, typed, heard>>,
         year' \in Years, draft' \in [Cells -> Entry], locks' \subseteq LockKinds,
         failures' \in 0..MaxFailures, \A l \in loads' : LoadOK(l)
  PROVE  StoreInv'
<1>1. PlanStoreTypeOK'
  BY DEF StoreInv, PlanStoreTypeOK
<1>2. OnTheWay' /\ CopyOK' /\ TypedKeepsYear'
  BY DEF StoreInv, OnTheWay, CopyOK, TypedKeepsYear, OfYear
<1> QED
  BY <1>1, <1>2 DEF StoreInv, LoadOK

LEMMA FetchKeeps ==
  ASSUME StoreInv,
         \/ \E y \in Years : SetYear(y) \/ Reload(y)
         \/ \E l \in loads : \/ \E fails \in BOOLEAN : TreeArrives(l, fails)
                             \/ ReadEntries(l) \/ ShowEntries(l) \/ LoseEntries(l)
  PROVE  StoreInv'
<1>1. /\ year \in Years /\ draft \in [Cells -> Entry] /\ locks \subseteq LockKinds
      /\ failures \in 0..MaxFailures /\ MaxFailures \in Nat /\ \A l \in loads : LoadOK(l)
  BY PlanStoreAssumption DEF StoreInv, PlanStoreTypeOK
<1>2. ASSUME NEW y \in Years, SetYear(y) \/ Reload(y)
      PROVE  StoreInv'
  <2>1. PICK at \in {"tree", "latest"} :
          loads' = loads \cup {[id |-> begun.loads, year |-> y, at |-> at, answer |-> NULL]}
    BY <1>2 DEF SetYear, Reload
  <2>2. \A l \in loads' : LoadOK(l)
    BY <1>1, <2>1 DEF LoadOK
  <2>3. UNCHANGED <<stored, completed, timers, inflight, asked, copy, typed, heard, draft, locks, failures>>
        /\ year' \in Years
    BY <1>1, <1>2 DEF SetYear, Reload
  <2> QED
    BY <1>1, <2>2, <2>3, LoadKeeps
<1>3. ASSUME NEW l \in loads, NEW fails \in BOOLEAN, TreeArrives(l, fails)
      PROVE  StoreInv'
  <2>1. LoadOK(l)
    BY <1>1
  <2>2. LoadOK([l EXCEPT !.at = "entries"])
    BY <2>1 DEF LoadOK
  <2>3. \A m \in loads' : LoadOK(m)
    BY <1>1, <1>3, <2>2 DEF TreeArrives
  <2>4. /\ UNCHANGED <<stored, completed, timers, inflight, asked, copy, typed, heard, draft, locks>>
        /\ year' \in Years /\ failures' \in 0..MaxFailures
    BY <1>1, <1>3, <2>1 DEF TreeArrives, LoadOK
  <2> QED
    BY <1>1, <2>3, <2>4, LoadKeeps
<1>4. ASSUME NEW l \in loads, ReadEntries(l)
      PROVE  StoreInv'
  <2> DEFINE m == [l EXCEPT !.at = "answer", !.answer = Shown(l.year)]
  <2>1. LoadOK(l)
    BY <1>1
  <2>2. Shown(l.year) \in Answer
    BY <2>1 DEF LoadOK, Shown, Answer, StoreInv, PlanStoreTypeOK
  <2>3. LoadOK(m)
    BY <2>1, <2>2 DEF LoadOK
  <2>4. loads' = (loads \ {l}) \cup {m}
    BY <1>4 DEF ReadEntries
  <2> HIDE DEF m
  <2>5. UNCHANGED <<stored, completed, year, draft, locks, timers, inflight, asked, copy, typed, heard, failures>>
    BY <1>4 DEF ReadEntries
  <2> QED
    BY <1>1, <2>3, <2>4, <2>5, LoadKeeps
<1>5. ASSUME NEW l \in loads, ShowEntries(l)
      PROVE  StoreInv'
  <2>1. l.answer \in Answer
    BY <1>1, <1>5 DEF ShowEntries, LoadOK
  <2>2. draft' \in [Cells -> Entry] /\ locks' \subseteq LockKinds
    BY <1>5, <2>1 DEF ShowEntries, Answer
  <2>3. /\ UNCHANGED <<stored, completed, year, timers, inflight, asked, copy, typed, heard, failures>>
        /\ \A m \in loads' : LoadOK(m)
    BY <1>1, <1>5 DEF ShowEntries
  <2> QED
    BY <1>1, <2>2, <2>3, LoadKeeps
<1>6. ASSUME NEW l \in loads, LoseEntries(l)
      PROVE  StoreInv'
  <2>1. /\ UNCHANGED <<stored, completed, year, draft, locks, timers, inflight, asked, copy, typed, heard>>
        /\ failures' \in 0..MaxFailures /\ \A m \in loads' : LoadOK(m)
    BY <1>1, <1>6 DEF LoseEntries
  <2> QED
    BY <1>1, <2>1, LoadKeeps
<1> QED
  BY <1>2, <1>3, <1>4, <1>5, <1>6

\* Steps of a completion.
LockFrame ==
  /\ UNCHANGED <<stored, year, draft, timers, inflight, loads, copy, typed, heard, failures>>
  /\ completed' \in [Years -> SUBSET LockKinds] /\ locks' \subseteq LockKinds
  /\ \A a \in asked' : AskOK(a)

LEMMA LockKeeps ==
  ASSUME StoreInv,
         \/ \E kind \in LockKinds : AskLock(kind)
         \/ \E a \in asked : SaveLock(a) \/ ShowLock(a)
  PROVE  StoreInv'
<1>1. LockFrame
  <2>1. /\ completed \in [Years -> SUBSET LockKinds] /\ locks \subseteq LockKinds /\ year \in Years
        /\ \A a \in asked : AskOK(a)
    BY DEF StoreInv, PlanStoreTypeOK
  <2>2. ASSUME NEW kind \in LockKinds, AskLock(kind)
        PROVE  LockFrame
    BY <2>1, <2>2 DEF AskLock, AskOK, LockFrame
  <2>3. ASSUME NEW a \in asked, SaveLock(a)
        PROVE  LockFrame
    <3>1. AskOK(a) /\ AskOK([a EXCEPT !.at = "saved"])
      BY <2>1 DEF AskOK
    <3>2. completed' \in [Years -> SUBSET LockKinds]
      BY <2>1, <2>3, <3>1 DEF SaveLock, Toggled, AskOK
    <3> QED
      BY <2>1, <2>3, <3>1, <3>2 DEF SaveLock, LockFrame
  <2>4. ASSUME NEW a \in asked, ShowLock(a)
        PROVE  LockFrame
    BY <2>1, <2>4 DEF ShowLock, Toggled, AskOK, LockFrame
  <2> QED
    BY <2>2, <2>3, <2>4
<1>2. PlanStoreTypeOK'
  BY <1>1 DEF LockFrame, StoreInv, PlanStoreTypeOK
<1>3. OnTheWay' /\ CopyOK' /\ TypedKeepsYear'
  BY <1>1 DEF LockFrame, StoreInv, OnTheWay, CopyOK, TypedKeepsYear, OfYear
<1> QED
  BY <1>1, <1>2, <1>3 DEF LockFrame, StoreInv, AskOK, LoadOK

\* Steps of copying last year's budgets, up to the save.
LEMMA CopyKeeps ==
  ASSUME StoreInv, StartCopy \/ \E usable \in BOOLEAN : TakeCopy(usable)
  PROVE  StoreInv'
<1>1. UNCHANGED <<stored, completed, year, draft, locks, timers, inflight, loads, asked, typed, heard, failures>>
  BY DEF StartCopy, TakeCopy
<1>2. CopyOK'
  <2>1. CASE StartCopy
    BY <2>1 DEF StartCopy, CopyOK, Preceding, StoreInv, PlanStoreTypeOK
  <2>2. ASSUME NEW usable \in BOOLEAN, TakeCopy(usable)
        PROVE  CopyOK'
    <3> DEFINE last == stored[copy.year - 1]["amount"]
               amount == [last EXCEPT !.year = copy.year]
               next == [draft EXCEPT !["amount"] = amount]
               new == [copy EXCEPT !.at = "save", !.amount = amount, !.next = next]
    <3>1. CASE copy' = NULL
      BY <3>1 DEF CopyOK
    <3>2. CASE copy' = new
      <4>1. /\ copy # NULL /\ copy.at = "fetch"
            /\ copy.year \in Years /\ copy.year - 1 \in Years /\ "amount" \in Cells
        BY <2>2 DEF TakeCopy, StoreInv, CopyOK
      <4>2. last \in Entry
        BY <4>1 DEF StoreInv, PlanStoreTypeOK
      <4>3. amount \in Entry /\ amount.year = copy.year
        BY <4>1, <4>2 DEF Entry
      <4>4. next \in [Cells -> Entry]
        BY <4>3 DEF StoreInv, PlanStoreTypeOK
      <4> HIDE DEF amount, next
      <4> QED
        BY <3>2, <4>1, <4>3, <4>4 DEF CopyOK
    <3> QED
      BY <2>2, <3>1, <3>2 DEF TakeCopy
  <2> QED
    BY <2>1, <2>2
<1>3. PlanStoreTypeOK' /\ OnTheWay' /\ TypedKeepsYear'
  BY <1>1 DEF StoreInv, PlanStoreTypeOK, OnTheWay, TypedKeepsYear, OfYear
<1> QED
  BY <1>1, <1>2, <1>3 DEF StoreInv

LEMMA EndCopyKeeps ==
  ASSUME StoreInv, EndCopy
  PROVE  StoreInv'
<1>1. /\ copy.year \in Years /\ "amount" \in Cells /\ copy.amount \in Entry
      /\ copy.amount.year = copy.year /\ copy.next \in [Cells -> Entry]
  BY DEF EndCopy, StoreInv, CopyOK
<1>2. /\ copy' = NULL
      /\ \/ /\ stored' = [stored EXCEPT ![copy.year]["amount"] = copy.amount]
            /\ draft' = [draft EXCEPT !["amount"] = copy.next["amount"]]
         \/ UNCHANGED <<stored, draft>>
      /\ UNCHANGED <<completed, year, locks, timers, inflight, loads, asked, typed, heard, failures>>
  BY DEF EndCopy
<1>3. TypedKeepsYear' /\ stored' \in [Years -> [Cells -> Entry]]
  <2>1. CASE stored' = stored
    BY <2>1 DEF StoreInv, PlanStoreTypeOK, TypedKeepsYear, OfYear
  <2>2. CASE stored' = [stored EXCEPT ![copy.year]["amount"] = copy.amount]
    BY <1>1, <2>2, StoreKeeps
  <2> QED
    BY <1>2, <2>1, <2>2
<1>4. draft' \in [Cells -> Entry]
  BY <1>1, <1>2 DEF StoreInv, PlanStoreTypeOK
<1>5. PlanStoreTypeOK'
  BY <1>2, <1>3, <1>4 DEF StoreInv, PlanStoreTypeOK
<1>6. OnTheWay' /\ CopyOK'
  BY <1>2 DEF StoreInv, OnTheWay, CopyOK
<1> QED
  BY <1>2, <1>3, <1>5, <1>6 DEF StoreInv

LEMMA InitStore == PlanStoreInit => StoreInv
<1> SUFFICES ASSUME PlanStoreInit PROVE StoreInv
  OBVIOUS
<1>1. \A y \in Years : [year |-> y, edit |-> 0] \in Entry
  BY Drawn DEF Entry
<1>2. /\ stored \in [Years -> [Cells -> Entry]]
      /\ \A y \in Years, c \in Cells : stored[y][c].year = y
  BY <1>1 DEF PlanStoreInit
<1>3. PlanStoreTypeOK
  BY <1>2, PlanStoreAssumption DEF PlanStoreInit, PlanStoreTypeOK
<1>4. TypedKeepsYear
  BY <1>2 DEF TypedKeepsYear, OfYear
<1>5. OnTheWay
  BY DEF PlanStoreInit, OnTheWay
<1> QED
  BY <1>3, <1>4, <1>5, FS_EmptySet DEF PlanStoreInit, StoreInv, CopyOK

LEMMA NextStore == StoreInv /\ [PlanStoreNext]_pvars => StoreInv'
<1> SUFFICES ASSUME StoreInv, [PlanStoreNext]_pvars PROVE StoreInv'
  OBVIOUS
<1>1. CASE UNCHANGED pvars
  BY <1>1 DEF pvars, StoreInv, PlanStoreTypeOK, LoadOK, AskOK, CopyOK, OnTheWay, TypedKeepsYear, OfYear
<1>2. CASE Proceed
  BY <1>2, FireKeeps, HandleSaveKeeps, FetchKeeps, LockKeeps, CopyKeeps, EndCopyKeeps DEF Proceed
<1> QED
  BY <1>1, <1>2, TypeKeeps, FetchKeeps, LockKeeps, CopyKeeps, LoseSaveKeeps DEF PlanStoreNext

-----------------------------------------------------------------------------

LEMMA WorkspaceHolds == MCSpec => [](ServerInv /\ StoreInv)
<1>1. MCInit => ServerInv /\ StoreInv
  BY InitServer, InitStore DEF MCInit
<1>2. ServerInv /\ StoreInv /\ [MCNext]_<<scene, vars, pvars>> => ServerInv' /\ StoreInv'
  <2> SUFFICES ASSUME ServerInv, StoreInv, [MCNext]_<<scene, vars, pvars>>
               PROVE  ServerInv' /\ StoreInv'
    OBVIOUS
  <2>1. [Next]_vars /\ [PlanStoreNext]_pvars
    BY DEF MCNext
  <2> QED
    BY <2>1, NextServer, NextStore
<1> QED
  BY <1>1, <1>2, PTL DEF MCSpec

\* However many departments save, clear and save again at the same time, rows stay rows and
\* no result row is left without a value (saveKpiResult); and the browser that sends the
\* requests keeps its variables in their sets.
THEOREM TablesStaySound == MCSpec => []SoundTables
<1>1. ServerInv /\ StoreInv => SoundTables
  BY DEF ServerInv, StoreInv, SoundTables
<1> QED
  BY <1>1, WorkspaceHolds, PTL

\* A text, an amount or a result is stored for the year it was typed for only, whatever
\* timers, changes of year, reloads and copies are under way (useStrategicPlanStore.ts).
THEOREM TypedStaysInItsYear == MCSpec => []TypedKeepsYear
<1>1. ServerInv /\ StoreInv => TypedKeepsYear
  BY DEF StoreInv
<1> QED
  BY <1>1, WorkspaceHolds, PTL
=============================================================================
