--------------------------- MODULE SpFunds_proofs ---------------------------
(***************************************************************************)
(* Theorems about the fund sources, for any funds, names, years and bound. *)
(*                                                                         *)
(* The inductive invariant is RowsAgree: at most one open row, it carries  *)
(* the name of the live row, and a live fund has one.  It rests on one     *)
(* fact about writeVersion (WriteVersionOpen): when at most one row is     *)
(* open before, the open rows after it are exactly the row it inserted.    *)
(* From it follow the archive, the year an edit shows in, and, with two    *)
(* more invariants, that the store implements the timeline.                *)
(***************************************************************************)
EXTENDS MCSpFunds, ItemVersions_proofs

USE YearsAssumption, NullAssumption

-----------------------------------------------------------------------------
(* Types.                                                                  *)

LEMMA StoredRow ==
  ASSUME TypeOK, NEW f \in Stored
  PROVE  f \in Funds /\ row[f] \in Row
BY DEF TypeOK, Stored

\* A request keeps the types when the row it saves and the payloads it writes
\* are rows.
LEMMA CommitType ==
  ASSUME TypeOK, NEW f \in Funds, NEW y \in Years, NEW type \in ChangeTypes,
         NEW new \in Row, NEW payload \in Row, NEW before \in Row \cup {NULL},
         type \in {"update", "abolish"} => before \in Row,
         Commit(f, new, y, type, payload, before)
  PROVE  TypeOK'
<1>1. row' \in [Funds -> Row \cup {NULL}]
  BY DEF TypeOK, Commit
<1>2. WriteVersion(versions[f], writes + 1, y, type, payload, before) \in SUBSET Version(Row)
  <2>1. versions[f] \in SUBSET Version(Row) /\ writes + 1 \in Nat
    BY DEF TypeOK
  <2> QED
    BY <2>1, WriteVersionType
<1>3. versions' \in [Funds -> SUBSET Version(Row)]
  BY <1>2 DEF TypeOK, Commit
<1>4. log' \subseteq LogEntry \cup RevisionEntry
  BY DEF TypeOK, Commit, LogEntry
<1>5. writes' \in Nat
  BY DEF TypeOK, Commit
<1> QED
  BY <1>1, <1>3, <1>4, <1>5 DEF TypeOK

LEMMA AbolishedRow ==
  ASSUME NEW r \in Row, NEW y \in Years
  PROVE  Abolished(r, y) \in Row /\ Abolished(r, y).abolished # NULL
<1>1. y # NULL /\ y \in YearOrNull
  BY DEF YearOrNull, Years
<1>2. Abolished(r, y) \in Row
  BY <1>1 DEF Abolished, Row
<1>3. Abolished(r, y).abolished = y
  BY DEF Abolished, Row
<1> QED
  BY <1>1, <1>2, <1>3

\* Every open row the start-up hook can align a live row with has a plan year.
LEMMA LiveFromOpenRow ==
  ASSUME NEW r \in Row, NEW vs \in SUBSET Version(Row)
  PROVE  LiveFromOpen(r, vs) \in Row
<1>1. CASE First(OpenRows(vs)) = {}
  BY <1>1 DEF LiveFromOpen
<1>2. CASE First(OpenRows(vs)) # {}
  <2> DEFINE v == CHOOSE v \in First(OpenRows(vs)) : TRUE
  <2>1. v \in vs
    BY <1>2 DEF First, OpenRows
  <2>2. v.from \in Years
    BY <2>1 DEF Version
  <2> QED
    BY <1>2, <2>2 DEF LiveFromOpen, Row, YearOrNull
<1> QED
  BY <1>1, <1>2

LEMMA InitType == Init => TypeOK
<1>1. ASSUME NEW name \in Names PROVE Seeded(name) \in Row
  BY <1>1 DEF Seeded, Row, Years, YearOrNull
<1>2. Init => row \in [Funds -> Row \cup {NULL}]
  BY <1>1 DEF Init
<1> QED
  BY <1>2 DEF Init, TypeOK

\* Whatever a request does, it leaves rows, version rows and log entries.
LEMMA NextType == TypeOK /\ [Next]_vars => TypeOK'
<1> SUFFICES ASSUME TypeOK, [Next]_vars PROVE TypeOK'
  OBVIOUS
<1>1. ASSUME NEW f \in Funds, NEW name \in Names, NEW y \in Years, CreateFund(f, name, y)
      PROVE  TypeOK'
  <2>1. [name |-> name, from |-> y, abolished |-> NULL, active |-> TRUE] \in Row
    BY DEF Row, YearOrNull
  <2> QED
    BY <1>1, <2>1, CommitType DEF CreateFund, ChangeTypes
<1>2. ASSUME NEW f \in Funds, NEW name \in Names, NEW y \in Years, RenameFund(f, name, y)
      PROVE  TypeOK'
  <2>1. row[f] \in Row /\ [row[f] EXCEPT !.name = name] \in Row
    BY <1>2, StoredRow DEF RenameFund, Row
  <2> QED
    BY <1>2, <2>1, CommitType DEF RenameFund, ChangeTypes
<1>3. ASSUME NEW f \in Funds, NEW y \in Years, AbolishFund(f, y)
      PROVE  TypeOK'
  <2>1. row[f] \in Row /\ Abolished(row[f], y) \in Row
    BY <1>3, StoredRow, AbolishedRow DEF AbolishFund
  <2> QED
    BY <1>3, <2>1, CommitType DEF AbolishFund, ChangeTypes
<1>4. ASSUME NEW e \in log, RollbackFund(e)
      PROVE  TypeOK'
  <2>1. e \in LogEntry /\ e.before \in Row
    BY <1>4 DEF TypeOK, RollbackFund, RevisionEntry, LogEntry
  <2>2. e.fund \in Funds /\ e.year \in Years
    BY <2>1 DEF LogEntry
  <2>3. row[e.fund] \in Row
    BY <1>4, <2>2, StoredRow DEF RollbackFund
  <2>4. [row[e.fund] EXCEPT !.name = e.before.name, !.active = e.before.active,
                            !.abolished = e.before.abolished] \in Row
    BY <2>1, <2>3 DEF Row
  <2> QED
    BY <1>4, <2>2, <2>3, <2>4, CommitType DEF RollbackFund, ChangeTypes
<1>5. ASSUME NEW y \in Years, FullReviseFunds(y)
      PROVE  TypeOK'
  <2>1. ASSUME NEW f \in Live
        PROVE  f \in Funds /\ row[f] \in Row /\ Abolished(row[f], y) \in Row
    BY <2>1, StoredRow, AbolishedRow DEF Live
  <2>2. row' \in [Funds -> Row \cup {NULL}]
    BY <1>5, <2>1 DEF FullReviseFunds, TypeOK
  <2>3. ASSUME NEW f \in Live
        PROVE  WriteVersion(versions[f], writes + 1, y, "abolish", row[f], row[f])
                 \in SUBSET Version(Row)
    <3>1. versions[f] \in SUBSET Version(Row) /\ writes + 1 \in Nat
      BY <2>1, <2>3 DEF TypeOK
    <3> QED
      BY <2>1, <2>3, <3>1, WriteVersionType DEF ChangeTypes
  <2>4. versions' \in [Funds -> SUBSET Version(Row)]
    BY <1>5, <2>3 DEF FullReviseFunds, TypeOK
  <2>5. ASSUME NEW f \in Live
        PROVE  [id |-> writes + 1, fund |-> f, year |-> y, type |-> "abolish",
                before |-> row[f]] \in LogEntry
    BY <2>1, <2>5 DEF LogEntry, ChangeTypes, TypeOK
  <2>6. log' \subseteq LogEntry \cup RevisionEntry
    BY <1>5, <2>5 DEF FullReviseFunds, TypeOK, RevisionEntry
  <2>7. writes' \in Nat
    BY <1>5 DEF FullReviseFunds, TypeOK
  <2> QED
    BY <2>2, <2>4, <2>6, <2>7 DEF TypeOK
<1>6. ASSUME NEW f \in Funds, NEW active \in BOOLEAN, SetFundActive(f, active)
      PROVE  TypeOK'
  <2>1. row[f] \in Row /\ [row[f] EXCEPT !.active = active] \in Row
    BY <1>6, StoredRow DEF SetFundActive, Row
  <2> QED
    BY <1>6, <2>1 DEF SetFundActive, TypeOK
<1>7. CASE Restart
  <2>1. ASSUME NEW f \in Stored
        PROVE  LiveFromOpen(row[f], versions[f]) \in Row
    BY <2>1, StoredRow, LiveFromOpenRow DEF TypeOK
  <2> QED
    BY <1>7, <2>1 DEF Restart, TypeOK
<1>8. CASE UNCHANGED vars
  BY <1>8 DEF vars, TypeOK
<1> QED
  BY <1>1, <1>2, <1>3, <1>4, <1>5, <1>6, <1>7, <1>8 DEF Next

\* Every reachable state is well typed: every year in a version row, computed
\* ends included, is a year of the plan.
THEOREM TypeCorrect == Spec => []TypeOK
BY InitType, NextType, PTL DEF Spec

-----------------------------------------------------------------------------
(* The safety invariants.                                                  *)

\* The part of the invariant that speaks of one fund.
FundInvAt(f) ==
  /\ \A v, w \in OpenRows(versions[f]) : v = w
  /\ \A v \in OpenRows(versions[f]) : f \in Stored /\ v.payload.name = row[f].name
  /\ f \in Live => \/ OpenRows(versions[f]) # {}
                   \/ versions[f] = {} /\ row[f].from = MinYear

LEMMA FundInvIsPointwise == RowsAgree <=> \A f \in Funds : FundInvAt(f)
BY DEF RowsAgree, FundInvAt, AtMostOneOpen, OpenMatchesRow, LiveIsBacked, Live, Stored

LEMMA FundInvIsPointwiseNext == RowsAgree' <=> \A f \in Funds : FundInvAt(f)'
BY DEF RowsAgree, FundInvAt, AtMostOneOpen, OpenMatchesRow, LiveIsBacked, Live, Stored

\* One write to fund f: its open row afterwards is the inserted one, so the
\* invariant holds if that row carries the saved name, and if a write that
\* inserts none leaves the fund abolished.
LEMMA WriteInv ==
  ASSUME TypeOK, RowsAgree, NEW f \in Funds, NEW id, NEW y \in Years, NEW type,
         NEW new \in Row, NEW payload, NEW before,
         row'[f] = new,
         versions'[f] = WriteVersion(versions[f], id, y, type, payload, before),
         type # "abolish" => payload = new,
         type = "abolish" => new.abolished # NULL
  PROVE  FundInvAt(f)'
<1>1. OpenRows(versions'[f]) = OpenFrom(id, y, type, payload)
  <2>1. versions[f] \in SUBSET Version(Row) /\ \A v, w \in OpenRows(versions[f]) : v = w
    BY DEF TypeOK, RowsAgree, AtMostOneOpen
  <2> QED
    BY <2>1, WriteVersionOpen
<1>2. f \in Stored'
  BY RowAssumption DEF Stored
<1>3. CASE type = "abolish"
  BY <1>1, <1>3 DEF OpenFrom, FundInvAt, Live
<1>4. CASE type # "abolish"
  <2> DEFINE inserted == [id |-> id, from |-> y, to |-> NULL, type |-> type, payload |-> payload]
  <2>1. OpenRows(versions'[f]) = {inserted}
    BY <1>1, <1>4 DEF OpenFrom
  <2>2. inserted.payload = row'[f]
    BY <1>4
  <2> HIDE DEF inserted
  <2>3. /\ \A v, w \in OpenRows(versions'[f]) : v = w
        /\ \A v \in OpenRows(versions'[f]) : v.payload.name = row'[f].name
        /\ OpenRows(versions'[f]) # {}
    BY <2>1, <2>2
  <2> QED
    BY <1>2, <2>3 DEF FundInvAt
<1> QED
  BY <1>3, <1>4

LEMMA CommitInv ==
  ASSUME TypeOK, RowsAgree, NEW f \in Funds, NEW y \in Years, NEW type \in ChangeTypes,
         NEW new \in Row, NEW payload, NEW before,
         Commit(f, new, y, type, payload, before),
         type # "abolish" => payload = new,
         type = "abolish" => new.abolished # NULL
  PROVE  RowsAgree'
<1>1. FundInvAt(f)'
  <2>1. row'[f] = new
    BY DEF Commit, TypeOK
  <2>2. versions'[f] = WriteVersion(versions[f], writes + 1, y, type, payload, before)
    BY DEF Commit, TypeOK
  <2> QED
    BY <2>1, <2>2, WriteInv
<1>2. ASSUME NEW g \in Funds, g # f
      PROVE  FundInvAt(g)'
  <2>1. row'[g] = row[g] /\ versions'[g] = versions[g]
    BY <1>2 DEF Commit, TypeOK
  <2> QED
    BY <2>1, FundInvIsPointwise DEF FundInvAt, Live, Stored
<1> QED
  BY <1>1, <1>2, FundInvIsPointwiseNext

LEMMA InitRowsAgree == Init => RowsAgree
<1> SUFFICES ASSUME Init PROVE RowsAgree
  OBVIOUS
<1>1. ASSUME NEW f \in Funds PROVE versions[f] = {} /\ OpenRows(versions[f]) = {}
  BY DEF Init, OpenRows
<1>2. ASSUME NEW f \in Live PROVE row[f].from = MinYear
  BY <1>2 DEF Init, Live, Stored, Seeded
<1> QED
  BY <1>1, <1>2 DEF RowsAgree, AtMostOneOpen, OpenMatchesRow, LiveIsBacked, Live, Stored

LEMMA NextRowsAgree == TypeOK /\ RowsAgree /\ [Next]_vars => RowsAgree'
<1> SUFFICES ASSUME TypeOK, RowsAgree, [Next]_vars PROVE RowsAgree'
  OBVIOUS
<1>1. ASSUME NEW f \in Funds, NEW name \in Names, NEW y \in Years, CreateFund(f, name, y)
      PROVE  RowsAgree'
  <2>1. [name |-> name, from |-> y, abolished |-> NULL, active |-> TRUE] \in Row
    BY DEF Row, YearOrNull
  <2> QED
    BY <1>1, <2>1, CommitInv DEF CreateFund, ChangeTypes
<1>2. ASSUME NEW f \in Funds, NEW name \in Names, NEW y \in Years, RenameFund(f, name, y)
      PROVE  RowsAgree'
  <2>1. [row[f] EXCEPT !.name = name] \in Row
    BY <1>2, StoredRow DEF RenameFund, Row
  <2> QED
    BY <1>2, <2>1, CommitInv DEF RenameFund, ChangeTypes
<1>3. ASSUME NEW f \in Funds, NEW y \in Years, AbolishFund(f, y)
      PROVE  RowsAgree'
  <2>1. Abolished(row[f], y) \in Row /\ Abolished(row[f], y).abolished # NULL
    BY <1>3, StoredRow, AbolishedRow DEF AbolishFund
  <2> QED
    BY <1>3, <2>1, CommitInv DEF AbolishFund, ChangeTypes
<1>4. ASSUME NEW e \in log, RollbackFund(e)
      PROVE  RowsAgree'
  <2>1. e \in LogEntry /\ e.before \in Row
    BY <1>4 DEF TypeOK, RollbackFund, RevisionEntry, LogEntry
  <2>2. e.fund \in Funds /\ e.year \in Years
    BY <2>1 DEF LogEntry
  <2>3. row[e.fund] \in Row
    BY <1>4, <2>2, StoredRow DEF RollbackFund
  <2>4. [row[e.fund] EXCEPT !.name = e.before.name, !.active = e.before.active,
                            !.abolished = e.before.abolished] \in Row
    BY <2>1, <2>3 DEF Row
  <2> QED
    BY <1>4, <2>2, <2>4, CommitInv DEF RollbackFund, ChangeTypes
<1>5. ASSUME NEW y \in Years, FullReviseFunds(y)
      PROVE  RowsAgree'
  <2>1. ASSUME NEW f \in Live
        PROVE  FundInvAt(f)'
    <3>1. f \in Funds /\ row[f] \in Row
      BY <2>1, StoredRow DEF Live
    <3>2. row'[f] = Abolished(row[f], y)
      BY <1>5, <2>1, <3>1 DEF FullReviseFunds
    <3>3. versions'[f] = WriteVersion(versions[f], writes + 1, y, "abolish", row[f], row[f])
      BY <1>5, <2>1, <3>1 DEF FullReviseFunds
    <3>4. Abolished(row[f], y) \in Row /\ Abolished(row[f], y).abolished # NULL
      BY <3>1, AbolishedRow
    <3> QED
      BY <3>1, <3>2, <3>3, <3>4, WriteInv
  <2>2. ASSUME NEW f \in Funds \ Live
        PROVE  FundInvAt(f)'
    <3>1. row'[f] = row[f] /\ versions'[f] = versions[f]
      BY <1>5, <2>2 DEF FullReviseFunds
    <3> QED
      BY <3>1, FundInvIsPointwise DEF FundInvAt, Live, Stored
  <2> QED
    BY <2>1, <2>2, FundInvIsPointwiseNext
<1>6. ASSUME NEW g \in Funds, NEW active \in BOOLEAN, SetFundActive(g, active)
      PROVE  RowsAgree'
  <2>1. row[g] \in Row /\ [row[g] EXCEPT !.active = active] \in Row
    BY <1>6, StoredRow DEF SetFundActive, Row
  <2>2. ASSUME NEW f \in Funds
        PROVE  FundInvAt(f)'
    <3>1. versions'[f] = versions[f]
      BY <1>6 DEF SetFundActive
    <3>2. CASE f # g
      <4>1. row'[f] = row[f]
        BY <1>6, <3>2 DEF SetFundActive, TypeOK
      <4> QED
        BY <3>1, <4>1, FundInvIsPointwise DEF FundInvAt, Live, Stored
    <3>3. CASE f = g
      <4>1. row'[f] = [row[f] EXCEPT !.active = active]
        BY <1>6, <3>3 DEF SetFundActive, TypeOK
      <4>2. /\ row'[f].name = row[f].name
            /\ row'[f].from = row[f].from
            /\ row'[f].abolished = row[f].abolished
        BY <2>1, <3>3, <4>1 DEF Row
      <4>3. row[f] # NULL /\ row'[f] # NULL
        BY <2>1, <3>3, <4>1, RowAssumption
      <4> QED
        BY <3>1, <4>2, <4>3, FundInvIsPointwise DEF FundInvAt, Live, Stored
    <3> QED
      BY <3>2, <3>3
  <2> QED
    BY <2>2, FundInvIsPointwiseNext
<1>7. CASE Restart
  <2>1. ASSUME NEW f \in Funds
        PROVE  FundInvAt(f)'
    <3>1. versions'[f] = versions[f]
      BY <1>7 DEF Restart
    <3>2. CASE f \notin Stored \/ OpenRows(versions[f]) = {}
      <4>1. row'[f] = row[f]
        BY <1>7, <3>2 DEF Restart, LiveFromOpen, First, Stored
      <4> QED
        BY <3>1, <4>1, FundInvIsPointwise DEF FundInvAt, Live, Stored
    <3>3. CASE f \in Stored /\ OpenRows(versions[f]) # {}
      <4>1. row'[f] = LiveFromOpen(row[f], versions[f])
        BY <1>7, <3>3 DEF Restart
      <4>2. row[f] \in Row /\ row'[f] \in Row
        BY <3>3, <4>1, StoredRow, LiveFromOpenRow DEF TypeOK
      <4>3. row'[f].name = row[f].name
        BY <4>1, <4>2 DEF LiveFromOpen, Row
      <4>4. f \in Stored'
        BY <4>2, RowAssumption DEF Stored
      <4> QED
        BY <3>1, <3>3, <4>3, <4>4, FundInvIsPointwise DEF FundInvAt, Live
    <3> QED
      BY <3>2, <3>3
  <2> QED
    BY <2>1, FundInvIsPointwiseNext
<1>8. CASE UNCHANGED vars
  BY <1>8 DEF vars, RowsAgree, AtMostOneOpen, OpenMatchesRow, LiveIsBacked, Live, Stored
<1> QED
  BY <1>1, <1>2, <1>3, <1>4, <1>5, <1>6, <1>7, <1>8 DEF Next

\* Along every behaviour a fund has at most one row in force until further
\* notice: backdated edits, re-abolition, rollback and restart included.
THEOREM OneOpenRow == Spec => []AtMostOneOpen
<1>1. RowsAgree => AtMostOneOpen
  BY DEF RowsAgree
<1> QED
  BY <1>1, InitType, NextType, InitRowsAgree, NextRowsAgree, PTL DEF Spec

\* The open row and the live row of a fund always carry the same name.
THEOREM OpenRowIsTheLiveRow == Spec => []OpenMatchesRow
<1>1. RowsAgree => OpenMatchesRow
  BY DEF RowsAgree
<1> QED
  BY <1>1, InitType, NextType, InitRowsAgree, NextRowsAgree, PTL DEF Spec

\* A live fund is always backed by an open row, or is an untouched seed.
THEOREM LiveFundIsBacked == Spec => []LiveIsBacked
<1>1. RowsAgree => LiveIsBacked
  BY DEF RowsAgree
<1> QED
  BY <1>1, InitType, NextType, InitRowsAgree, NextRowsAgree, PTL DEF Spec

\* The version rows and the live row of a fund never part, and every year in them
\* is a year of the plan.
THEOREM FundsStaySound == Spec => []FundsSound
<1>1. TypeOK /\ RowsAgree => FundsSound
  BY DEF FundsSound
<1> QED
  BY <1>1, InitType, NextType, InitRowsAgree, NextRowsAgree, PTL DEF Spec

-----------------------------------------------------------------------------
(* The archive.                                                            *)

ArchiveKept == \A f \in Funds : \A v \in versions[f] : ~IsOpen(v) => v \in versions'[f]

LEMMA CommitKeepsArchive ==
  ASSUME TypeOK, NEW g \in Funds, NEW new, NEW y, NEW type, NEW payload, NEW before,
         Commit(g, new, y, type, payload, before)
  PROVE  ArchiveKept
<1> SUFFICES ASSUME NEW f \in Funds, NEW v \in versions[f], ~IsOpen(v)
             PROVE  v \in versions'[f]
  BY DEF ArchiveKept
<1>1. CASE f = g
  <2>1. versions'[f] = WriteVersion(versions[f], writes + 1, y, type, payload, before)
    BY <1>1 DEF Commit, TypeOK
  <2> QED
    BY <2>1, WriteVersionKeepsClosed
<1>2. CASE f # g
  <2>1. versions'[f] = versions[f]
    BY <1>2 DEF Commit, TypeOK
  <2> QED
    BY <2>1
<1> QED
  BY <1>1, <1>2

LEMMA NextKeepsArchive == TypeOK /\ [Next]_vars => ArchiveKept
<1> SUFFICES ASSUME TypeOK, [Next]_vars PROVE ArchiveKept
  OBVIOUS
<1>1. ASSUME NEW f \in Funds, NEW name \in Names, NEW y \in Years, CreateFund(f, name, y)
      PROVE  ArchiveKept
  BY <1>1, CommitKeepsArchive DEF CreateFund
<1>2. ASSUME NEW f \in Funds, NEW name \in Names, NEW y \in Years, RenameFund(f, name, y)
      PROVE  ArchiveKept
  BY <1>2, CommitKeepsArchive DEF RenameFund
<1>3. ASSUME NEW f \in Funds, NEW y \in Years, AbolishFund(f, y)
      PROVE  ArchiveKept
  BY <1>3, CommitKeepsArchive DEF AbolishFund
<1>4. ASSUME NEW e \in log, RollbackFund(e)
      PROVE  ArchiveKept
  <2>1. e.fund \in Funds
    BY <1>4 DEF RollbackFund, Stored
  <2> QED
    BY <1>4, <2>1, CommitKeepsArchive DEF RollbackFund
<1>5. ASSUME NEW y \in Years, FullReviseFunds(y)
      PROVE  ArchiveKept
  <2> SUFFICES ASSUME NEW f \in Funds, NEW v \in versions[f], ~IsOpen(v)
               PROVE  v \in versions'[f]
    BY DEF ArchiveKept
  <2>1. CASE f \in Live
    <3>1. versions'[f] = WriteVersion(versions[f], writes + 1, y, "abolish", row[f], row[f])
      BY <1>5, <2>1 DEF FullReviseFunds
    <3> QED
      BY <3>1, WriteVersionKeepsClosed
  <2>2. CASE f \notin Live
    BY <1>5, <2>2 DEF FullReviseFunds
  <2> QED
    BY <2>1, <2>2
<1>6. ASSUME UNCHANGED versions
      PROVE  ArchiveKept
  BY <1>6 DEF ArchiveKept
<1> QED
  BY <1>1, <1>2, <1>3, <1>4, <1>5, <1>6 DEF Next, SetFundActive, Restart, vars

\* No request, rollback, revision or restart ever changes or removes a closed
\* version row.
THEOREM ArchiveOnlyGrows == Spec => ClosedRowsKept
<1>1. TypeOK /\ [Next]_vars => [ArchiveKept]_vars
  BY NextKeepsArchive
<1>2. [][ArchiveKept]_vars => ClosedRowsKept
  BY PTL DEF ArchiveKept, ClosedRowsKept
<1> QED
  BY <1>1, <1>2, TypeCorrect, PTL DEF Spec

-----------------------------------------------------------------------------
(* The year an edit shows in.                                              *)

\* What the next edit relies on: it gets a number no row and no entry has, every
\* table is finite, only a stored fund has rows, and a row is closed with a year
\* before the last one.
Bookkeeping ==
  /\ \A e \in log : e.id <= writes
  /\ \A f \in Funds :
       /\ IsFiniteSet(versions[f])
       /\ f \notin Stored => versions[f] = {}
       /\ \A v \in versions[f] : v.id <= writes /\ (IsOpen(v) \/ v.to < MaxYear)

BooksAt(f) ==
  /\ IsFiniteSet(versions[f])
  /\ f \notin Stored => versions[f] = {}
  /\ \A v \in versions[f] : v.id <= writes /\ (IsOpen(v) \/ v.to < MaxYear)

\* One write to a fund keeps its rows in order.
LEMMA WriteBooks ==
  ASSUME TypeOK, Bookkeeping, NEW f \in Funds, NEW y \in Years, NEW type, NEW payload, NEW before,
         versions'[f] = WriteVersion(versions[f], writes + 1, y, type, payload, before),
         row'[f] # NULL, writes' = writes + 1
  PROVE  BooksAt(f)'
<1>1. versions[f] \in SUBSET Version(Row) /\ IsFiniteSet(versions[f]) /\ writes \in Nat
  BY DEF TypeOK, Bookkeeping
<1>2. IsFiniteSet(versions'[f])
  BY <1>1, WriteVersionFinite
<1>3. \A v \in WriteVersion(versions[f], writes + 1, y, type, payload, before) :
        /\ v.id = writes + 1 \/ \E w \in versions[f] : v.id = w.id
        /\ IsOpen(v) \/ v \in versions[f] \/ v.to = y - 1
  <2> DEFINE old == versions[f]
             id == writes + 1
  <2>1. old \in SUBSET Version(Row)
    BY <1>1
  <2> HIDE DEF old, id
  <2>2. \A v \in WriteVersion(old, id, y, type, payload, before) :
          /\ v.id = id \/ \E w \in old : v.id = w.id
          /\ IsOpen(v) \/ v \in old \/ v.to = y - 1
    BY <2>1, WriteVersionBounds
  <2> QED
    BY <2>2 DEF old, id
<1>4. ASSUME NEW v \in versions'[f]
      PROVE  v.id <= writes' /\ (IsOpen(v) \/ v.to < MaxYear)
  <2>1. /\ v.id = writes + 1 \/ \E w \in versions[f] : v.id = w.id
        /\ IsOpen(v) \/ v \in versions[f] \/ v.to = y - 1
    BY <1>3, <1>4
  <2>2. \A w \in versions[f] : w.id \in Nat /\ w.id <= writes /\ (IsOpen(w) \/ w.to < MaxYear)
    BY <1>1 DEF Bookkeeping, Version
  <2>3. v.id <= writes + 1
    BY <1>1, <2>1, <2>2
  <2>4. y - 1 < MaxYear
    BY DEF Years
  <2> QED
    BY <2>1, <2>2, <2>3, <2>4
<1>5. f \in Stored'
  BY DEF Stored
<1> QED
  BY <1>2, <1>4, <1>5 DEF BooksAt

\* A fund a request does not touch keeps its rows and, if there was one, its live row.
LEMMA SameBooks ==
  ASSUME TypeOK, Bookkeeping, NEW f \in Funds, versions'[f] = versions[f],
         row[f] # NULL => row'[f] # NULL, writes' \in {writes, writes + 1}
  PROVE  BooksAt(f)'
<1>1. \A v \in versions[f] : v.id \in Nat /\ v.id <= writes'
  BY DEF TypeOK, Bookkeeping, Version
<1> QED
  BY <1>1 DEF Bookkeeping, BooksAt, Stored

LEMMA BooksArePointwise ==
  Bookkeeping' <=> (\A e \in log' : e.id <= writes') /\ \A f \in Funds : BooksAt(f)'
BY DEF Bookkeeping, BooksAt

LEMMA CommitBooks ==
  ASSUME TypeOK, Bookkeeping, NEW f \in Funds, NEW new \in Row, NEW y \in Years, NEW type,
         NEW payload, NEW before, Commit(f, new, y, type, payload, before)
  PROVE  Bookkeeping'
<1>1. BooksAt(f)'
  <2>1. versions'[f] = WriteVersion(versions[f], writes + 1, y, type, payload, before)
    BY DEF Commit, TypeOK
  <2>2. row'[f] # NULL /\ writes' = writes + 1
    BY RowAssumption DEF Commit, TypeOK
  <2> QED
    BY <2>1, <2>2, WriteBooks
<1>2. ASSUME NEW g \in Funds, g # f
      PROVE  BooksAt(g)'
  <2>1. versions'[g] = versions[g] /\ row'[g] = row[g] /\ writes' = writes + 1
    BY <1>2 DEF Commit, TypeOK
  <2> QED
    BY <2>1, SameBooks
<1>3. \A e \in log' : e.id <= writes'
  <2>1. \A e \in log : e.id \in Nat
    BY DEF TypeOK, LogEntry, RevisionEntry
  <2> QED
    BY <2>1 DEF Commit, Bookkeeping, TypeOK
<1> QED
  BY <1>1, <1>2, <1>3, BooksArePointwise

LEMMA InitBooks == Init => Bookkeeping
BY FS_EmptySet DEF Init, Bookkeeping

LEMMA NextBooks == TypeOK /\ Bookkeeping /\ [Next]_vars => Bookkeeping'
<1> SUFFICES ASSUME TypeOK, Bookkeeping, [Next]_vars PROVE Bookkeeping'
  OBVIOUS
<1>1. ASSUME NEW f \in Funds, NEW name \in Names, NEW y \in Years, CreateFund(f, name, y)
      PROVE  Bookkeeping'
  <2>1. [name |-> name, from |-> y, abolished |-> NULL, active |-> TRUE] \in Row
    BY DEF Row, YearOrNull
  <2> QED
    BY <1>1, <2>1, CommitBooks DEF CreateFund
<1>2. ASSUME NEW f \in Funds, NEW name \in Names, NEW y \in Years, RenameFund(f, name, y)
      PROVE  Bookkeeping'
  <2>1. [row[f] EXCEPT !.name = name] \in Row
    BY <1>2, StoredRow DEF RenameFund, Row
  <2> QED
    BY <1>2, <2>1, CommitBooks DEF RenameFund
<1>3. ASSUME NEW f \in Funds, NEW y \in Years, AbolishFund(f, y)
      PROVE  Bookkeeping'
  <2>1. Abolished(row[f], y) \in Row
    BY <1>3, StoredRow, AbolishedRow DEF AbolishFund
  <2> QED
    BY <1>3, <2>1, CommitBooks DEF AbolishFund
<1>4. ASSUME NEW e \in log, RollbackFund(e)
      PROVE  Bookkeeping'
  <2>1. e \in LogEntry /\ e.before \in Row
    BY <1>4 DEF TypeOK, RollbackFund, RevisionEntry, LogEntry
  <2>2. e.fund \in Funds /\ e.year \in Years
    BY <2>1 DEF LogEntry
  <2>3. row[e.fund] \in Row
    BY <1>4, <2>2, StoredRow DEF RollbackFund
  <2>4. [row[e.fund] EXCEPT !.name = e.before.name, !.active = e.before.active,
                            !.abolished = e.before.abolished] \in Row
    BY <2>1, <2>3 DEF Row
  <2> QED
    BY <1>4, <2>2, <2>4, CommitBooks DEF RollbackFund
<1>5. ASSUME NEW y \in Years, FullReviseFunds(y)
      PROVE  Bookkeeping'
  <2>1. writes' = writes + 1
    BY <1>5 DEF FullReviseFunds
  <2>2. ASSUME NEW f \in Live
        PROVE  BooksAt(f)'
    <3>1. f \in Funds /\ row[f] \in Row
      BY <2>2, StoredRow DEF Live
    <3>2. row'[f] # NULL
      BY <1>5, <2>2, <3>1, AbolishedRow, RowAssumption DEF FullReviseFunds
    <3>3. versions'[f] = WriteVersion(versions[f], writes + 1, y, "abolish", row[f], row[f])
      BY <1>5, <2>2, <3>1 DEF FullReviseFunds
    <3> QED
      BY <2>1, <3>1, <3>2, <3>3, WriteBooks
  <2>3. ASSUME NEW f \in Funds \ Live
        PROVE  BooksAt(f)'
    <3>1. row'[f] = row[f] /\ versions'[f] = versions[f]
      BY <1>5, <2>3 DEF FullReviseFunds
    <3> QED
      BY <2>1, <3>1, SameBooks
  <2>4. \A e \in log' : e.id <= writes'
    <3>1. \A e \in log : e.id \in Nat
      BY DEF TypeOK, LogEntry, RevisionEntry
    <3> QED
      BY <1>5, <3>1 DEF FullReviseFunds, Bookkeeping, TypeOK
  <2> QED
    BY <2>2, <2>3, <2>4, BooksArePointwise
<1>6. ASSUME UNCHANGED <<versions, log, writes>>, \A f \in Funds : row[f] # NULL => row'[f] # NULL
      PROVE  Bookkeeping'
  <2>1. \A f \in Funds : BooksAt(f)'
    BY <1>6, SameBooks
  <2> QED
    BY <1>6, <2>1, BooksArePointwise DEF Bookkeeping
<1>7. ASSUME NEW f \in Funds, NEW active \in BOOLEAN, SetFundActive(f, active)
      PROVE  Bookkeeping'
  <2>1. [row[f] EXCEPT !.active = active] \in Row
    BY <1>7, StoredRow DEF SetFundActive, Row
  <2> QED
    BY <1>6, <1>7, <2>1, RowAssumption DEF SetFundActive, TypeOK
<1>8. CASE Restart
  <2>1. ASSUME NEW f \in Stored
        PROVE  LiveFromOpen(row[f], versions[f]) \in Row
    BY <2>1, StoredRow, LiveFromOpenRow DEF TypeOK
  <2> QED
    BY <1>6, <1>8, <2>1, RowAssumption DEF Restart, Stored
<1>9. CASE UNCHANGED vars
  BY <1>6, <1>9 DEF vars
<1> QED
  BY <1>1, <1>2, <1>3, <1>4, <1>5, <1>7, <1>8, <1>9 DEF Next

\* What the list shows of one fund, as a function of its rows.
Listed(r, vs, x) == IF r = NULL THEN {} ELSE {p.name : p \in Tells(r, vs, x)}

LEMMA ShownIsListed ==
  ASSUME NEW f \in Funds, NEW x
  PROVE  Shown(f, x) = Listed(row[f], versions[f], x) /\ Shown(f, x)' = Listed(row'[f], versions'[f], x)
BY DEF Shown, Listed, Tells, Active, Stored

\* A write that opens a row shows in its year.
LEMMA CommitShows ==
  ASSUME TypeOK, Bookkeeping, NEW f \in Funds, NEW new \in Row, NEW y \in Years, NEW type, NEW before,
         Commit(f, new, y, type, new, before), type # "abolish"
  PROVE  Shown(f, y)' = {new.name} /\ row'[f] = new
<1>1. row'[f] = new /\ new # NULL
  BY RowAssumption DEF Commit, TypeOK
<1>2. versions'[f] = WriteVersion(versions[f], writes + 1, y, type, new, before)
  BY DEF Commit, TypeOK
<1>3. OverlayPayload(versions'[f], y) = {new}
  <2>1. versions[f] \in SUBSET Version(Row) /\ writes + 1 \in Nat
    BY DEF TypeOK
  <2>2. \A v \in versions[f] : v.id < writes + 1
    BY <2>1 DEF Bookkeeping, TypeOK, Version
  <2> QED
    BY <1>2, <2>1, <2>2, WriteVersionShows
<1>4. \E v \in versions'[f] : Covers(v, y)
  BY <1>3 DEF OverlayPayload, First
<1>5. Listed(row'[f], versions'[f], y) = {new.name}
  BY <1>1, <1>3, <1>4 DEF Listed, Tells, ActiveInYear
<1> QED
  BY <1>1, <1>5, ShownIsListed

ShowsInItsYear ==
  \A f \in Funds, y \in Years :
    (\/ \E name \in Names : CreateFund(f, name, y) \/ RenameFund(f, name, y)
     \/ \E e \in log : e.fund = f /\ e.year = y /\ RollbackFund(e))
    => Shown(f, y)' = {row'[f].name}

LEMMA EditShows == TypeOK /\ Bookkeeping => ShowsInItsYear
<1> SUFFICES ASSUME TypeOK, Bookkeeping, NEW f \in Funds, NEW y \in Years,
                    \/ \E name \in Names : CreateFund(f, name, y) \/ RenameFund(f, name, y)
                    \/ \E e \in log : e.fund = f /\ e.year = y /\ RollbackFund(e)
             PROVE  Shown(f, y)' = {row'[f].name}
  BY DEF ShowsInItsYear
<1>1. ASSUME NEW name \in Names, CreateFund(f, name, y)
      PROVE  Shown(f, y)' = {row'[f].name}
  <2>1. [name |-> name, from |-> y, abolished |-> NULL, active |-> TRUE] \in Row
    BY DEF Row, YearOrNull
  <2> QED
    BY <1>1, <2>1, CommitShows DEF CreateFund
<1>2. ASSUME NEW name \in Names, RenameFund(f, name, y)
      PROVE  Shown(f, y)' = {row'[f].name}
  <2>1. [row[f] EXCEPT !.name = name] \in Row
    BY <1>2, StoredRow DEF RenameFund, Row
  <2> QED
    BY <1>2, <2>1, CommitShows DEF RenameFund
<1>3. ASSUME NEW e \in log, e.fund = f, e.year = y, RollbackFund(e)
      PROVE  Shown(f, y)' = {row'[f].name}
  <2>1. e.before \in Row /\ row[f] \in Row
    BY <1>3, StoredRow DEF TypeOK, RollbackFund, RevisionEntry, LogEntry
  <2> DEFINE new == [row[f] EXCEPT !.name = e.before.name, !.active = e.before.active,
                                   !.abolished = e.before.abolished]
  <2>2. new \in Row
    BY <2>1 DEF Row
  <2>3. Commit(f, new, y, "rollback", new, row[f])
    BY <1>3 DEF RollbackFund
  <2> HIDE DEF new
  <2> QED
    BY <2>2, <2>3, CommitShows
<1> QED
  BY <1>1, <1>2, <1>3

\* In every behaviour an edit shows in the year it was made for, also when it is
\* backdated under rows written before it for later years.
THEOREM EditsShow == Spec => EditShowsInItsYear
<1>1. TypeOK /\ Bookkeeping /\ [Next]_vars => [ShowsInItsYear]_vars
  BY EditShows
<1>2. [][ShowsInItsYear]_vars => EditShowsInItsYear
  BY PTL DEF ShowsInItsYear, EditShowsInItsYear
<1> QED
  BY <1>1, <1>2, InitType, NextType, InitBooks, NextBooks, PTL DEF Spec

-----------------------------------------------------------------------------
(* The store implements the timeline.                                      *)

WellEdited == \A f \in Stored : Edited(row[f], versions[f])

LEMMA EditedIsPointwise ==
  /\ WellEdited <=> \A f \in Funds : row[f] # NULL => Edited(row[f], versions[f])
  /\ WellEdited' <=> \A f \in Funds : row'[f] # NULL => Edited(row'[f], versions'[f])
BY DEF WellEdited, Stored

LEMMA RowIsDated == Dated(Row)
BY DEF Dated, Row

\* A write of a disciplined administrator to fund f for year y.
EditOf(f, y, type, new, payload, before) ==
  /\ row'[f] = new
  /\ versions'[f] = WriteVersion(versions[f], writes + 1, y, type, payload, before)
  /\ IsEdit(row[f], y, type, new, before)
  /\ IF type = "create" THEN f \notin Live ELSE f \in Live

LEMMA EditOfLineage ==
  ASSUME TypeOK, RowsAgree, Bookkeeping, WellEdited, NEW f \in Funds
  PROVE  /\ versions[f] \in SUBSET Version(Row) /\ IsFiniteSet(versions[f]) /\ writes + 1 \in Nat
         /\ row[f] # NULL => /\ row[f] \in Row /\ Sound(row[f], versions[f])
                             /\ Edited(row[f], versions[f])
                             /\ f \notin Live => row[f].abolished # NULL
         /\ row[f] = NULL => versions[f] = {} /\ f \notin Live
BY EditedIsPointwise
   DEF TypeOK, RowsAgree, Bookkeeping, AtMostOneOpen, LiveIsBacked, Live, Stored, Sound

LEMMA EditLeavesEdited ==
  ASSUME TypeOK, RowsAgree, Bookkeeping, WellEdited, NEW f \in Funds, NEW y \in Years, NEW type,
         NEW new, NEW payload, NEW before, EditOf(f, y, type, new, payload, before)
  PROVE  Edited(row'[f], versions'[f])
<1>1. /\ versions[f] \in SUBSET Version(Row) /\ writes + 1 \in Nat
      /\ \A v, w \in OpenRows(versions[f]) : v = w
  BY EditOfLineage DEF RowsAgree, AtMostOneOpen
<1>2. type # "create" => /\ row[f] \in Row /\ Sound(row[f], versions[f])
                         /\ Edited(row[f], versions[f])
  BY EditOfLineage DEF EditOf
<1> QED
  BY <1>1, <1>2, EditKeepsEdited, RowIsDated DEF EditOf

\* It reaches no earlier year.
LEMMA EditSparesPast ==
  ASSUME TypeOK, RowsAgree, Bookkeeping, WellEdited, NEW f \in Funds, NEW y \in Years,
         NEW type, NEW new \in Row, NEW payload \in Row, NEW before,
         EditOf(f, y, type, new, payload, before), NEW x \in Years, x < y
  PROVE  Listed(row'[f], versions'[f], x) = Listed(row[f], versions[f], x)
<1>1. row'[f] = new /\ new # NULL
  BY RowAssumption DEF EditOf
<1>2. CASE row[f] # NULL
  <2>1. Tells(row'[f], versions'[f], x) = Tells(row[f], versions[f], x)
    BY <1>2, EditOfLineage, EditKeepsPast, RowIsDated DEF EditOf
  <2> QED
    BY <1>1, <1>2, <2>1 DEF Listed
<1>3. CASE row[f] = NULL
  <2>1. type = "create" /\ versions[f] = {}
    BY <1>3, EditOfLineage DEF EditOf
  <2>2. Tells(row'[f], versions'[f], x) = {}
    BY <2>1, CreationKeepsPast DEF EditOf
  <2> QED
    BY <1>1, <1>3, <2>2 DEF Listed
<1> QED
  BY <1>2, <1>3

\* An abolished fund is not listed in the last year.
LEMMA AbolitionHides ==
  ASSUME TypeOK, RowsAgree, Bookkeeping, Bookkeeping', TypeOK', WellEdited, NEW f \in Funds,
         NEW y \in Years, NEW new \in Row, NEW payload, NEW before,
         EditOf(f, y, "abolish", new, payload, before)
  PROVE  Listed(row'[f], versions'[f], MaxYear) = {}
<1>1. MaxYear \in Years
  BY DEF Years
<1>2. row'[f] \in Row /\ row'[f].abolished # NULL
  BY DEF EditOf, IsEdit, Years
<1>3. OpenRows(versions'[f]) = {}
  <2>1. versions[f] \in SUBSET Version(Row) /\ \A v, w \in OpenRows(versions[f]) : v = w
    BY DEF TypeOK, RowsAgree, AtMostOneOpen
  <2> QED
    BY <2>1, WriteVersionOpen DEF OpenFrom, EditOf
<1>4. versions'[f] \in SUBSET Version(Row)
  BY DEF TypeOK
<1>5. \A v \in versions'[f] : ~IsOpen(v) /\ v.to < MaxYear
  BY <1>3 DEF OpenRows, Bookkeeping
<1>6. Sound(row'[f], versions'[f])
  BY <1>2, <1>3 DEF Sound
<1>7. Edited(row'[f], versions'[f])
  BY EditLeavesEdited
<1>8. Tells(row'[f], versions'[f], MaxYear) = {}
  BY <1>1, <1>2, <1>3, <1>4, <1>5, <1>6, <1>7, NowShows, RowIsDated
<1> QED
  BY <1>8 DEF Listed

LEMMA ShownTableAt ==
  ASSUME NEW f \in Funds, NEW x \in Years
  PROVE  ShownTable[f][x] = Shown(f, x) /\ (ShownTable')[f][x] = Shown(f, x)'
BY DEF ShownTable

\* Log entries for the funds G and year y, with a number no entry has, are a request.
LEMMA EntriesAreARequest ==
  ASSUME TypeOK, Bookkeeping, NEW G \in SUBSET Funds, NEW y \in Years, NEW entries,
         log' = log \cup entries,
         \A e \in entries : e.id = writes + 1 /\ e.year = y /\ e.fund \in G \cup {NULL},
         \A f \in G : \E e \in entries : e.fund = f,
         \A f \in Funds, x \in Years : f \notin G \/ x < y => Shown(f, x)' = Shown(f, x)
  PROVE  Timeline!Request(G, y)
<1> DEFINE EditIn(e) == [id |-> e.id, fund |-> e.fund, year |-> e.year]
           new == {EditIn(e) : e \in {d \in entries : d.fund # NULL}}
<1>1. Journal' = Journal \cup new
  BY DEF Journal
<1>2. \A e \in new : e \in Timeline!Edit /\ e.id = writes + 1 /\ e.year = y /\ e.fund \in G
  BY DEF TypeOK, Timeline!Edit, Timeline!Years, Years
<1>3. \A e \in Journal : e.id <= writes
  BY DEF Journal, Bookkeeping
<1>4. new \cap Journal = {}
  BY <1>2, <1>3 DEF TypeOK
<1>5. Journal' \ Journal = new /\ Journal \subseteq Journal'
  BY <1>1, <1>4
<1>6. ASSUME NEW f \in G PROVE \E e \in new : e.fund = f
  <2>1. PICK e \in entries : e.fund = f
    BY <1>6
  <2>2. EditIn(e) \in new /\ EditIn(e).fund = f
    BY <1>6, <2>1, FundsAssumption
  <2> QED
    BY <2>2
<1>7. {e.fund : e \in new} = G
  BY <1>2, <1>6
<1>8. \A f \in Funds, x \in Years : f \notin G \/ x < y => (ShownTable')[f][x] = ShownTable[f][x]
  BY ShownTableAt
<1> HIDE DEF new
<1> QED
  BY <1>2, <1>5, <1>7, <1>8 DEF Timeline!Request, Timeline!Years, Years

LEMMA NoNewEdit ==
  ASSUME Journal' = Journal, \A f \in Funds, x \in Years : Shown(f, x)' = Shown(f, x)
  PROVE  UNCHANGED Timeline!vars
<1>1. ShownTable' = ShownTable
  BY DEF ShownTable
<1> QED
  BY <1>1 DEF Timeline!vars

\* One request of a disciplined administrator on one fund is a request of the timeline.
LEMMA EditIsARequest ==
  ASSUME TypeOK, RowsAgree, Bookkeeping, WellEdited, NEW f \in Funds, NEW y \in Years,
         NEW type, NEW new \in Row, NEW payload \in Row, NEW before \in Row \cup {NULL},
         Commit(f, new, y, type, payload, before), EditOf(f, y, type, new, payload, before)
  PROVE  Timeline!Request({f}, y)
<1> DEFINE entry == [id |-> writes + 1, fund |-> f, year |-> y, type |-> type, before |-> before]
<1>1. log' = log \cup {entry}
  BY DEF Commit
<1>2. entry.id = writes + 1 /\ entry.year = y /\ entry.fund = f
  OBVIOUS
<1>3. ASSUME NEW g \in Funds, NEW x \in Years, g # f \/ x < y
      PROVE  Shown(g, x)' = Shown(g, x)
  <2>1. CASE g # f
    <3>1. row'[g] = row[g] /\ versions'[g] = versions[g]
      BY <2>1 DEF Commit, TypeOK
    <3> QED
      BY <3>1, ShownIsListed
  <2>2. CASE g = f /\ x < y
    <3>1. Listed(row'[f], versions'[f], x) = Listed(row[f], versions[f], x)
      BY <2>2, EditSparesPast
    <3> QED
      BY <2>2, <3>1, ShownIsListed
  <2> QED
    BY <1>3, <2>1, <2>2
<1> DEFINE G == {f}
           entries == {entry}
<1>4. /\ G \in SUBSET Funds
      /\ log' = log \cup entries
      /\ \A e \in entries : e.id = writes + 1 /\ e.year = y /\ e.fund \in G \cup {NULL}
      /\ \A g \in G : \E e \in entries : e.fund = g
      /\ \A g \in Funds, x \in Years : g \notin G \/ x < y => Shown(g, x)' = Shown(g, x)
  BY <1>1, <1>2, <1>3
<1> HIDE DEF entries, G
<1>5. Timeline!Request(G, y)
  BY <1>4, EntriesAreARequest
<1> QED
  BY <1>5 DEF G

LEMMA CommitIsAnEdit ==
  ASSUME TypeOK, NEW f \in Funds, NEW new, NEW y, NEW type, NEW payload, NEW before,
         Commit(f, new, y, type, payload, before)
  PROVE  /\ row'[f] = new
         /\ versions'[f] = WriteVersion(versions[f], writes + 1, y, type, payload, before)
BY DEF Commit, TypeOK

LEMMA InitRefines == Init => Timeline!Init
<1> SUFFICES ASSUME Init PROVE Timeline!Init
  OBVIOUS
<1>1. ASSUME NEW f \in Funds, NEW x \in Years
      PROVE  Shown(f, x) = IF row[f] = NULL THEN {} ELSE {row[f].name}
  <2>1. row[f] # NULL => row[f].from = MinYear /\ row[f].abolished = NULL
    BY DEF Init, Seeded
  <2>2. versions[f] = {}
    BY DEF Init
  <2> QED
    BY <2>1, <2>2 DEF Shown, Stored, Active, ActiveInYear, ActiveAt, OverlayPayload, First, Years
<1>2. ASSUME NEW f \in Funds PROVE row[f] # NULL => row[f].name \in Names
  BY DEF Init, Seeded
<1>3. ShownTable \in [Funds -> [Years -> SUBSET Names]]
  BY <1>1, <1>2 DEF ShownTable
<1>4. \A f \in Funds, x, y \in Years : ShownTable[f][x] = ShownTable[f][y]
  BY <1>1 DEF ShownTable
<1>5. Journal = {}
  BY DEF Journal, Init
<1> QED
  BY <1>3, <1>4, <1>5 DEF Timeline!Init, Timeline!Years, Years

LEMMA CommitKeepsEdited ==
  ASSUME TypeOK, RowsAgree, Bookkeeping, WellEdited, NEW f \in Funds, NEW y \in Years,
         NEW type, NEW new \in Row, NEW payload, NEW before,
         Commit(f, new, y, type, payload, before), EditOf(f, y, type, new, payload, before)
  PROVE  WellEdited'
<1>1. Edited(row'[f], versions'[f])
  BY EditLeavesEdited
<1>2. ASSUME NEW g \in Funds, g # f
      PROVE  row'[g] = row[g] /\ versions'[g] = versions[g]
  BY <1>2 DEF Commit, TypeOK
<1> QED
  BY <1>1, <1>2, EditedIsPointwise

LEMMA RevisionIsAnEdit ==
  ASSUME TypeOK, NEW y \in Years, FullReviseFunds(y), NEW f \in Live
  PROVE  /\ row[f] \in Row /\ f \in Funds /\ Abolished(row[f], y) \in Row
         /\ row'[f] = Abolished(row[f], y) /\ row'[f].abolished = y
         /\ EditOf(f, y, "abolish", Abolished(row[f], y), row[f], row[f])
<1>1. row[f] \in Row /\ f \in Funds
  BY StoredRow DEF Live
<1>2. row'[f] = Abolished(row[f], y)
  BY <1>1 DEF FullReviseFunds
<1>3. versions'[f] = WriteVersion(versions[f], writes + 1, y, "abolish", row[f], row[f])
  BY <1>1 DEF FullReviseFunds
<1>4. Abolished(row[f], y).abolished = y /\ Abolished(row[f], y).from = row[f].from
  BY <1>1 DEF Abolished, Row
<1>5. Abolished(row[f], y) \in Row
  BY <1>1, AbolishedRow
<1>6. Live \subseteq Funds /\ row[f].abolished = NULL
  BY DEF Live, Stored
<1>7. IsEdit(row[f], y, "abolish", Abolished(row[f], y), row[f])
  BY <1>4, <1>6 DEF IsEdit
<1> QED
  BY <1>1, <1>2, <1>3, <1>4, <1>5, <1>7 DEF EditOf

\* Every step of a disciplined administrator is an edit of the timeline or no
\* step of it at all, and leaves the rows in order.
LEMMA EditNextRefines ==
  ASSUME TypeOK, RowsAgree, Bookkeeping, WellEdited, TypeOK', Bookkeeping', EditNext
  PROVE  [Timeline!Next]_(Timeline!vars) /\ WellEdited'
<1>1. ASSUME NEW f \in Funds, NEW name \in Names, NEW y \in Years, CreateFund(f, name, y)
      PROVE  [Timeline!Next]_(Timeline!vars) /\ WellEdited'
  <2> DEFINE new == [name |-> name, from |-> y, abolished |-> NULL, active |-> TRUE]
  <2>1. new \in Row /\ new.name = name /\ new.from = y /\ new.abolished = NULL
    BY DEF Row, YearOrNull
  <2>2. Commit(f, new, y, "create", new, NULL) /\ f \notin Live
    BY <1>1 DEF CreateFund, Live
  <2> HIDE DEF new
  <2>3. EditOf(f, y, "create", new, new, NULL)
    BY <2>1, <2>2, CommitIsAnEdit DEF EditOf, IsEdit
  <2>4. Timeline!Request({f}, y)
    BY <2>1, <2>2, <2>3, EditIsARequest
  <2>5. (ShownTable')[f][y] = {name}
    BY <2>1, <2>2, CommitShows, ShownTableAt
  <2>6. Timeline!Publish(f, name, y)
    BY <2>4, <2>5 DEF Timeline!Publish
  <2> QED
    BY <2>1, <2>2, <2>3, <2>6, CommitKeepsEdited DEF Timeline!Next, Timeline!Years, Years
<1>2. ASSUME NEW f \in Live, NEW name \in Names, NEW y \in Years, RenameFund(f, name, y)
      PROVE  [Timeline!Next]_(Timeline!vars) /\ WellEdited'
  <2> DEFINE new == [row[f] EXCEPT !.name = name]
  <2>1. f \in Funds /\ row[f] \in Row /\ row[f].abolished = NULL
    BY StoredRow DEF Live
  <2>2. new \in Row /\ new.name = name /\ new.from = row[f].from /\ new.abolished = NULL
    BY <2>1 DEF Row
  <2>3. Commit(f, new, y, "update", new, row[f])
    BY <1>2 DEF RenameFund
  <2> HIDE DEF new
  <2>4. EditOf(f, y, "update", new, new, row[f])
    BY <2>1, <2>2, <2>3, CommitIsAnEdit DEF EditOf, IsEdit
  <2>5. Timeline!Request({f}, y)
    BY <2>1, <2>2, <2>3, <2>4, EditIsARequest
  <2>6. (ShownTable')[f][y] = {name}
    BY <2>1, <2>2, <2>3, CommitShows, ShownTableAt
  <2>7. Timeline!Publish(f, name, y)
    BY <2>5, <2>6 DEF Timeline!Publish
  <2> QED
    BY <2>1, <2>2, <2>3, <2>4, <2>7, CommitKeepsEdited DEF Timeline!Next, Timeline!Years, Years
<1>3. ASSUME NEW f \in Live, NEW y \in Years, AbolishFund(f, y)
      PROVE  [Timeline!Next]_(Timeline!vars) /\ WellEdited'
  <2> DEFINE new == Abolished(row[f], y)
  <2>1. f \in Funds /\ row[f] \in Row
    BY StoredRow DEF Live
  <2>2. new \in Row /\ new.from = row[f].from /\ new.abolished = y
    BY <2>1, AbolishedRow DEF Abolished, Row
  <2>3. Commit(f, new, y, "abolish", row[f], row[f])
    BY <1>3 DEF AbolishFund
  <2> HIDE DEF new
  <2>4. EditOf(f, y, "abolish", new, row[f], row[f])
    <3>1. IsEdit(row[f], y, "abolish", new, row[f])
      BY <2>2 DEF IsEdit, Live
    <3> QED
      BY <2>1, <2>3, <3>1, CommitIsAnEdit DEF EditOf
  <2>5. Timeline!Request({f}, y)
    BY <2>1, <2>2, <2>3, <2>4, EditIsARequest
  <2>6. Listed(row'[f], versions'[f], MaxYear) = {}
    BY <2>1, <2>2, <2>4, AbolitionHides
  <2>7. (ShownTable')[f][MaxYear] = {}
    BY <2>1, <2>6, ShownIsListed, ShownTableAt DEF Years
  <2>8. Timeline!Withdraw({f}, y)
    BY <2>5, <2>7 DEF Timeline!Withdraw
  <2>9. {f} \in (SUBSET Funds) \ {{}}
    BY <2>1
  <2> QED
    BY <2>1, <2>2, <2>3, <2>4, <2>8, <2>9, CommitKeepsEdited DEF Timeline!Next, Timeline!Years, Years
<1>4. ASSUME NEW y \in Years, FullReviseFunds(y)
      PROVE  [Timeline!Next]_(Timeline!vars) /\ WellEdited'
  <2>1. ASSUME NEW f \in Funds \ Live
        PROVE  row'[f] = row[f] /\ versions'[f] = versions[f]
    BY <1>4, <2>1 DEF FullReviseFunds
  <2>2. WellEdited'
    <3>1. ASSUME NEW f \in Live PROVE Edited(row'[f], versions'[f])
      BY <1>4, <3>1, RevisionIsAnEdit, EditLeavesEdited
    <3> QED
      BY <2>1, <3>1, EditedIsPointwise
  <2>3. ASSUME NEW f \in Funds, NEW x \in Years, f \notin Live \/ x < y
        PROVE  Shown(f, x)' = Shown(f, x)
    <3>1. Listed(row'[f], versions'[f], x) = Listed(row[f], versions[f], x)
      <4>1. CASE f \notin Live
        BY <2>1, <4>1
      <4>2. CASE f \in Live /\ x < y
        BY <1>4, <4>2, RevisionIsAnEdit, EditSparesPast
      <4> QED
        BY <2>3, <4>1, <4>2
    <3> QED
      BY <3>1, ShownIsListed
  <2>4. CASE Live = {}
    <3>1. Journal' = Journal
      BY <1>4, <2>4 DEF FullReviseFunds, Journal
    <3> QED
      BY <2>2, <2>3, <2>4, <3>1, NoNewEdit
  <2>5. CASE Live # {}
    <3> DEFINE entries == {[id |-> writes + 1, fund |-> NULL, year |-> y, type |-> "revise",
                            before |-> NULL]}
                          \cup {[id |-> writes + 1, fund |-> f, year |-> y, type |-> "abolish",
                                 before |-> row[f]] : f \in Live}
    <3>1. log' = log \cup entries
      BY <1>4 DEF FullReviseFunds
    <3>2. \A e \in entries : e.id = writes + 1 /\ e.year = y /\ e.fund \in Live \cup {NULL}
      OBVIOUS
    <3>3. ASSUME NEW f \in Live PROVE \E e \in entries : e.fund = f
      <4>1. [id |-> writes + 1, fund |-> f, year |-> y, type |-> "abolish", before |-> row[f]]
              \in entries
        OBVIOUS
      <4> QED
        BY <4>1
    <3> HIDE DEF entries
    <3>4. Live \in SUBSET Funds
      BY DEF Live, Stored
    <3>5. Timeline!Request(Live, y)
      BY <2>3, <3>1, <3>2, <3>3, <3>4, EntriesAreARequest
    <3>6. ASSUME NEW f \in Live PROVE (ShownTable')[f][MaxYear] = {}
      <4>1. /\ f \in Funds /\ Abolished(row[f], y) \in Row
            /\ EditOf(f, y, "abolish", Abolished(row[f], y), row[f], row[f])
        BY <1>4, <3>6, RevisionIsAnEdit
      <4>2. Listed(row'[f], versions'[f], MaxYear) = {}
        BY <4>1, AbolitionHides
      <4> QED
        BY <4>1, <4>2, ShownIsListed, ShownTableAt DEF Years
    <3>7. Timeline!Withdraw(Live, y)
      BY <3>5, <3>6 DEF Timeline!Withdraw
    <3> QED
      BY <2>2, <2>5, <3>4, <3>7 DEF Timeline!Next, Timeline!Years, Years
  <2> QED
    BY <2>4, <2>5
<1>5. ASSUME UNCHANGED <<versions, log, writes>>,
             \A f \in Funds : /\ row[f] = NULL => row'[f] = NULL
                              /\ row[f] # NULL => row'[f] # NULL /\ row'[f].name = row[f].name
                              /\ row[f] # NULL /\ versions[f] = {}
                                   => /\ row'[f].from = row[f].from
                                      /\ row'[f].abolished = row[f].abolished
      PROVE  [Timeline!Next]_(Timeline!vars)
  <2>1. Journal' = Journal
    BY <1>5 DEF Journal
  <2>2. ASSUME NEW f \in Funds, NEW x \in Years
        PROVE  Listed(row'[f], versions'[f], x) = Listed(row[f], versions[f], x)
    BY <1>5 DEF Listed, Tells, ActiveInYear
  <2>3. \A f \in Funds, x \in Years : Shown(f, x)' = Shown(f, x)
    BY <2>2, ShownIsListed
  <2> QED
    BY <2>1, <2>3, NoNewEdit
<1>6. ASSUME NEW f \in Funds, NEW active \in BOOLEAN, SetFundActive(f, active)
      PROVE  [Timeline!Next]_(Timeline!vars) /\ WellEdited'
  <2> DEFINE new == [row[f] EXCEPT !.active = active]
  <2>1. row[f] \in Row
    BY <1>6, StoredRow DEF SetFundActive
  <2>2. new.name = row[f].name /\ new.from = row[f].from /\ new.abolished = row[f].abolished /\ new # NULL
    BY <2>1, RowAssumption DEF Row
  <2>3. row' = [row EXCEPT ![f] = new] /\ UNCHANGED <<versions, log, writes>>
    BY <1>6 DEF SetFundActive
  <2> HIDE DEF new
  <2>4. row'[f] = new /\ \A g \in Funds : g # f => row'[g] = row[g]
    BY <2>3 DEF TypeOK
  <2>5. [Timeline!Next]_(Timeline!vars)
    BY <1>5, <2>1, <2>2, <2>3, <2>4, RowAssumption
  <2>6. \A g \in Funds : row'[g] # NULL => Edited(row'[g], versions'[g])
    BY <2>1, <2>2, <2>3, <2>4, EditedIsPointwise, RowAssumption DEF Edited
  <2> QED
    BY <2>5, <2>6, EditedIsPointwise
<1>7. CASE Restart
  <2>1. ASSUME NEW f \in Stored
        PROVE  /\ row[f] \in Row /\ row'[f] \in Row /\ row'[f].name = row[f].name
               /\ OpenRows(versions[f]) = {} => row'[f] = row[f]
               /\ Edited(row'[f], versions'[f])
    <3>1. f \in Funds /\ row[f] \in Row /\ versions[f] \in SUBSET Version(Row)
      BY <2>1, StoredRow DEF TypeOK
    <3>2. row'[f] = LiveFromOpen(row[f], versions[f]) /\ versions'[f] = versions[f]
      BY <1>7, <2>1, <3>1 DEF Restart
    <3>3. row'[f] \in Row
      BY <3>1, <3>2, LiveFromOpenRow
    <3>4. row'[f].name = row[f].name
      BY <3>1, <3>2, <3>3 DEF LiveFromOpen, Row
    <3>5. OpenRows(versions[f]) = {} => row'[f] = row[f]
      BY <3>2 DEF LiveFromOpen, First
    <3>6. Edited(row'[f], versions'[f])
      <4>1. CASE First(OpenRows(versions[f])) = {}
        BY <2>1, <3>2, <4>1, EditedIsPointwise DEF LiveFromOpen, Stored
      <4>2. CASE First(OpenRows(versions[f])) # {}
        <5> DEFINE u == CHOOSE v \in First(OpenRows(versions[f])) : TRUE
        <5>1. u \in versions[f] /\ IsOpen(u)
          BY <4>2 DEF First, OpenRows
        <5>2. row'[f].from = u.from
          BY <3>1, <3>2, <4>2 DEF LiveFromOpen, Row
        <5>3. u.from \in Int
          BY <3>1, <5>1 DEF Version, Years
        <5> HIDE DEF u
        <5>4. \A v \in versions[f] : versions[f] = {v} => v = u
          BY <5>1
        <5>5. \A v \in versions[f] : versions[f] = {v} => v.from <= row'[f].from
          BY <5>2, <5>3, <5>4
        <5> QED
          BY <3>2, <5>1, <5>5 DEF Edited
      <4> QED
        BY <4>1, <4>2
    <3> QED
      BY <3>1, <3>3, <3>4, <3>5, <3>6
  <2>2. \A f \in Funds : row[f] = NULL => row'[f] = NULL
    BY <1>7 DEF Restart, Stored
  <2>3. WellEdited'
    BY <2>1, <2>2, EditedIsPointwise DEF Stored
  <2>4. \A f \in Funds : versions[f] = {} => OpenRows(versions[f]) = {}
    BY DEF OpenRows
  <2>5. [Timeline!Next]_(Timeline!vars)
    BY <1>5, <1>7, <2>1, <2>2, <2>4, RowAssumption DEF Restart, Stored
  <2> QED
    BY <2>3, <2>5
<1> QED
  BY <1>1, <1>2, <1>3, <1>4, <1>6, <1>7 DEF EditNext

LEMMA InitEdited == Init => WellEdited
BY DEF Init, WellEdited, Edited, Stored, Seeded

\* A step with discipline so far keeps the rows in order; a step without is not asked to.
MCStep == Next /\ disciplined' = (disciplined /\ EditNext)

MCInv == /\ TypeOK /\ RowsAgree /\ Bookkeeping
         /\ disciplined \in BOOLEAN
         /\ disciplined => WellEdited

LEMMA MCInitInv == MCInit => MCInv /\ Timeline!Init
BY InitType, InitRowsAgree, InitBooks, InitEdited, InitRefines DEF MCInit, MCInv

LEMMA MCNextInv ==
  MCInv /\ [MCStep]_<<vars, disciplined>>
    => MCInv' /\ [disciplined' => [Timeline!Next]_(Timeline!vars)]_<<vars, disciplined>>
<1> SUFFICES ASSUME MCInv, [MCStep]_<<vars, disciplined>>
             PROVE  MCInv' /\ [disciplined' => [Timeline!Next]_(Timeline!vars)]_<<vars, disciplined>>
  OBVIOUS
<1>1. TypeOK' /\ RowsAgree' /\ Bookkeeping'
  BY NextType, NextRowsAgree, NextBooks DEF MCInv, MCStep
<1>2. CASE MCStep
  <2>1. disciplined' \in BOOLEAN /\ (disciplined' => disciplined /\ EditNext)
    BY <1>2 DEF MCStep
  <2>2. disciplined' => [Timeline!Next]_(Timeline!vars) /\ WellEdited'
    BY <1>1, <2>1, EditNextRefines DEF MCInv
  <2> QED
    BY <1>1, <2>1, <2>2 DEF MCInv
<1>3. CASE UNCHANGED <<vars, disciplined>>
  <2>1. WellEdited => WellEdited'
    BY <1>3 DEF vars, WellEdited, Stored
  <2> QED
    BY <1>1, <1>3, <2>1 DEF MCInv
<1> QED
  BY <1>2, <1>3

\* The store of fund sources implements the timeline of FundTimeline for as long
\* as nobody edits an abolished fund or rolls back: an edit shows in the year it was
\* made for and reaches no earlier year and no other fund, and a restart none at all.
THEOREM StoreIsATimeline == MCSpec => ImplementsTimeline
<1>1. MCSpec => [](MCInv) /\ Timeline!Init
  BY MCInitInv, MCNextInv, PTL DEF MCSpec, MCStep
<1> QED
  BY <1>1, MCNextInv, PTL DEF MCSpec, MCStep, ImplementsTimeline

=============================================================================
